----------------------------- MODULE ClientInput -----------------------------
(***************************************************************************)
(* What the user types into the client, and the windows it is typed in: the  *)
(* login and registration windows (src/client/login.c, regist.c), the check  *)
(* of names and passwords (password_check.c), the pop-up (new_small_window.c),*)
(* the dialogs to add a group or a friend (list.c), and the text of a        *)
(* message, with its stickers (cmUI.c).                                      *)
(*                                                                           *)
(* Strings are sequences of bytes.  A letter outside ASCII is the bytes      *)
(* "L", "c", "c": a lead byte and two continuation bytes.  Module Client     *)
(* sends the requests these actions lead to.                                 *)
(***************************************************************************)
EXTENDS Integers, Sequences, SequencesExt

CONSTANT Misprints  \* what sprintf may make of a text from its first percent sign on

VARIABLES
  window,        \* "login", "regist", "waiting", "main", and "off" after exit
  popup,         \* what the pop-up says: "none", "rejected", "registered", "failed"
  groupDialog,   \* the dialog of the group tab: "none", "join", "create"
  friendDialog,  \* the dialog of the friend tab is open
  warnings,      \* a warning about a group number is open
  entry,         \* view2_buffer, the message being written
  stickers,      \* the popup of the stickers is open
  printed        \* what print_msg inserted last: the text and the pieces shown

dialogs   == <<groupDialog, friendDialog, warnings>>
composer  == <<entry, stickers, printed>>
inputVars == <<window, popup, dialogs, composer>>

InputInit ==
  /\ window = "login" /\ popup = "none"
  /\ groupDialog = "none" /\ friendDialog = FALSE /\ warnings = FALSE
  /\ entry = <<>> /\ stickers = FALSE
  /\ printed = [text |-> <<>>, pieces |-> <<>>]

\* The process ends: its windows are gone.
CloseAll ==
  /\ window' = "off" /\ popup' = "none"
  /\ groupDialog' = "none" /\ friendDialog' = FALSE /\ warnings' = FALSE
  /\ entry' = <<>> /\ stickers' = FALSE
  /\ printed' = [text |-> <<>>, pieces |-> <<>>]

-----------------------------------------------------------------------------
(* Names, passwords and numbers. *)

\* A definition called Faulty... is its namesake with a bug put in; no action
\* uses it.  Each one shows which property notices that bug.

Digits == <<"0", "1", "2", "3", "4", "5", "6", "7", "8", "9">>
Letters == <<"a", "b", "c", "d", "e", "f", "g", "h", "i", "j", "k", "l", "m",
             "n", "o", "p", "q", "r", "s", "t", "u", "v", "w", "x", "y", "z">>

\* password_check
PasswordCheck(username, password) ==
  /\ Len(username) <= 30
  /\ Len(password) \in 6..16
  /\ ToSet(username) \subseteq ToSet(Digits) \union ToSet(Letters)
  /\ " " \notin ToSet(password)

\* login_on_button_clicked: what makes it ask the server.
LoginAccepts(username, password) ==
  /\ Len(username) # 0 /\ Len(password) # 0
  /\ PasswordCheck(username, password)

\* The password is compared with its repetition only.
FaultyRegistAccepts(username, password, rpassword) == password = rpassword

\* regist_on_button_clicked: here an empty name passes.
RegistAccepts(username, password, rpassword) ==
  /\ password = rpassword
  /\ PasswordCheck(username, password)

DigitValue(d) == (CHOOSE i \in DOMAIN Digits : Digits[i] = d) - 1

\* str2int: ten times the number that is written, and -1 for what is not a
\* number of at most eight digits.  Its only use is the comparison with -1.
Str2Int(txt) ==
  IF Len(txt) >= 9 \/ ~(ToSet(txt) \subseteq ToSet(Digits)) THEN -1
  ELSE FoldLeft(LAMBDA ret, d : (ret + DigitValue(d)) * 10, 0, txt)

\* sscanf("%d") on what Str2Int let pass; nothing is stored for "".
ReadNumber(txt) == FoldLeft(LAMBDA n, d : 10 * n + DigitValue(d), 0, txt)

\* The digits are not reversed at the end.
FaultyInt2Str(a) ==
  LET digits[n \in 0..a] == IF n = 0 THEN <<>> ELSE <<Digits[(n % 10) + 1]>> \o digits[n \div 10]
  IN  IF a = 0 THEN <<"0">> ELSE digits[a]

\* int2str: the digits from the last to the first, reversed at the end.
Int2Str(a) ==
  LET digits[n \in 0..a] == IF n = 0 THEN <<>> ELSE <<Digits[(n % 10) + 1]>> \o digits[n \div 10]
  IN  IF a = 0 THEN <<"0">> ELSE Reverse(digits[a])

-----------------------------------------------------------------------------
(* Windows. *)

\* A window on screen answers the user as long as the process runs.
CheckFails ==
  /\ popup' = "rejected"
  /\ UNCHANGED <<window, dialogs, composer>>

LoginClicked ==
  /\ window' = "waiting"
  /\ UNCHANGED <<popup, dialogs, composer>>

ToRegist ==
  /\ window = "login"
  /\ window' = "regist"
  /\ UNCHANGED <<popup, dialogs, composer>>

\* regist_on_button_clicked after the request, regist_to_login_on_button_clicked
ToLogin ==
  /\ window = "regist"
  /\ window' = "login"
  /\ UNCHANGED <<popup, dialogs, composer>>

ShowMainWindow ==
  /\ window' = "main"
  /\ UNCHANGED <<popup, dialogs, composer>>

\* create_new_pop_window, for the answer to a registration
PopUp(text) ==
  /\ popup' = text
  /\ UNCHANGED <<window, dialogs, composer>>

\* new_small_window_callback
HidePopUp ==
  /\ popup # "none"
  /\ popup' = "none"
  /\ UNCHANGED <<window, dialogs, composer>>

\* add_group and create_group: the two buttons are insensitive while a dialog
\* is open.
OpenGroupDialog(kind) ==
  /\ groupDialog = "none"
  /\ groupDialog' = kind
  /\ UNCHANGED <<window, popup, friendDialog, warnings, composer>>

\* confirm_group on a bad number: a warning, and the dialog stays.
RefuseNumber(txt) ==
  /\ groupDialog = "join" /\ Str2Int(txt) = -1
  /\ warnings' = TRUE
  /\ UNCHANGED <<window, popup, groupDialog, friendDialog, composer>>

\* destroy_widget
CloseWarning ==
  /\ warnings
  /\ warnings' = FALSE
  /\ UNCHANGED <<window, popup, groupDialog, friendDialog, composer>>

\* close_window_group
CloseGroupDialog ==
  /\ groupDialog # "none"
  /\ groupDialog' = "none"
  /\ UNCHANGED <<window, popup, friendDialog, warnings, composer>>

\* search_friend
OpenFriendDialog ==
  /\ ~friendDialog
  /\ friendDialog' = TRUE
  /\ UNCHANGED <<window, popup, groupDialog, warnings, composer>>

\* close_window_friend
CloseFriendDialog ==
  /\ friendDialog
  /\ friendDialog' = FALSE
  /\ UNCHANGED <<window, popup, groupDialog, warnings, composer>>

-----------------------------------------------------------------------------
(* The text of a message. *)

StickerCodes ==
  {<<"/", "a", "m">>, <<"/", "d", "k">>, <<"/", "f", "d">>,
   <<"/", "s", "k">>, <<"/", "w", "x">>, <<"/", "z", "j">>}

\* GTK inserts nothing into a text buffer when it is given broken UTF-8.
WholeLetters(b) ==
  \A i \in DOMAIN b :
    /\ b[i] = "L" => i + 2 <= Len(b) /\ b[i + 1] = "c" /\ b[i + 2] = "c"
    /\ b[i] = "c" => \/ i > 1 /\ b[i - 1] = "L"
                     \/ i > 2 /\ b[i - 2] = "L"

Insert(b) == IF b # <<>> /\ WholeLetters(b) THEN <<[sticker |-> FALSE, bytes |-> b]>> ELSE <<>>

\* print_sticker: what is no code is inserted as it is.
PrintSticker(b) == IF b \in StickerCodes THEN <<[sticker |-> TRUE, bytes |-> b]>> ELSE Insert(b)

SlashesFrom(content, i) == {s \in i..Len(content) : content[s] = "/"}
FirstSlash(content, i) ==
  CHOOSE s \in SlashesFrom(content, i) : \A r \in SlashesFrom(content, i) : s <= r

\* A text that does not begin with its code holds no sticker.
FaultyPrintContent(content) ==
  IF Len(content) >= 3 /\ content[1] = "/"
  THEN PrintSticker(SubSeq(content, 1, 3)) \o Insert(SubSeq(content, 4, Len(content)))
  ELSE Insert(content)

\* print_content: what stands before a slash, then the slash and the two bytes
\* after it as a sticker, then the same for the rest.
PrintContent(content) ==
  LET from[i \in 1..(Len(content) + 1)] ==
        IF SlashesFrom(content, i) = {} THEN Insert(SubSeq(content, i, Len(content)))
        ELSE LET s == FirstSlash(content, i)
             IN  Insert(SubSeq(content, i, s - 1)) \o
                 IF s + 2 <= Len(content)
                 THEN PrintSticker(SubSeq(content, s, s + 2)) \o from[s + 3]
                 ELSE Insert(<<"/">>) \o from[s + 1]
  IN  from[1]

\* The user writes at the end of the message.
TypeText(txt) ==
  /\ entry' = entry \o txt
  /\ UNCHANGED <<window, popup, dialogs, stickers, printed>>

\* sticker_button_press
OpenStickers ==
  /\ ~stickers
  /\ stickers' = TRUE
  /\ UNCHANGED <<window, popup, dialogs, entry, printed>>

\* insert_sticker
InsertSticker(code) ==
  /\ stickers
  /\ stickers' = FALSE
  /\ entry' = entry \o code
  /\ UNCHANGED <<window, popup, dialogs, printed>>

\* destory_sticker_window
LeaveStickers ==
  /\ stickers
  /\ stickers' = FALSE
  /\ UNCHANGED <<window, popup, dialogs, entry, printed>>

\* What stands before the first percent sign.
PlainPart(txt) == SubSeq(txt, 1, SelectInSeq(txt, LAMBDA b : b = "%") - 1)

\* show_chatrecord_single and _group copy a chat with sprintf, which takes it
\* for a format: a percent sign is the end of what is known of the copy.
Copies(txt) ==
  IF "%" \notin ToSet(txt) THEN {txt} ELSE {PlainPart(txt) \o rest : rest \in Misprints}

\* send_button_press: the message is taken out of the entry before it is known
\* whether it goes anywhere.  "shown" says that print_msg shows it at once.
TakeEntry(shown) ==
  /\ entry # <<>>
  /\ entry' = <<>>
  /\ IF shown
     THEN \E content \in Copies(entry) :
            printed' = [text |-> entry, pieces |-> PrintContent(content)]
     ELSE UNCHANGED printed
  /\ UNCHANGED <<window, popup, dialogs, stickers>>

-----------------------------------------------------------------------------
InputTypeOK ==
  /\ window \in {"login", "regist", "waiting", "main", "off"}
  /\ popup \in {"none", "rejected", "registered", "failed"}
  /\ groupDialog \in {"none", "join", "create"}
  /\ {friendDialog, warnings, stickers} \subseteq BOOLEAN
  /\ printed.text = <<>> => printed.pieces = <<>>

\* Nothing of a message without a percent sign is lost on its way to the screen,
\* unless a slash has part of a letter outside ASCII among the two bytes after it,
\* and a sticker is shown for every code but one that begins within the two bytes
\* after another slash.
PrintedAsWritten ==
  LET t == printed.text
      shown(i) == printed.pieces[i].bytes
      before(i) == FlattenSeq([j \in 1..(i - 1) |-> shown(j)])
      cutsLetter(s) == \E i \in {s + 1, s + 2} \intersect DOMAIN t : t[i] \in {"L", "c"}
      codes == {s \in 1..(Len(t) - 2) :
                  /\ SubSeq(t, s, s + 2) \in StickerCodes
                  /\ \A r \in {s - 1, s - 2} \intersect DOMAIN t : t[r] # "/"}
  IN  "%" \notin ToSet(t) =>
      /\ (\A s \in DOMAIN t : t[s] = "/" => ~cutsLetter(s))
         => before(Len(printed.pieces) + 1) = t
      /\ \A s \in codes : \E i \in DOMAIN printed.pieces :
           /\ printed.pieces[i].sticker
           /\ shown(i) = SubSeq(t, s, s + 2)
           /\ Len(before(i)) <= s - 1
=============================================================================
