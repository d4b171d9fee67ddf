\* Two possible contacts; groups 1 to 11, and 12 and 13 to be created; two chats are shown of a conversation.
CONSTANTS
  ann = ann
  bob = bob
  Friends <- TwoFriends
  NoUser = NoUser
  NameRank <- Ranks
  Groups = {1, 2, 3, 4, 5, 6, 7, 8, 9, 10, 11, 12, 13}
  ShowLimit = 2
  TextLimit = 8
  Misprints <- SomeMisprints
  Account <- Me
  Budgets <- AllBudgets
SPECIFICATION Spec
CHECK_DEADLOCK FALSE
INVARIANTS TypeOK FocusFollowsRow OneHighlight LabelIsTarget MembersFollowConversation Placed ViewIsOpenConversation MembersCurrent StoredOnlyIfMishap JoinedAsAsked AccountsUsable NumbersReadBack PrintedAsWritten
PROPERTIES LoginAnswered ContactAppears
