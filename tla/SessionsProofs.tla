---------------------------- MODULE SessionsProofs ----------------------------
(* Proofs about Sessions for any number of connections, users and slots. *)
EXTENDS Sessions, TLAPS

USE SlotAssumption, DescAssumption, NameAssumption, ConnAssumption
    DEF Slots, NoFd

\* Threads whose slot still holds a descriptor: the serving ones and the one
\* that has closed its connection and not yet written -1.
Holding == {c \in Conns : c \in Serving \/ pc[c] = "free"}

\* The induction hypothesis of OwnConnection: a held slot has a descriptor, so
\* add_client cannot give it to somebody else; a connection that accept has just
\* returned has no thread yet, and its descriptor is open.
SlotInv ==
  /\ \A c \in Conns : pc[c] \in {"find", "notify", "set"} => who[c] \in Users
  /\ \A c \in Holding : FdOf(c) \in Descs
  /\ \A b, c \in Holding : slotOf[b] = slotOf[c] => b = c
  /\ \A c \in Serving : owner[FdOf(c)] = c
  /\ \A c \in Conns : peer[c] = "away" => pc[c] = "none"
  /\ accepted # NoConn => /\ connectfd \in Descs
                          /\ owner[connectfd] = accepted
                          /\ pc[accepted] = "none"
                          /\ peer[accepted] # "away"

TableInv == TypeOK /\ SlotInv /\ NameMatchesConnection

\* The cleared table satisfies the invariant.
LEMMA InitTable == Init => TableInv
  BY DEF Init, TableInv, TypeOK, SlotInv, NameMatchesConnection, Holding, Serving, FdOf

\* Every step of the listen, client and send threads keeps the types.
LEMMA TypeStep == TypeOK /\ SlotInv /\ [Next]_vars => TypeOK'
  <1> SUFFICES ASSUME TypeOK, SlotInv, [Next]_vars PROVE TypeOK'
    OBVIOUS
  <1> USE DEF TypeOK, table, kernel, listen, request, sender
  <1>1. ASSUME NEW c \in Conns, NEW d \in Descs, Accept(c, d) PROVE TypeOK'
    BY <1>1 DEF Accept
  <1>2. ASSUME NEW c \in Conns, HangUp(c) PROVE TypeOK'
    BY <1>2 DEF HangUp
  <1>3. ASSUME NEW s \in Slots, AddClient(s) PROVE TypeOK'
    <2>1. connectfd \in Descs
      BY <1>3 DEF AddClient, SlotInv
    <2> QED BY <1>3, <2>1 DEF AddClient
  <1>4. CASE Refuse
    BY <1>4 DEF Refuse
  <1>5. ASSUME NEW c \in Conns, NEW u \in Users, RecvLogin(c, u) PROVE TypeOK'
    BY <1>5 DEF RecvLogin
  <1>6. ASSUME NEW c \in Conns, NEW u \in Users, RecvLogout(c, u) PROVE TypeOK'
    BY <1>6 DEF RecvLogout
  <1>7. ASSUME NEW c \in Conns, RecvEnd(c) PROVE TypeOK'
    BY <1>7 DEF RecvEnd
  <1>8. ASSUME NEW c \in Conns, LoginFound(c) PROVE TypeOK'
    BY <1>8 DEF LoginFound
  <1>9. ASSUME NEW c \in Conns, LoginNotFound(c) PROVE TypeOK'
    BY <1>9 DEF LoginNotFound
  <1>10. ASSUME NEW c \in Conns, LoginSet(c) PROVE TypeOK'
    <2>1. who[c] \in Users
      BY <1>10 DEF LoginSet, SlotInv
    <2> QED BY <1>10, <2>1 DEF LoginSet
  <1>11. ASSUME NEW c \in Conns, LogoutMatch(c) PROVE TypeOK'
    BY <1>11 DEF LogoutMatch
  <1>12. ASSUME NEW c \in Conns, LogoutMismatch(c) PROVE TypeOK'
    BY <1>12 DEF LogoutMismatch, BackToRecv
  <1>13. ASSUME NEW c \in Conns, LogoutWipe(c) PROVE TypeOK'
    BY <1>13 DEF LogoutWipe, BackToRecv
  <1>14. ASSUME NEW c \in Conns, CloseFd(c) PROVE TypeOK'
    BY <1>14 DEF CloseFd
  <1>15. ASSUME NEW c \in Conns, FreeSlot(c) PROVE TypeOK'
    BY <1>15 DEF FreeSlot
  <1>16. ASSUME NEW c \in Conns, ClearName(c) PROVE TypeOK'
    BY <1>16 DEF ClearName
  <1>17. ASSUME NEW u \in Users, SndLookup(u) PROVE TypeOK'
    BY <1>17 DEF SndLookup
  <1>18. CASE SndSend
    BY <1>18 DEF SndSend, SndNextMessage
  <1>19. CASE UNCHANGED vars
    BY <1>19 DEF vars
  <1>20. ASSUME NEW c \in Conns, RecvOther(c) PROVE TypeOK'
    BY <1>20 DEF RecvOther
  <1>21. ASSUME NEW c \in Conns, Handled(c) PROVE TypeOK'
    BY <1>21 DEF Handled, BackToRecv
  <1>22. ASSUME NEW c \in Conns, LoginLook(c) PROVE TypeOK'
    BY <1>22 DEF LoginLook, LastSlot
  <1>23. ASSUME NEW c \in Conns, Notified(c) PROVE TypeOK'
    BY <1>23 DEF Notified
  <1>24. ASSUME NEW c \in Conns, Replayed(c) PROVE TypeOK'
    BY <1>24 DEF Replayed
  <1>25. ASSUME NEW c \in Conns, Receipt(c) PROVE TypeOK'
    BY <1>25 DEF Receipt, BackToRecv
  <1>26. CASE SndNext
    BY <1>26 DEF SndNext, LastSlot
  <1>27. CASE SndMatch
    BY <1>27 DEF SndMatch
  <1>28. CASE SndRead
    BY <1>28 DEF SndRead
  <1>29. CASE SndSave
    BY <1>29 DEF SndSave, SndNextMessage
  <1> QED
    BY <1>1, <1>2, <1>3, <1>4, <1>5, <1>6, <1>7, <1>8, <1>9, <1>10, <1>11,
       <1>12, <1>13, <1>14, <1>15, <1>16, <1>17, <1>18, <1>19, <1>20,
       <1>21, <1>22, <1>23, <1>24, <1>25, <1>26, <1>27, <1>28, <1>29
       DEF Next, ListenStep, SenderStep, ThreadStep, OwnStep, Return

\* Slots and descriptors stay with the connection they were given to until its
\* thread gives them back.
LEMMA SlotStep == TypeOK /\ SlotInv /\ [Next]_vars => SlotInv'
  <1> SUFFICES ASSUME TypeOK, SlotInv, [Next]_vars PROVE SlotInv'
    OBVIOUS
  <1> USE DEF TypeOK, SlotInv, Holding, Serving, FdOf, table, kernel, listen, request, sender
  <1>1. ASSUME NEW c \in Conns, NEW d \in Descs, Accept(c, d) PROVE SlotInv'
    BY <1>1 DEF Accept
  <1>2. ASSUME NEW c \in Conns, HangUp(c) PROVE SlotInv'
    BY <1>2 DEF HangUp
  <1>3. ASSUME NEW s \in Slots, AddClient(s) PROVE SlotInv'
    BY <1>3 DEF AddClient
  <1>4. CASE Refuse
    BY <1>4 DEF Refuse
  <1>5. ASSUME NEW c \in Conns, NEW u \in Users, RecvLogin(c, u) PROVE SlotInv'
    BY <1>5 DEF RecvLogin
  <1>6. ASSUME NEW c \in Conns, NEW u \in Users, RecvLogout(c, u) PROVE SlotInv'
    BY <1>6 DEF RecvLogout
  <1>7. ASSUME NEW c \in Conns, RecvEnd(c) PROVE SlotInv'
    BY <1>7 DEF RecvEnd
  <1>8. ASSUME NEW c \in Conns, LoginFound(c) PROVE SlotInv'
    BY <1>8 DEF LoginFound
  <1>9. ASSUME NEW c \in Conns, LoginNotFound(c) PROVE SlotInv'
    BY <1>9 DEF LoginNotFound
  <1>10. ASSUME NEW c \in Conns, LoginSet(c) PROVE SlotInv'
    BY <1>10 DEF LoginSet
  <1>11. ASSUME NEW c \in Conns, LogoutMatch(c) PROVE SlotInv'
    BY <1>11 DEF LogoutMatch
  <1>12. ASSUME NEW c \in Conns, LogoutMismatch(c) PROVE SlotInv'
    BY <1>12 DEF LogoutMismatch, BackToRecv
  <1>13. ASSUME NEW c \in Conns, LogoutWipe(c) PROVE SlotInv'
    BY <1>13 DEF LogoutWipe, BackToRecv
  <1>14. ASSUME NEW c \in Conns, CloseFd(c) PROVE SlotInv'
    BY <1>14 DEF CloseFd
  <1>15. ASSUME NEW c \in Conns, FreeSlot(c) PROVE SlotInv'
    BY <1>15 DEF FreeSlot
  <1>16. ASSUME NEW c \in Conns, ClearName(c) PROVE SlotInv'
    BY <1>16 DEF ClearName
  <1>17. ASSUME NEW u \in Users, SndLookup(u) PROVE SlotInv'
    BY <1>17 DEF SndLookup
  <1>18. CASE SndSend
    BY <1>18 DEF SndSend, SndNextMessage
  <1>19. CASE UNCHANGED vars
    BY <1>19 DEF vars
  <1>20. ASSUME NEW c \in Conns, RecvOther(c) PROVE SlotInv'
    BY <1>20 DEF RecvOther
  <1>21. ASSUME NEW c \in Conns, Handled(c) PROVE SlotInv'
    BY <1>21 DEF Handled, BackToRecv
  <1>22. ASSUME NEW c \in Conns, LoginLook(c) PROVE SlotInv'
    BY <1>22 DEF LoginLook, LastSlot
  <1>23. ASSUME NEW c \in Conns, Notified(c) PROVE SlotInv'
    BY <1>23 DEF Notified
  <1>24. ASSUME NEW c \in Conns, Replayed(c) PROVE SlotInv'
    BY <1>24 DEF Replayed
  <1>25. ASSUME NEW c \in Conns, Receipt(c) PROVE SlotInv'
    BY <1>25 DEF Receipt, BackToRecv
  <1>26. CASE SndNext
    BY <1>26 DEF SndNext, LastSlot
  <1>27. CASE SndMatch
    BY <1>27 DEF SndMatch
  <1>28. CASE SndRead
    BY <1>28 DEF SndRead
  <1>29. CASE SndSave
    BY <1>29 DEF SndSave, SndNextMessage
  <1> QED
    BY <1>1, <1>2, <1>3, <1>4, <1>5, <1>6, <1>7, <1>8, <1>9, <1>10, <1>11,
       <1>12, <1>13, <1>14, <1>15, <1>16, <1>17, <1>18, <1>19, <1>20,
       <1>21, <1>22, <1>23, <1>24, <1>25, <1>26, <1>27, <1>28, <1>29
       DEF Next, ListenStep, SenderStep, ThreadStep, OwnStep, Return

\* A name is written only by the login of the slot's own connection, or cleared.
LEMMA NameStep == TypeOK /\ SlotInv /\ NameMatchesConnection /\ [Next]_vars => NameMatchesConnection'
  <1> SUFFICES ASSUME TypeOK, SlotInv, NameMatchesConnection, [Next]_vars PROVE NameMatchesConnection'
    OBVIOUS
  <1> USE DEF TypeOK, NameMatchesConnection, Serving, Leaving, table, kernel, listen, request, sender
  <1>1. ASSUME NEW c \in Conns, NEW d \in Descs, Accept(c, d) PROVE NameMatchesConnection'
    BY <1>1 DEF Accept
  <1>2. ASSUME NEW c \in Conns, HangUp(c) PROVE NameMatchesConnection'
    BY <1>2 DEF HangUp
  <1>3. ASSUME NEW s \in Slots, AddClient(s) PROVE NameMatchesConnection'
    <2>1. accepted \in Conns /\ pc[accepted] = "none"
      BY <1>3 DEF AddClient, SlotInv
    <2> QED BY <1>3, <2>1 DEF AddClient
  <1>4. CASE Refuse
    <2>1. accepted \in Conns /\ pc[accepted] = "none"
      BY <1>4 DEF Refuse, SlotInv
    <2> QED BY <1>4, <2>1 DEF Refuse
  <1>5. ASSUME NEW c \in Conns, NEW u \in Users, RecvLogin(c, u) PROVE NameMatchesConnection'
    BY <1>5 DEF RecvLogin
  <1>6. ASSUME NEW c \in Conns, NEW u \in Users, RecvLogout(c, u) PROVE NameMatchesConnection'
    BY <1>6 DEF RecvLogout
  <1>7. ASSUME NEW c \in Conns, RecvEnd(c) PROVE NameMatchesConnection'
    BY <1>7 DEF RecvEnd
  <1>8. ASSUME NEW c \in Conns, LoginFound(c) PROVE NameMatchesConnection'
    BY <1>8 DEF LoginFound
  <1>9. ASSUME NEW c \in Conns, LoginNotFound(c) PROVE NameMatchesConnection'
    BY <1>9 DEF LoginNotFound
  <1>10. ASSUME NEW c \in Conns, LoginSet(c) PROVE NameMatchesConnection'
    <2>1. pc[c] = "set" /\ pc'[c] = "replay" /\ who[c] \in verified'[c]
      BY <1>10 DEF LoginSet
    <2>2. \A b \in Conns : b # c => pc'[b] = pc[b] /\ verified'[b] = verified[b]
      BY <1>10 DEF LoginSet
    <2>3. verified[c] \subseteq verified'[c] /\ slotOf' = slotOf
      BY <1>10 DEF LoginSet
    <2>4. username'[slotOf[c]] = who[c]
          /\ \A s \in Slots : s # slotOf[c] => username'[s] = username[s]
      BY <1>10 DEF LoginSet
    <2> SUFFICES ASSUME NEW s \in Slots
                 PROVE  \/ username'[s] = NoName
                        \/ \E b \in Leaving' : slotOf'[b] = s
                        \/ \E b \in Serving' : slotOf'[b] = s /\ username'[s] \in verified'[b]
      OBVIOUS
    <2>5. CASE s = slotOf[c]
      BY <2>1, <2>3, <2>4, <2>5
    <2>6. CASE s # slotOf[c]
      <3>1. username'[s] = username[s]
        BY <2>4, <2>6
      <3>2. \A b \in Conns : verified[b] \subseteq verified'[b] /\ slotOf'[b] = slotOf[b]
        BY <2>2, <2>3
      <3>3. Serving \subseteq Serving' /\ Leaving \subseteq Leaving'
        BY <2>1, <2>2
      <3>4. CASE username[s] = NoName
        BY <3>1, <3>4
      <3>5. ASSUME NEW b \in Leaving, slotOf[b] = s
            PROVE  \E d \in Leaving' : slotOf'[d] = s
        BY <3>2, <3>3, <3>5
      <3>6. ASSUME NEW b \in Serving, slotOf[b] = s, username[s] \in verified[b]
            PROVE  \E d \in Serving' : slotOf'[d] = s /\ username'[s] \in verified'[d]
        BY <3>1, <3>2, <3>3, <3>6
      <3> QED BY <3>4, <3>5, <3>6
    <2> QED BY <2>5, <2>6
  <1>11. ASSUME NEW c \in Conns, LogoutMatch(c) PROVE NameMatchesConnection'
    BY <1>11 DEF LogoutMatch
  <1>12. ASSUME NEW c \in Conns, LogoutMismatch(c) PROVE NameMatchesConnection'
    BY <1>12 DEF LogoutMismatch, BackToRecv
  <1>13. ASSUME NEW c \in Conns, LogoutWipe(c) PROVE NameMatchesConnection'
    <2>1. \A s \in Slots : username'[s] \in {username[s], NoName}
      BY <1>13 DEF LogoutWipe
    <2>2. pc[c] = "wipe" /\ pc'[c] = "recv"
      BY <1>13 DEF LogoutWipe, BackToRecv
    <2>3. \A b \in Conns : b # c => pc'[b] = pc[b]
      BY <1>13 DEF LogoutWipe, BackToRecv
    <2>4. slotOf' = slotOf /\ verified' = verified
      BY <1>13 DEF LogoutWipe
    <2> QED BY <2>1, <2>2, <2>3, <2>4
  <1>14. ASSUME NEW c \in Conns, CloseFd(c) PROVE NameMatchesConnection'
    BY <1>14 DEF CloseFd
  <1>15. ASSUME NEW c \in Conns, FreeSlot(c) PROVE NameMatchesConnection'
    BY <1>15 DEF FreeSlot
  <1>16. ASSUME NEW c \in Conns, ClearName(c) PROVE NameMatchesConnection'
    <2>1. \A s \in Slots : username'[s] = IF s = slotOf[c] THEN NoName ELSE username[s]
      BY <1>16 DEF ClearName
    <2>2. pc[c] = "clear" /\ \A b \in Conns : b # c => pc'[b] = pc[b]
      BY <1>16 DEF ClearName
    <2>3. slotOf' = slotOf /\ verified' = verified
      BY <1>16 DEF ClearName
    <2> SUFFICES ASSUME NEW s \in Slots
                 PROVE  \/ username'[s] = NoName
                        \/ \E b \in Leaving' : slotOf'[b] = s
                        \/ \E b \in Serving' : slotOf'[b] = s /\ username'[s] \in verified'[b]
      OBVIOUS
    <2>4. CASE s = slotOf[c]
      BY <2>1, <2>4
    <2>5. CASE s # slotOf[c]
      BY <2>1, <2>2, <2>3, <2>5
    <2> QED BY <2>4, <2>5
  <1>17. ASSUME NEW u \in Users, SndLookup(u) PROVE NameMatchesConnection'
    BY <1>17 DEF SndLookup
  <1>18. CASE SndSend
    BY <1>18 DEF SndSend, SndNextMessage
  <1>19. CASE UNCHANGED vars
    BY <1>19 DEF vars
  <1>20. ASSUME NEW c \in Conns, RecvOther(c) PROVE NameMatchesConnection'
    BY <1>20 DEF RecvOther
  <1>21. ASSUME NEW c \in Conns, Handled(c) PROVE NameMatchesConnection'
    BY <1>21 DEF Handled, BackToRecv
  <1>22. ASSUME NEW c \in Conns, LoginLook(c) PROVE NameMatchesConnection'
    BY <1>22 DEF LoginLook, LastSlot
  <1>23. ASSUME NEW c \in Conns, Notified(c) PROVE NameMatchesConnection'
    BY <1>23 DEF Notified
  <1>24. ASSUME NEW c \in Conns, Replayed(c) PROVE NameMatchesConnection'
    BY <1>24 DEF Replayed
  <1>25. ASSUME NEW c \in Conns, Receipt(c) PROVE NameMatchesConnection'
    BY <1>25 DEF Receipt, BackToRecv
  <1>26. CASE SndNext
    BY <1>26 DEF SndNext, LastSlot
  <1>27. CASE SndMatch
    BY <1>27 DEF SndMatch
  <1>28. CASE SndRead
    BY <1>28 DEF SndRead
  <1>29. CASE SndSave
    BY <1>29 DEF SndSave, SndNextMessage
  <1> QED
    BY <1>1, <1>2, <1>3, <1>4, <1>5, <1>6, <1>7, <1>8, <1>9, <1>10, <1>11,
       <1>12, <1>13, <1>14, <1>15, <1>16, <1>17, <1>18, <1>19, <1>20,
       <1>21, <1>22, <1>23, <1>24, <1>25, <1>26, <1>27, <1>28, <1>29
       DEF Next, ListenStep, SenderStep, ThreadStep, OwnStep, Return

\* The inductive invariant: types, held slots, and the names in the table.
THEOREM TableInvariant == Spec => []TableInv
  <1>1. TableInv /\ [Next]_vars => TableInv'
    BY TypeStep, SlotStep, NameStep DEF TableInv
  <1> QED BY <1>1, InitTable, PTL DEF Spec

\* The type invariant, for any number of connections, users and slots.
THEOREM SessionsTypeCorrect == Spec => []TypeOK
  <1>1. TableInv => TypeOK
    BY DEF TableInv
  <1> QED BY <1>1, TableInvariant, PTL

\* No reuse of slots or of descriptor numbers, under any interleaving of
\* accept, close and the threads, makes a thread read or close a connection
\* that is not its own.
THEOREM OwnConnectionHolds == Spec => []OwnConnection
  <1>1. TableInv => OwnConnection
    BY DEF TableInv, TypeOK, SlotInv, OwnConnection, Holding, Serving
  <1> QED BY <1>1, TableInvariant, PTL

\* A name in the table was verified on the connection of its slot, except
\* during a delete_client on that slot.
THEOREM NamesVerified == Spec => []NameMatchesConnection
  <1>1. TableInv => NameMatchesConnection
    BY DEF TableInv
  <1> QED BY <1>1, TableInvariant, PTL

==============================================================================
