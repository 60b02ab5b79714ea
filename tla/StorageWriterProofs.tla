------------------------ MODULE StorageWriterProofs ------------------------
(***************************************************************************)
(* The Storage Write API transport, for every number of callers and rows:  *)
(* it leaks no connection, sends nothing once closed, and is a RowsWriter. *)
(*                                                                         *)
(* NoLeak speaks of the moments between calls; to carry it through them    *)
(* the invariant says what the call that opens or closes the connection    *)
(* has open at each of its points, and that there is one such call.        *)
(***************************************************************************)
EXTENDS StorageWriter, TLAPS

Opening(c) == pc[c] \in {"newClient", "newStream", "dropClient"}
Closing(c) == pc[c] \in {"closeStream", "closeClient"}

Connection ==
    /\ \A c \in Callers : Opening(c) =>
        /\ mu /\ ~bound /\ ~closed /\ ~streamOpen
        /\ clients = IF pc[c] = "newClient" THEN 0 ELSE 1
    /\ \A c \in Callers : Closing(c) =>
        /\ closed /\ bound /\ clients = 1
        /\ streamOpen <=> pc[c] = "closeStream"
    /\ \A c, d \in Callers :
        (Opening(c) \/ Closing(c)) /\ (Opening(d) \/ Closing(d)) => c = d
    /\ mu => \E c \in Callers : Opening(c)

IInv == TypeOK /\ Connection /\ NoLeak

LEMMA InitIInv == Init => IInv
<1> SUFFICES ASSUME Init PROVE IInv
  OBVIOUS
<1>1. TypeOK
  BY DEF Init, TypeOK, PCs, Errs
<1>2. Connection /\ NoLeak
  BY DEF Init, Connection, Opening, Closing, NoLeak
<1>. QED
  BY <1>1, <1>2 DEF IInv

-----------------------------------------------------------------------------
(* Type correctness *)

LEMMA ReturnType ==
    ASSUME TypeOK, NEW c \in Callers, NEW e \in Errs, Return(c, e)
    PROVE  pc' \in [Callers -> PCs] /\ batch' \in [Callers -> SUBSET Rows] /\ err' \in [Callers -> Errs]
BY DEF TypeOK, Return, PCs

LEMMA GotoType ==
    ASSUME TypeOK, NEW c \in Callers, NEW s \in PCs, Goto(c, s)
    PROVE  pc' \in [Callers -> PCs] /\ batch' \in [Callers -> SUBSET Rows] /\ err' \in [Callers -> Errs]
BY DEF TypeOK, Goto

LEMMA NextType == IInv /\ [Next]_vars => TypeOK'
<1> SUFFICES ASSUME IInv, [Next]_vars PROVE TypeOK'
  OBVIOUS
<1>a. TypeOK /\ Connection
  BY DEF IInv
<1> USE <1>a DEF PCs, Errs
<1>1. ASSUME NEW c \in Callers, BindSchema(c) PROVE TypeOK'
  <2>1. BindRefusal \in Errs
    BY DEF BindRefusal
  <2>. QED
    BY <1>1, <2>1, ReturnType, GotoType DEF BindSchema, TypeOK, managedwriter, appends, told
<1>2. ASSUME NEW c \in Callers, NEW rs \in SUBSET Rows, WriteRows(c, rs) PROVE TypeOK'
  <2>1. WriteRefusal \in Errs
    BY DEF WriteRefusal
  <2>2. CASE WriteRefusal = "none"
    BY <1>2, <2>2 DEF WriteRows, TypeOK, writer, managedwriter, appends
  <2>3. CASE WriteRefusal # "none"
    BY <1>2, <2>1, <2>3, ReturnType DEF WriteRows, TypeOK, writer, managedwriter, appends
  <2>. QED
    BY <2>2, <2>3
<1>3. ASSUME NEW c \in Callers, CloseBegin(c) PROVE TypeOK'
  BY <1>3, ReturnType, GotoType DEF CloseBegin, TypeOK, managedwriter, appends, told
<1>4. ASSUME NEW c \in Callers, NewClient(c) \/ NewClientFails(c) \/ NewManagedStream(c) \/ NewManagedStreamFails(c)
      PROVE  TypeOK'
  <2>1. CASE NewClient(c)
    <3>1. clients' \in Nat
      BY <2>1 DEF NewClient, TypeOK
    <3>. QED
      BY <2>1, <3>1, GotoType DEF NewClient, TypeOK, writer, appends, told
  <2>2. CASE NewClientFails(c)
    BY <2>2, ReturnType DEF NewClientFails, TypeOK, managedwriter, appends, told
  <2>3. CASE NewManagedStream(c)
    BY <2>3, ReturnType DEF NewManagedStream, TypeOK, appends, told
  <2>4. CASE NewManagedStreamFails(c)
    BY <2>4, GotoType DEF NewManagedStreamFails, TypeOK, writer, managedwriter, appends, told
  <2>. QED
    BY <1>4, <2>1, <2>2, <2>3, <2>4
<1>5. ASSUME NEW c \in Callers, DropClient(c) PROVE TypeOK'
  <2>1. clients = 1
    BY <1>5 DEF DropClient, Connection, Opening
  <2>2. clients' = 0
    BY <1>5, <2>1 DEF DropClient, Released
  <2>. QED
    BY <1>5, <2>2, ReturnType DEF DropClient, TypeOK, appends, told
<1>6. ASSUME NEW c \in Callers, Marshal(c) \/ AppendRows(c) \/ AppendOnClosed(c) \/ AppendFails(c)
      PROVE  TypeOK'
  <2>1. batch[c] \in SUBSET Rows
    BY DEF TypeOK
  <2>2. CASE Marshal(c)
    BY <2>1, <2>2, ReturnType, GotoType DEF Marshal, Refuse, TypeOK, writer, managedwriter, appends, told
  <2>3. CASE AppendRows(c)
    BY <2>1, <2>3, GotoType DEF AppendRows, TypeOK, writer, managedwriter, told
  <2>4. CASE AppendOnClosed(c)
    BY <2>1, <2>4, ReturnType DEF AppendOnClosed, Refuse, TypeOK, writer, managedwriter, appends
  <2>5. CASE AppendFails(c)
    BY <2>1, <2>5, ReturnType DEF AppendFails, Refuse, TypeOK, writer, managedwriter
  <2>. QED
    BY <1>6, <2>2, <2>3, <2>4, <2>5
<1>7. ASSUME NEW c \in Callers, Wait(c) \/ WaitAbandoned(c) PROVE TypeOK'
  BY <1>7, ReturnType DEF Wait, WaitAbandoned, TypeOK, writer, managedwriter, appends, told
<1>8. ASSUME NEW c \in Callers, CloseStream(c) PROVE TypeOK'
  BY <1>8 DEF CloseStream, StreamClose, TypeOK, writer, appends, told
<1>9. ASSUME NEW c \in Callers, CloseClient(c) PROVE TypeOK'
  <2>1. clients' = 0
    BY <1>9 DEF CloseClient, Released, Connection, Closing
  <2>2. PICK e \in {"none", "close"} : Return(c, IF err[c] = "none" THEN e ELSE err[c])
    BY <1>9 DEF CloseClient
  <2>3. (IF err[c] = "none" THEN e ELSE err[c]) \in Errs
    BY DEF TypeOK
  <2>. QED
    BY <1>9, <2>1, <2>2, <2>3, ReturnType DEF CloseClient, TypeOK, writer, appends, told
<1>10. ASSUME NEW b \in sent, Answer(b) \/ AnswerLost(b) PROVE TypeOK'
  BY <1>10 DEF Answer, AnswerLost, TypeOK, writer, managedwriter, told
<1>11. CASE UNCHANGED vars
  BY <1>11 DEF vars, TypeOK, writer, managedwriter, appends, told
<1>. QED
  BY <1>1, <1>2, <1>3, <1>4, <1>5, <1>6, <1>7, <1>8, <1>9, <1>10, <1>11 DEF Next, Continue

-----------------------------------------------------------------------------
(* The connection *)

\* A step of a call that neither opens nor closes anything.
LEMMA Bystander ==
    ASSUME IInv, NEW c \in Callers, NEW s \in PCs, ~Opening(c), ~Closing(c),
           s \notin {"newClient", "newStream", "dropClient", "closeStream", "closeClient"},
           pc' = [pc EXCEPT ![c] = s], UNCHANGED <<writer, managedwriter>>
    PROVE  Connection' /\ NoLeak'
<1> USE DEF IInv, TypeOK, writer, managedwriter
<1>1. \A d \in Callers : Opening(d)' = Opening(d) /\ Closing(d)' = Closing(d)
                         /\ (Opening(d) \/ Closing(d) => pc'[d] = pc[d])
  BY DEF Opening, Closing
<1>2. Connection'
  BY <1>1 DEF Connection
<1>3. Settled' <=> Settled
  BY <1>1 DEF Settled, Opening, Closing
<1>. QED
  BY <1>2, <1>3 DEF NoLeak

LEMMA NextConnection == IInv /\ [Next]_vars => Connection' /\ NoLeak'
<1> SUFFICES ASSUME IInv, [Next]_vars PROVE Connection' /\ NoLeak'
  OBVIOUS
<1>a. TypeOK /\ Connection /\ NoLeak
  BY DEF IInv
<1>1. ASSUME NEW c \in Callers, BindSchema(c) PROVE Connection' /\ NoLeak'
  <2>1. CASE BindRefusal = "none"
    <3>1. /\ ~mu /\ ~closed /\ ~bound /\ mu' /\ pc[c] = "idle"
          /\ pc' = [pc EXCEPT ![c] = "newClient"]
          /\ UNCHANGED <<bound, closed, clients, streamOpen>>
      BY <1>1, <2>1 DEF BindSchema, BindRefusal, Goto, managedwriter
    <3>2. \A d \in Callers : ~Opening(d) /\ ~Closing(d)
      BY <1>a, <3>1 DEF Connection
    <3>3. clients = 0 /\ ~streamOpen
      BY <1>a, <3>1, <3>2 DEF NoLeak, Settled, Opening, Closing
    <3>4. Connection'
      BY <1>a, <3>1, <3>2, <3>3 DEF Connection, Opening, Closing, TypeOK
    <3>5. ~Settled'
      BY <1>a, <3>1 DEF Settled, TypeOK
    <3>. QED
      BY <3>4, <3>5 DEF NoLeak
  <2>2. CASE BindRefusal # "none"
    BY <1>1, <2>2, Bystander DEF BindSchema, Return, Opening, Closing, PCs, writer, managedwriter
  <2>. QED
    BY <2>1, <2>2
<1>2. ASSUME NEW c \in Callers, NEW rs \in SUBSET Rows, WriteRows(c, rs) PROVE Connection' /\ NoLeak'
  <2>1. \E s \in {"idle", "marshal"} : pc' = [pc EXCEPT ![c] = s]
    BY <1>2 DEF WriteRows, Return
  <2>. QED
    BY <1>2, <2>1, Bystander DEF WriteRows, Opening, Closing, PCs
<1>3. ASSUME NEW c \in Callers, CloseBegin(c) PROVE Connection' /\ NoLeak'
  <2>1. /\ ~mu /\ ~mu' /\ ~closed /\ closed' /\ pc[c] = "idle"
        /\ pc' = [pc EXCEPT ![c] = IF bound THEN "closeStream" ELSE "idle"]
        /\ UNCHANGED <<bound, clients, streamOpen>>
    BY <1>3, <1>a DEF CloseBegin, FirstClose, Goto, Return, managedwriter, TypeOK
  <2>2. \A d \in Callers : ~Opening(d) /\ ~Closing(d)
    BY <1>a, <2>1 DEF Connection
  <2>3. clients = (IF bound THEN 1 ELSE 0) /\ (streamOpen <=> bound)
    BY <1>a, <2>1, <2>2 DEF NoLeak, Settled, Opening, Closing
  <2>4. CASE bound
    <3>1. Connection'
      BY <1>a, <2>1, <2>2, <2>3, <2>4 DEF Connection, Opening, Closing, TypeOK
    <3>2. ~Settled'
      BY <1>a, <2>1, <2>4 DEF Settled, TypeOK
    <3>. QED
      BY <3>1, <3>2 DEF NoLeak
  <2>5. CASE ~bound
    <3>1. Connection'
      BY <1>a, <2>1, <2>2, <2>5 DEF Connection, Opening, Closing, TypeOK
    <3>. QED
      BY <2>1, <2>3, <2>5, <3>1 DEF NoLeak
  <2>. QED
    BY <2>4, <2>5
<1>4. ASSUME NEW c \in Callers, Opening(c), NEW s \in {"newStream", "dropClient"},
             pc' = [pc EXCEPT ![c] = s], clients' = 1,
             UNCHANGED <<mu, bound, closed, streamOpen>>
      PROVE  Connection' /\ NoLeak'
  <2>1. \A d \in Callers : d # c => ~Opening(d) /\ ~Closing(d)
    BY <1>a, <1>4 DEF Connection
  <2>2. Connection'
    BY <1>a, <1>4, <2>1 DEF Connection, Opening, Closing, TypeOK
  <2>3. ~Settled'
    BY <1>a, <1>4 DEF Settled, TypeOK
  <2>. QED
    BY <2>2, <2>3 DEF NoLeak
<1>5. ASSUME NEW c \in Callers, Opening(c) \/ Closing(c), pc' = [pc EXCEPT ![c] = "idle"], ~mu',
             closed' = closed, clients' = (IF bound' /\ ~closed' THEN 1 ELSE 0),
             streamOpen' <=> (bound' /\ ~closed')
      PROVE  Connection' /\ NoLeak'
  <2>1. \A d \in Callers : d # c => ~Opening(d) /\ ~Closing(d)
    BY <1>a, <1>5 DEF Connection
  <2>2. \A d \in Callers : ~Opening(d)' /\ ~Closing(d)'
    BY <1>a, <1>5, <2>1 DEF Opening, Closing, TypeOK
  <2>. QED
    BY <1>5, <2>2 DEF Connection, NoLeak
<1>6. ASSUME NEW c \in Callers, NewClient(c) \/ NewManagedStreamFails(c) PROVE Connection' /\ NoLeak'
  <2>1. Opening(c)
    BY <1>6 DEF NewClient, NewManagedStreamFails, Opening
  <2>2. clients' = 1
    BY <1>a, <1>6, <2>1 DEF NewClient, NewManagedStreamFails, Connection, managedwriter
  <2>. QED
    BY <1>4, <1>6, <2>1, <2>2 DEF NewClient, NewManagedStreamFails, Goto, writer, managedwriter
<1>7. ASSUME NEW c \in Callers, NewClientFails(c) \/ DropClient(c) \/ NewManagedStream(c)
      PROVE  Connection' /\ NoLeak'
  <2>1. Opening(c)
    BY <1>7 DEF NewClientFails, DropClient, NewManagedStream, Opening
  <2>2. /\ ~bound /\ ~closed /\ ~streamOpen
        /\ clients = IF pc[c] = "newClient" THEN 0 ELSE 1
    BY <1>a, <2>1 DEF Connection
  <2>. QED
    BY <1>5, <1>7, <2>1, <2>2
       DEF NewClientFails, DropClient, NewManagedStream, Released, Return, managedwriter
<1>8. ASSUME NEW c \in Callers, CloseStream(c) PROVE Connection' /\ NoLeak'
  <2>1. Closing(c)
    BY <1>8 DEF CloseStream, Closing
  <2>2. \A d \in Callers : d # c => ~Opening(d) /\ ~Closing(d)
    BY <1>a, <2>1 DEF Connection
  <2>3. ~mu
    BY <1>a, <2>1, <2>2 DEF Connection
  <2>4. Connection'
    BY <1>a, <1>8, <2>1, <2>2, <2>3 DEF CloseStream, StreamClose, Connection, Opening, Closing, TypeOK, writer
  <2>5. ~Settled'
    BY <1>a, <1>8 DEF CloseStream, Settled, TypeOK
  <2>. QED
    BY <2>4, <2>5 DEF NoLeak
<1>9. ASSUME NEW c \in Callers, CloseClient(c) PROVE Connection' /\ NoLeak'
  <2>1. Closing(c) /\ ~Opening(c)
    BY <1>9 DEF CloseClient, Closing, Opening
  <2>2. closed /\ clients = 1 /\ ~streamOpen
    BY <1>a, <1>9, <2>1 DEF CloseClient, Connection
  <2>3. ~mu
    BY <1>a, <2>1 DEF Connection
  <2>4. pc' = [pc EXCEPT ![c] = "idle"]
    BY <1>9 DEF CloseClient, Return
  <2>5. ~mu' /\ closed' = closed /\ clients' = 0 /\ ~streamOpen'
    BY <1>9, <2>2, <2>3 DEF CloseClient, Released, writer
  <2>. QED
    BY <1>5, <2>1, <2>2, <2>4, <2>5
<1>10. ASSUME NEW c \in Callers,
              \/ Marshal(c) \/ AppendRows(c) \/ AppendOnClosed(c) \/ AppendFails(c)
              \/ Wait(c) \/ WaitAbandoned(c)
       PROVE  Connection' /\ NoLeak'
  <2>1. \E s \in {"idle", "append", "wait"} : pc' = [pc EXCEPT ![c] = s]
    BY <1>10 DEF Marshal, AppendRows, AppendOnClosed, AppendFails, Wait, WaitAbandoned, Refuse, Return, Goto
  <2>2. pc[c] \in {"marshal", "append", "wait"} /\ UNCHANGED <<writer, managedwriter>>
    BY <1>10 DEF Marshal, AppendRows, AppendOnClosed, AppendFails, Wait, WaitAbandoned
  <2>. QED
    BY <2>1, <2>2, Bystander DEF Opening, Closing, PCs
<1>11. ASSUME UNCHANGED <<pc, writer, managedwriter>> PROVE Connection' /\ NoLeak'
  BY <1>a, <1>11 DEF Connection, NoLeak, Settled, Opening, Closing, writer, managedwriter
<1>12. ASSUME NEW b \in sent, Answer(b) \/ AnswerLost(b) PROVE Connection' /\ NoLeak'
  BY <1>11, <1>12 DEF Answer, AnswerLost
<1>13. CASE UNCHANGED vars
  BY <1>11, <1>13 DEF vars
<1>. QED
  BY <1>1, <1>2, <1>3, <1>6, <1>7, <1>8, <1>9, <1>10, <1>12, <1>13 DEF Next, Continue

\* The types, the state of the connection through every call that opens or closes
\* it, and with them NoLeak, are kept by every step.
THEOREM InductiveInvariant == Spec => []IInv
<1>1. IInv /\ [Next]_vars => IInv'
  BY NextType, NextConnection DEF IInv
<1>. QED
  BY <1>1, InitIInv, PTL DEF Spec

\* Every variable keeps its type: the clients opened and not closed are never
\* fewer than none, so no client is closed twice.
THEOREM TypeCorrect == Spec => []TypeOK
<1>1. IInv => TypeOK
  BY DEF IInv
<1>. QED
  BY <1>1, InductiveInvariant, PTL

\* Between calls one client and one stream are open if the writer is bound and not
\* closed, and none otherwise, whatever BindSchema failed halfway.
THEOREM ConnectionKept == Spec => []NoLeak
<1>1. IInv => NoLeak
  BY DEF IInv
<1>. QED
  BY <1>1, InductiveInvariant, PTL

\* After Close nothing is put on the wire, even by a WriteRows that found the
\* writer open before Close began.
THEOREM NothingSentAfterClose == Spec => QuietAfterClose
<1>1. ASSUME IInv, [Next]_vars, closed, Settled PROVE sent' \subseteq sent
  <2>1. ~streamOpen
    BY <1>1 DEF IInv, NoLeak
  <2>2. ASSUME NEW c \in Callers, BindSchema(c) \/ CloseBegin(c) \/ (\E rs \in SUBSET Rows : WriteRows(c, rs))
        PROVE  sent' = sent
    BY <2>2 DEF BindSchema, CloseBegin, WriteRows, appends
  <2>3. ASSUME NEW c \in Callers, Continue(c) PROVE sent' = sent
    BY <2>1, <2>3 DEF Continue, NewClient, NewClientFails, NewManagedStream, NewManagedStreamFails, DropClient,
       Marshal, AppendRows, AppendOnClosed, AppendFails, Wait, WaitAbandoned, CloseStream, CloseClient, appends
  <2>4. ASSUME NEW b \in sent, Answer(b) \/ AnswerLost(b) PROVE sent' \subseteq sent
    BY <2>4 DEF Answer, AnswerLost
  <2>5. CASE UNCHANGED vars
    BY <2>5 DEF vars, appends
  <2>. QED
    BY <1>1, <2>2, <2>3, <2>4, <2>5 DEF Next
<1>2. IInv /\ [Next]_vars => [closed /\ Settled => sent' \subseteq sent]_vars
  BY <1>1
<1>. QED
  BY <1>2, InductiveInvariant, PTL DEF Spec, QuietAfterClose

-----------------------------------------------------------------------------
(* What callers are told *)

Told == refused \cup denied \cup delivered

\* A row is in one call's batch at most, and nothing has been said of it while it
\* is; only rows handed over are sent; and an accepted append is in the table.
Ownership ==
    /\ \A c \in Callers : batch[c] \subseteq given \ Told
    /\ \A c, d \in Callers : c # d => batch[c] \cap batch[d] = {}
    /\ Told \subseteq given
    /\ \A b \in sent \cup landed : b \subseteq given
    /\ accepted \subseteq landed

\* A step that says nothing: c's batch is kept or dropped, perhaps put on the wire.
Silent(c) ==
    /\ batch' = batch \/ batch' = [batch EXCEPT ![c] = {}]
    /\ sent' \subseteq sent \cup {batch[c]}
    /\ UNCHANGED <<closed, accepted, landed, told>>

\* A step that returns what became of c's batch.
Says(c, counted, lost) ==
    /\ \/ counted = batch[c] /\ lost = {}
       \/ counted = {} /\ lost = batch[c]
    /\ counted # {} => batch[c] \in accepted
    /\ delivered' = delivered \cup counted
    /\ refused' \cup denied' = refused \cup denied \cup lost
    /\ batch' = [batch EXCEPT ![c] = {}]
    /\ sent' \subseteq sent \cup {batch[c]}
    /\ UNCHANGED <<closed, accepted, landed, given>>

Speaks(c) == \E counted, lost \in SUBSET Rows : Says(c, counted, lost)

LEMMA ContinueSilentOrSays ==
    ASSUME IInv, NEW c \in Callers, Continue(c)
    PROVE  Silent(c) \/ Speaks(c)
<1>0. batch[c] \in SUBSET Rows
  BY DEF IInv, TypeOK
<1>1. CASE NewClient(c) \/ NewClientFails(c) \/ NewManagedStream(c) \/ NewManagedStreamFails(c) \/ DropClient(c)
  BY <1>1 DEF Silent, NewClient, NewClientFails, NewManagedStream, NewManagedStreamFails, DropClient,
     Goto, Return, writer, appends
<1>2. CASE AppendRows(c) \/ WaitAbandoned(c) \/ CloseStream(c) \/ CloseClient(c)
  BY <1>2 DEF Silent, AppendRows, WaitAbandoned, CloseStream, CloseClient, Goto, Return, writer, appends
<1>3. CASE Marshal(c) /\ batch[c] \cap Unencodable = {}
  BY <1>3 DEF Silent, Marshal, Goto, writer, appends
<1>4. ASSUME NEW e, Refuse(c, e), sent' \subseteq sent \cup {batch[c]}, UNCHANGED <<closed, accepted, landed>>
      PROVE  Speaks(c)
  <2>1. Says(c, {}, batch[c])
    BY <1>4 DEF Says, Refuse, Return
  <2>. QED
    BY <1>0, <2>1 DEF Speaks
<1>5. CASE Marshal(c) /\ batch[c] \cap Unencodable # {}
  BY <1>4, <1>5 DEF Marshal, writer, appends
<1>6. CASE AppendOnClosed(c)
  BY <1>4, <1>6 DEF AppendOnClosed, writer, appends
<1>7. CASE AppendFails(c)
  BY <1>4, <1>7 DEF AppendFails, writer
<1>8. CASE Wait(c) /\ Acked(c)
  <2>1. Says(c, batch[c], {})
    BY <1>8 DEF Says, Wait, Acked, Return, writer, appends
  <2>. QED
    BY <1>0, <2>1 DEF Speaks
<1>9. CASE Wait(c) /\ ~Acked(c)
  <2>1. Says(c, {}, batch[c])
    BY <1>9 DEF Says, Wait, Return, writer, appends
  <2>. QED
    BY <1>0, <2>1 DEF Speaks
<1>. QED
  BY <1>1, <1>2, <1>3, <1>5, <1>6, <1>7, <1>8, <1>9 DEF Continue

LEMMA NextOwnership == IInv /\ Ownership /\ [Next]_vars => Ownership'
<1> SUFFICES ASSUME IInv, Ownership, [Next]_vars PROVE Ownership'
  OBVIOUS
<1>a. batch \in [Callers -> SUBSET Rows]
  BY DEF IInv, TypeOK
<1>1. ASSUME NEW c \in Callers, Silent(c) PROVE Ownership'
  <2>1. \A d \in Callers : batch'[d] \subseteq batch[d]
    BY <1>a, <1>1 DEF Silent
  <2>2. \A b \in sent' \cup landed' : b \subseteq given'
    BY <1>1 DEF Silent, Ownership, told
  <2>. QED
    BY <1>1, <2>1, <2>2 DEF Silent, Ownership, Told, told
<1>2. ASSUME NEW c \in Callers, NEW counted, NEW lost, Says(c, counted, lost) PROVE Ownership'
  <2>1. Told' = Told \cup batch[c] /\ given' = given
    BY <1>2 DEF Says, Told
  <2>2. \A d \in Callers : batch'[d] = IF d = c THEN {} ELSE batch[d]
    BY <1>a, <1>2 DEF Says
  <2>3. \A b \in sent' \cup landed' : b \subseteq given'
    BY <1>2 DEF Says, Ownership
  <2>. QED
    BY <1>2, <2>1, <2>2, <2>3 DEF Says, Ownership
<1>3. ASSUME NEW c \in Callers, BindSchema(c) \/ CloseBegin(c) PROVE Ownership'
  <2>1. batch' = batch \/ batch' = [batch EXCEPT ![c] = {}]
    BY <1>3 DEF BindSchema, CloseBegin, Goto, Return
  <2>2. \A d \in Callers : batch'[d] \subseteq batch[d]
    BY <1>a, <2>1
  <2>. QED
    BY <1>3, <2>2 DEF BindSchema, CloseBegin, Ownership, Told, told, appends
<1>4. ASSUME NEW c \in Callers, NEW rs \in SUBSET Rows, WriteRows(c, rs) PROVE Ownership'
  <2>1. /\ rs \cap given = {} /\ given' = given \cup rs
        /\ UNCHANGED <<sent, accepted, landed, delivered, denied>>
    BY <1>4 DEF WriteRows, appends
  <2>2. \/ refused' = refused /\ batch' = [batch EXCEPT ![c] = rs]
        \/ refused' = refused \cup rs /\ batch' = [batch EXCEPT ![c] = {}]
    BY <1>4 DEF WriteRows, Return
  <2>3. CASE refused' = refused /\ batch' = [batch EXCEPT ![c] = rs]
    <3>1. \A d \in Callers : batch'[d] = IF d = c THEN rs ELSE batch[d]
      BY <1>a, <2>3
    <3>. QED
      BY <2>1, <2>3, <3>1 DEF Ownership, Told
  <2>4. CASE refused' = refused \cup rs /\ batch' = [batch EXCEPT ![c] = {}]
    <3>1. \A d \in Callers : batch'[d] = IF d = c THEN {} ELSE batch[d]
      BY <1>a, <2>4
    <3>. QED
      BY <2>1, <2>4, <3>1 DEF Ownership, Told
  <2>. QED
    BY <2>2, <2>3, <2>4
<1>5. ASSUME NEW b \in sent, Answer(b) \/ AnswerLost(b) PROVE Ownership'
  BY <1>5 DEF Answer, AnswerLost, Ownership, Told, told
<1>6. CASE UNCHANGED vars
  BY <1>6 DEF vars, appends, told, Ownership, Told
<1>7. ASSUME NEW c \in Callers, Continue(c) PROVE Ownership'
  BY <1>1, <1>2, <1>7, ContinueSilentOrSays DEF Speaks
<1>. QED
  BY <1>3, <1>4, <1>5, <1>6, <1>7 DEF Next

\* Nothing has been said of a row while a call carries it, and one call does.
THEOREM OneOwner == Spec => []Ownership
<1>1. Init => Ownership
  BY DEF Init, Ownership, Told
<1>. QED
  BY <1>1, NextOwnership, InductiveInvariant, PTL DEF Spec

-----------------------------------------------------------------------------
(* Every step is a step of the contract, or changes nothing of it *)

LEMMA SaysContract ==
    ASSUME IInv, Ownership, NEW c \in Callers, NEW counted \in SUBSET Rows, NEW lost \in SUBSET Rows,
           Says(c, counted, lost)
    PROVE  Contract!Next
<1>1. counted \subseteq batch[c] /\ lost \subseteq batch[c] /\ counted \cap lost = {}
  BY DEF Says
<1>2. batch[c] \subseteq given \ Told
  BY DEF Ownership
<1>3. counted \subseteq UNION landed
  <2>1. CASE counted = {}
    BY <2>1
  <2>2. CASE counted # {}
    BY <1>1, <2>2 DEF Says, Ownership
  <2>. QED
    BY <2>1, <2>2
<1>4. UNION landed' = UNION landed
  BY DEF Says
<1>5. Contract!Tell(counted, lost)
  BY <1>1, <1>2, <1>3, <1>4 DEF Says, Told, Contract!Tell, Contract!Unsettled, Contract!Names
<1>. QED
  BY <1>1, <1>2, <1>3, <1>5 DEF Contract!Next

LEMMA WriteContract ==
    ASSUME Ownership, NEW c \in Callers, NEW rs \in SUBSET Rows, WriteRows(c, rs)
    PROVE  Contract!Next
<1>1. /\ rs \cap given = {} /\ given' = given \cup rs
      /\ UNCHANGED <<closed, landed, delivered, denied>>
  BY DEF WriteRows, writer, appends
<1>2. CASE WriteRefusal = "none"
  <2>1. ~closed /\ refused' = refused
    BY <1>2 DEF WriteRows, WriteRefusal
  <2>2. Contract!Take(rs)
    BY <1>1, <2>1 DEF Contract!Take
  <2>. QED
    BY <2>2 DEF Contract!Next
<1>3. CASE WriteRefusal # "none"
  <2>1. refused' = refused \cup rs
    BY <1>3 DEF WriteRows
  <2>2. \A r \in rs : r \notin refused \cup denied
    BY <1>1 DEF Ownership, Told
  <2>3. Contract!Refuse(rs)
    BY <1>1, <2>1, <2>2 DEF Contract!Refuse, Contract!Names
  <2>. QED
    BY <2>3 DEF Contract!Next
<1>. QED
  BY <1>2, <1>3

LEMMA StepContract ==
    ASSUME IInv, Ownership, [Next]_vars
    PROVE  [Contract!Next]_(Contract!vars)
<1>1. ASSUME UNCHANGED <<closed, landed, told>> PROVE UNCHANGED Contract!vars
  BY <1>1 DEF told, Contract!vars
<1>2. ASSUME NEW c \in Callers, BindSchema(c) PROVE UNCHANGED Contract!vars
  BY <1>1, <1>2 DEF BindSchema, appends
<1>3. ASSUME NEW c \in Callers, CloseBegin(c) PROVE Contract!Next
  BY <1>3 DEF CloseBegin, appends, told, Contract!Next, Contract!Close
<1>4. ASSUME NEW c \in Callers, Continue(c) PROVE Contract!Next \/ UNCHANGED Contract!vars
  BY <1>1, <1>4, ContinueSilentOrSays, SaysContract DEF Silent, Speaks
<1>5. ASSUME NEW b \in sent, landed' = landed \cup {b}, UNCHANGED <<closed, told>> PROVE Contract!Next
  <2>1. b \subseteq given
    BY DEF Ownership
  <2>2. UNION landed' = (UNION landed) \cup b
    BY <1>5
  <2>3. Contract!Land(b)
    BY <1>5, <2>1, <2>2 DEF told, Contract!Land
  <2>. QED
    BY <2>1, <2>3 DEF Contract!Next
<1>6. ASSUME NEW b \in sent, Answer(b) \/ AnswerLost(b) PROVE Contract!Next \/ UNCHANGED Contract!vars
  BY <1>1, <1>5, <1>6 DEF Answer, AnswerLost, writer
<1>7. CASE UNCHANGED vars
  BY <1>1, <1>7 DEF vars, writer, appends
<1>. QED
  BY <1>2, <1>3, <1>4, <1>6, <1>7, WriteContract DEF Next

\* The Storage Write API transport is a RowsWriter: a Wait counts rows that are in
\* the table, through lost answers and resending, and an error names a row once
\* and no counted one.
THEOREM StorageImplementsRowsWriter == Spec => ImplementsRowsWriter
<1>1. Init => Contract!Init
  BY DEF Init, Contract!Init
<1>2. IInv /\ Ownership /\ [Next]_vars => [Contract!Next]_(Contract!vars)
  BY StepContract
<1>. QED
  BY <1>1, <1>2, InductiveInvariant, OneOwner, PTL DEF Spec, ImplementsRowsWriter, Contract!Spec

\* So what RowsWriter gives its users holds of the Storage Write transport: a counted
\* row is in the table and named by no error, though managedwriter resends appends.
THEOREM StorageTruthful == Spec => []Contract!Truthful
BY StorageImplementsRowsWriter, Contract!ContractIsTruthful, PTL DEF ImplementsRowsWriter

\* And what a Wait or a WriteRows returned of a row is final: no later one counts or
\* names it again, whatever managedwriter resends.
THEOREM StorageVerdictsStand == Spec => Contract!VerdictsFinal
BY StorageImplementsRowsWriter, Contract!VerdictsStand, PTL DEF ImplementsRowsWriter
=============================================================================
