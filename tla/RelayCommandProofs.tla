------------------------- MODULE RelayCommandProofs -------------------------
(***************************************************************************)
(* Proofs about the Relay's journal, for any set of requests and IDs, any  *)
(* retention and any resend window shorter than it, and about the command  *)
(* a durable operation sends to it, for any MAX_WITHDRAWN.  What is proved *)
(* of the journal doesn't rest on CommandConstants.                        *)
(*                                                                         *)
(* NeverTwice is not inductive: that no second request of an ID gets past  *)
(* the journal rests on who owns a claim (Owned), on the row outliving     *)
(* every send that may still reach it (Addressed, Timely), and on the row  *)
(* being there from before the change runs (Recorded).  LookupTruth adds   *)
(* that each place an outcome is kept tells the truth (Told), and          *)
(* AnswersTruth, whose answers outlive the row they were read from, that   *)
(* what is said stays true: nothing of the ID is made any more (Shut).     *)
(* ReportsTrue and CommandContract rest on that: the step gives up an ID   *)
(* only once it is shut (Tried), and believes only what stays so           *)
(* (Reported).                                                             *)
(***************************************************************************)
EXTENDS RelayCommand, TLAPS

\* An ID is claimed by exactly the request that is being made under it.
Owned ==
    /\ \A r \in Reqs : stage[r] \in ClaimStages <=> claim[IdOf[r]] = r
    /\ \A i \in Ids : claim[i] # NoReq => IdOf[claim[i]] = i

\* A request the Relay took was sent to the journal it keeps.
Addressed ==
    /\ \A r \in Reqs : stage[r] \notin {"new", "done"} =>
           firstSent[IdOf[r]] # -1
    /\ \A r \in Reqs : stage[r] \notin {"new", "sent", "done"} =>
           sentTo[IdOf[r]] = journal
    /\ \A i \in Ids : sentTo[i] <= journal
    /\ \A i \in Ids : firstSent[i] <= day
    /\ \A i \in Ids : firstSent[i] = -1 => ran[i] = 0 /\ row[i].status = "none"

\* A request on its way to the journal reaches it while its row is kept.
Timely ==
    \A r \in Reqs : stage[r] \in TakingStages =>
        /\ day - sentOn[r] <= Retention - Resend
        /\ sentOn[r] - firstSent[IdOf[r]] <= Resend

\* A change that ran has its row, until nothing of its ID can be sent.
Recorded ==
    /\ \A i \in Ids : ran[i] # 0 =>
           \/ row[i].status # "none"
           \/ sentTo[i] # journal
           \/ day - firstSent[i] > Retention
    /\ \A i \in Ids : row[i].status # "none" => firstSent[i] <= row[i].day
    /\ \A i \in Ids : writes[i] # "none" => row[i].status = "running"
    /\ \A r \in Reqs : stage[r] = "starting" => row[IdOf[r]].status = "none"
    /\ \A r \in Reqs : stage[r] \in {"queued", "running"} =>
           /\ row[IdOf[r]].status = "running"
           /\ row[IdOf[r]].digest = DigestOf[r]
           /\ writes[IdOf[r]] = "none"

\* Nothing ran while its request is still to start, and nothing runs twice.
Once ==
    /\ NeverTwice
    /\ \A r \in Reqs : stage[r] \in {"starting", "queued"} => ran[IdOf[r]] = 0

\* An outcome under an ID is true of the change that was made under it.
Honest(i, outcome) ==
    /\ outcome \in {"reply", "noReply"} => ended[i] = "succeeded"
    /\ outcome \in {"withdrawn", "paused", "busy", "refused"} => ran[i] = 0

Told ==
    \A i \in Ids :
        /\ claim[i] # NoReq => recent[i].outcome = "none"
        /\ Honest(i, recent[i].outcome)
        /\ Honest(i, writes[i])
        /\ Honest(i, row[i].status)

Core == Owned /\ Addressed /\ Timely /\ Recorded /\ Once /\ Told

JournalInv == TypeOK /\ Core

-----------------------------------------------------------------------------
\* The invariant holds as the Relay first starts.
LEMMA InitEstablishesInv == Init => JournalInv
  <1> SUFFICES ASSUME Init PROVE JournalInv
    OBVIOUS
  <1> USE JournalConstants DEF Init
  <1>1. TypeOK
    <2>1. NoMemory \in Memories /\ NoRow \in Rows
      BY DEF NoMemory, NoRow, Memories, Rows
    <2>2. recent \in [Ids -> Memories] /\ row \in [Ids -> Rows]
      BY <2>1
    <2>3. claim \in [Ids -> Reqs \cup {NoReq}]
          /\ ranBy \in [Ids -> Reqs \cup {NoReq}]
      OBVIOUS
    <2>4. stage \in [Reqs -> Stages] /\ paused \in BOOLEAN
          /\ ahead \in [Reqs -> SUBSET Reqs]
      BY DEF Stages
    <2>5. firstSent \in [Ids -> -1..MaxDay] /\ sentTo \in [Ids -> 0..MaxJournal]
          /\ sentOn \in [Reqs -> 0..MaxDay] /\ ran \in [Ids -> Nat]
          /\ journal \in 0..MaxJournal /\ day \in 0..MaxDay
      OBVIOUS
    <2>6. /\ caller \in [Reqs -> {"there", "aborted", "gone"}]
          /\ answer \in [Reqs -> Outcomes \cup Refusals \cup {"none"}]
          /\ ticket \in [Reqs -> {"none", "free", "held", "withdrawn",
                                  "paused", "busy"}]
          /\ writes \in [Ids -> Outcomes \cup {"none"}]
          /\ ended \in [Ids -> {"none", "succeeded", "failed"}]
      OBVIOUS
    <2> HIDE DEF Init
    <2>7. QED
      BY <2>2, <2>3, <2>4, <2>5, <2>6 DEF TypeOK
  <1>2. Owned
    BY DEF Owned, ClaimStages
  <1>3. Addressed /\ Timely
    BY DEF Addressed, Timely, TakingStages, NoRow
  <1>4. Recorded /\ Once
    BY DEF Recorded, Once, NeverTwice, NoRow
  <1>5. Told
    BY DEF Told, Honest, NoRow, NoMemory
  <1>6. QED
    BY <1>1, <1>2, <1>3, <1>4, <1>5 DEF JournalInv, Core

-----------------------------------------------------------------------------
(***************************************************************************)
(* Type correctness, one group of actions at a time.                       *)
(***************************************************************************)

\* Requests that end with well-typed answers leave well-typed state.
LEMMA EndTyped ==
    ASSUME TypeOK, NEW f, DOMAIN f \subseteq Reqs, End(f),
           \A r \in DOMAIN f : f[r] \in Outcomes \cup Refusals
    PROVE  /\ stage' \in [Reqs -> Stages]
           /\ caller' = caller
           /\ answer' \in [Reqs -> Outcomes \cup Refusals \cup {"none"}]
           /\ sentOn' = sentOn
           /\ ticket' \in [Reqs -> {"none", "free", "held", "withdrawn",
                                    "paused", "busy"}]
           /\ ahead' \in [Reqs -> SUBSET Reqs]
           /\ paused' = paused
  BY DEF TypeOK, End, LeaveLine, Stages

\* So does settling a claim, with the repeats that waited on it.
LEMMA SettleTyped ==
    ASSUME TypeOK, NEW r \in Reqs, NEW outcome \in Outcomes,
           NEW madeWith \in Digests \cup {"none"}, NEW remembered \in Outcomes,
           NEW own \in Outcomes \cup Refusals,
           Settle(r, outcome, madeWith, remembered, own)
    PROVE  /\ claim' \in [Ids -> Reqs \cup {NoReq}]
           /\ recent' \in [Ids -> Memories]
           /\ stage' \in [Reqs -> Stages]
           /\ caller' = caller
           /\ answer' \in [Reqs -> Outcomes \cup Refusals \cup {"none"}]
           /\ sentOn' = sentOn
           /\ ticket' \in [Reqs -> {"none", "free", "held", "withdrawn",
                                    "paused", "busy"}]
           /\ ahead' \in [Reqs -> SUBSET Reqs]
           /\ paused' = paused
  <1> DEFINE settled == [outcome |-> outcome, digest |-> madeWith]
             f == [w \in Waiters(IdOf[r]) \cup {r} |->
                      IF w = r THEN own ELSE Repeat(w, settled)]
  <1>1. IdOf[r] \in Ids
    BY JournalConstants
  <1>2. claim' \in [Ids -> Reqs \cup {NoReq}]
    BY <1>1 DEF Settle, TypeOK
  <1>3. recent' \in [Ids -> Memories]
    <2>1. [settled EXCEPT !.outcome = remembered] \in Memories
      BY DEF Memories
    <2>2. recent' = [recent EXCEPT ![IdOf[r]] =
                        [settled EXCEPT !.outcome = remembered]]
      BY DEF Settle
    <2>3. recent \in [Ids -> Memories]
      BY DEF TypeOK
    <2> HIDE DEF settled
    <2>4. QED
      BY <2>1, <2>2, <2>3
  <1>4. End(f)
    BY DEF Settle
  <1>5. DOMAIN f \subseteq Reqs
    BY DEF Waiters
  <1>6. \A w \in DOMAIN f : f[w] \in Outcomes \cup Refusals
    BY DEF Repeat, Refusals
  <1> HIDE DEF f
  <1>7. QED
    BY <1>2, <1>3, <1>4, <1>5, <1>6, EndTyped

\* And ending a single request.
LEMMA EndOneTyped ==
    ASSUME TypeOK, NEW r \in Reqs, NEW a \in Outcomes \cup Refusals,
           EndOne(r, a)
    PROVE  /\ stage' \in [Reqs -> Stages]
           /\ caller' = caller
           /\ answer' \in [Reqs -> Outcomes \cup Refusals \cup {"none"}]
           /\ sentOn' = sentOn
           /\ ticket' \in [Reqs -> {"none", "free", "held", "withdrawn",
                                    "paused", "busy"}]
           /\ ahead' \in [Reqs -> SUBSET Reqs]
           /\ paused' = paused
  <1> DEFINE f == [x \in {r} |-> a]
  <1>1. End(f) /\ DOMAIN f \subseteq Reqs
        /\ \A x \in DOMAIN f : f[x] \in Outcomes \cup Refusals
    BY DEF EndOne
  <1> HIDE DEF f
  <1>2. QED
    BY <1>1, EndTyped

\* The parts of TypeOK, for the actions that leave most of it alone.
RequestsTyped ==
    /\ stage \in [Reqs -> Stages]
    /\ caller \in [Reqs -> {"there", "aborted", "gone"}]
    /\ answer \in [Reqs -> Outcomes \cup Refusals \cup {"none"}]
    /\ sentOn \in [Reqs -> 0..MaxDay]

LanesTyped ==
    /\ ticket \in [Reqs -> {"none", "free", "held", "withdrawn", "paused",
                            "busy"}]
    /\ ahead \in [Reqs -> SUBSET Reqs]
    /\ paused \in BOOLEAN

MemoryTyped ==
    /\ claim \in [Ids -> Reqs \cup {NoReq}]
    /\ recent \in [Ids -> Memories]
    /\ writes \in [Ids -> Outcomes \cup {"none"}]

RestTyped ==
    /\ row \in [Ids -> Rows]
    /\ journal \in 0..MaxJournal
    /\ day \in 0..MaxDay
    /\ firstSent \in [Ids -> -1..MaxDay]
    /\ sentTo \in [Ids -> 0..MaxJournal]
    /\ ran \in [Ids -> Nat]
    /\ ranBy \in [Ids -> Reqs \cup {NoReq}]
    /\ ended \in [Ids -> {"none", "succeeded", "failed"}]

\* The type invariant, by the groups of variables actions leave alone.
LEMMA TypeParts ==
    /\ TypeOK <=> RequestsTyped /\ LanesTyped /\ MemoryTyped /\ RestTyped
    /\ TypeOK' <=> RequestsTyped' /\ LanesTyped' /\ MemoryTyped' /\ RestTyped'
  BY DEF TypeOK, RequestsTyped, LanesTyped, MemoryTyped, RestTyped

\* A group that is left alone stays well typed.
LEMMA TypeFrames ==
    ASSUME TypeOK
    PROVE  /\ UNCHANGED requests => RequestsTyped'
           /\ UNCHANGED lanes => LanesTyped'
           /\ UNCHANGED memory => MemoryTyped'
           /\ UNCHANGED <<disk, hearth, history, day>> => RestTyped'
  BY TypeParts DEF RequestsTyped, LanesTyped, MemoryTyped, RestTyped, requests,
         lanes, memory, disk, hearth, history

\* Ending one request leaves memory alone or in the hands of the caller.
LEMMA EndOneParts ==
    ASSUME TypeOK, NEW r \in Reqs, NEW a \in Outcomes \cup Refusals,
           EndOne(r, a)
    PROVE  RequestsTyped' /\ LanesTyped'
  BY EndOneTyped DEF TypeOK, RequestsTyped, LanesTyped

\* Settling a claim, by the same groups.
LEMMA SettleParts ==
    ASSUME TypeOK, NEW r \in Reqs, NEW outcome \in Outcomes,
           NEW madeWith \in Digests \cup {"none"}, NEW remembered \in Outcomes,
           NEW own \in Outcomes \cup Refusals,
           Settle(r, outcome, madeWith, remembered, own),
           writes' \in [Ids -> Outcomes \cup {"none"}]
    PROVE  RequestsTyped' /\ LanesTyped' /\ MemoryTyped'
  BY SettleTyped DEF TypeOK, RequestsTyped, LanesTyped, MemoryTyped


\* Every step keeps the types.
LEMMA StepTyped ==
    ASSUME TypeOK, Next
    PROVE  TypeOK'
  <1> USE JournalConstants
  <1>0. \A r \in Reqs : IdOf[r] \in Ids /\ DigestOf[r] \in Digests
    OBVIOUS
  <1>1. ASSUME NEW r \in Reqs, Send(r) PROVE TypeOK'
    <2>1. LanesTyped' /\ MemoryTyped' /\ RestTyped'
      BY <1>1, TypeFrames DEF Send
    <2>2. RequestsTyped'
      BY <1>1 DEF Send, TypeOK, RequestsTyped, Stages, TakingStages
    <2>3. QED
      BY <2>1, <2>2, TypeParts
  <1>s. ASSUME NEW i \in Ids, Store(i) PROVE TypeOK'
    <2>1. RequestsTyped' /\ LanesTyped' /\ MemoryTyped'
      BY <1>s, TypeFrames DEF Store
    <2>2. RestTyped'
      BY <1>s DEF Store, TypeOK, RestTyped, disk, history
    <2>3. QED
      BY <2>1, <2>2, TypeParts
  <1>2. ASSUME NEW r \in Reqs, TurnAtDoor(r) \/ JournalGone(r) PROVE TypeOK'
    <2>1. MemoryTyped' /\ RestTyped'
      BY <1>2, TypeFrames DEF TurnAtDoor, JournalGone
    <2>2. RequestsTyped' /\ LanesTyped'
      BY <1>2, EndOneParts DEF TurnAtDoor, JournalGone, Refusals
    <2>3. QED
      BY <2>1, <2>2, TypeParts
  <1>3. ASSUME NEW r \in Reqs, Arrive(r) PROVE TypeOK'
    <2>1. MemoryTyped' /\ RestTyped'
      BY <1>3, TypeFrames DEF Arrive
    <2>2. RequestsTyped'
      BY <1>3 DEF Arrive, TypeOK, RequestsTyped, Stages, TakingStages
    <2>3. LanesTyped'
      BY <1>3 DEF Arrive, TypeOK, LanesTyped, InLine
    <2>4. QED
      BY <2>1, <2>2, <2>3, TypeParts
  <1>4. ASSUME NEW r \in Reqs, Enter(r) PROVE TypeOK'
    <2>1. RestTyped'
      BY <1>4, TypeFrames DEF Enter
    <2>2. CASE /\ UNCHANGED memory
               /\ \E a \in Outcomes \cup Refusals : EndOne(r, a)
      BY <2>1, <2>2, EndOneParts, TypeFrames, TypeParts
    <2>3. CASE Claim(r)
      <3>1. LanesTyped'
        BY <2>3, TypeFrames DEF Claim
      <3>2. RequestsTyped' /\ MemoryTyped'
        BY <1>0, <2>3 DEF Claim, TypeOK, RequestsTyped, MemoryTyped, Stages,
                        ClaimStages
      <3>3. QED
        BY <2>1, <3>1, <3>2, TypeParts
    <2>4. CASE JoinLive(r) /\ ~\E a \in Outcomes \cup Refusals : EndOne(r, a)
      <3>1. /\ stage' = [stage EXCEPT ![r] = "waiting"]
            /\ ticket' = [ticket EXCEPT ![r] = "none"]
            /\ LeaveLine({r})
            /\ UNCHANGED <<caller, answer, sentOn, paused, memory>>
        BY <2>4 DEF JoinLive, Refusals
      <3>2. MemoryTyped'
        BY <3>1, TypeFrames
      <3>3. RequestsTyped' /\ LanesTyped'
        BY <3>1 DEF TypeOK, RequestsTyped, LanesTyped, LeaveLine, Stages
      <3>4. QED
        BY <2>1, <3>2, <3>3, TypeParts
    <2>5. recent[IdOf[r]].outcome # "none" =>
             Repeat(r, recent[IdOf[r]]) \in Outcomes \cup Refusals
      BY <1>0 DEF Repeat, TypeOK, Memories, Refusals
    <2>6. JoinLive(r) /\ (\E a \in Outcomes \cup Refusals : EndOne(r, a))
             => UNCHANGED memory
      BY DEF JoinLive
    <2>7. QED
      BY <1>4, <2>2, <2>3, <2>4, <2>5, <2>6 DEF Enter, Refusals
  <1>5. ASSUME NEW r \in Reqs, ReadJournal(r) PROVE TypeOK'
    <2> DEFINE i == IdOf[r]
               o == RecordedOutcome(row[i].status)
               d == row[i].digest
    <2>1. RestTyped'
      BY <1>5, TypeFrames DEF ReadJournal
    <2>2. CASE row[i].status # "none"
      <3>1. o \in Outcomes /\ d \in Digests \cup {"none"}
        BY <1>0, <2>2 DEF RecordedOutcome, TypeOK, Rows, Outcomes
      <3>2. Repeat(r, [outcome |-> o, digest |-> d]) \in Outcomes \cup Refusals
        BY <3>1 DEF Repeat, Refusals
      <3>3. /\ Settle(r, o, d, o, Repeat(r, [outcome |-> o, digest |-> d]))
            /\ writes' = writes
        BY <1>5, <2>2 DEF ReadJournal
      <3> HIDE DEF o, d
      <3>4. RequestsTyped' /\ LanesTyped' /\ MemoryTyped'
        BY <3>1, <3>2, <3>3, SettleParts DEF TypeOK
      <3>5. QED
        BY <2>1, <3>4, TypeParts
    <2>3. CASE row[i].status = "none"
      <3>1. /\ stage' = [stage EXCEPT ![r] = "starting"]
            /\ UNCHANGED <<caller, answer, sentOn, lanes, memory>>
        BY <1>5, <2>3 DEF ReadJournal
      <3>2. RequestsTyped'
        BY <3>1 DEF TypeOK, RequestsTyped, Stages, TakingStages
      <3>3. QED
        BY <2>1, <3>1, <3>2, TypeFrames, TypeParts
    <2>4. QED
      BY <2>2, <2>3
  <1>6. ASSUME NEW r \in Reqs, JournalFails(r) PROVE TypeOK'
    <2>1. RestTyped' /\ writes' = writes
      BY <1>6, TypeFrames DEF JournalFails
    <2>2. FailureAnswer(r, "failed") \in Outcomes \cup Refusals
          /\ "failed" \in Outcomes
      BY DEF FailureAnswer, Outcomes, Failures, Refusals
    <2>3. Settle(r, "failed", DigestOf[r], "failed", FailureAnswer(r, "failed"))
      BY <1>6 DEF JournalFails
    <2>4. RequestsTyped' /\ LanesTyped' /\ MemoryTyped'
      BY <1>0, <2>1, <2>2, <2>3, SettleParts DEF TypeOK
    <2>5. QED
      BY <2>1, <2>4, TypeParts
  <1>7. ASSUME NEW r \in Reqs, StartRow(r) PROVE TypeOK'
    <2>1. LanesTyped' /\ MemoryTyped'
      BY <1>7, TypeFrames DEF StartRow
    <2>2. RequestsTyped'
      BY <1>7 DEF StartRow, TypeOK, RequestsTyped, Stages, ClaimStages
    <2>3. [status |-> "running", digest |-> DigestOf[r], day |-> day] \in Rows
      BY <1>0 DEF Rows, TypeOK
    <2>4. row' \in [Ids -> Rows]
      BY <1>0, <1>7, <2>3 DEF StartRow, TypeOK
    <2>5. RestTyped'
      BY <1>7, <2>4 DEF StartRow, TypeOK, RestTyped, hearth, history
    <2>6. QED
      BY <2>1, <2>2, <2>5, TypeParts
  <1>8. ASSUME NEW r \in Reqs, TurnComes(r) PROVE TypeOK'
    <2>1. LanesTyped' /\ MemoryTyped'
      BY <1>8, TypeFrames DEF TurnComes
    <2>2. RequestsTyped'
      BY <1>8 DEF TurnComes, TypeOK, RequestsTyped, Stages, ClaimStages
    <2>3. RestTyped'
      BY <1>0, <1>8 DEF TurnComes, TypeOK, RestTyped, disk, hearth
    <2>4. QED
      BY <2>1, <2>2, <2>3, TypeParts
  <1>9. ASSUME NEW r \in Reqs, NEW outcome \in Outcomes,
               NEW remembered \in Outcomes, NEW own \in Outcomes \cup Refusals,
               Conclude(r, outcome, remembered, own)
        PROVE  RequestsTyped' /\ LanesTyped' /\ MemoryTyped'
    <2>1. writes' \in [Ids -> Outcomes \cup {"none"}]
      BY <1>0, <1>9 DEF Conclude, TypeOK
    <2>2. QED
      BY <1>0, <1>9, <2>1, SettleParts DEF Conclude
  <1>10. ASSUME NEW r \in Reqs, TurnedAway(r) PROVE TypeOK'
    <2>1. RestTyped'
      BY <1>10, TypeFrames DEF TurnedAway
    <2>2. PICK why \in {"withdrawn", "paused", "busy", "refused"} :
             Conclude(r, why, why, FailureAnswer(r, why))
      BY <1>10 DEF TurnedAway
    <2>3. why \in Outcomes /\ FailureAnswer(r, why) \in Outcomes \cup Refusals
      BY DEF FailureAnswer, Outcomes, Failures, Refusals
    <2>4. QED
      BY <1>9, <2>1, <2>2, <2>3, TypeParts
  <1>11. ASSUME NEW r \in Reqs, Finish(r) PROVE TypeOK'
    <2>1. RestTyped'
      BY <1>0, <1>11 DEF Finish, TypeOK, RestTyped, disk, hearth
    <2>2. /\ {"reply", "noReply", "failed"} \subseteq Outcomes
          /\ FailureAnswer(r, "failed") \in Outcomes \cup Refusals
      BY DEF FailureAnswer, Outcomes, Failures, Refusals
    <2>3. \E o, m \in Outcomes, own \in Outcomes \cup Refusals :
             Conclude(r, o, m, own)
      BY <1>11, <2>2 DEF Finish
    <2>4. QED
      BY <1>9, <2>1, <2>3, TypeParts
  <1>12. ASSUME NEW i \in Ids, Write(i) \/ GiveUpWrite(i) \/ Lapse(i)
         PROVE  TypeOK'
    <2>1. RequestsTyped' /\ LanesTyped'
      BY <1>12, TypeFrames DEF Write, GiveUpWrite, Lapse
    <2>2. MemoryTyped'
      <3>1. NoMemory \in Memories
        BY DEF NoMemory, Memories
      <3>2. QED
        BY <1>12, <3>1 DEF Write, GiveUpWrite, Lapse, TypeOK, MemoryTyped
    <2>3. row' \in [Ids -> Rows]
      <3>1. CASE Write(i)
        <4>1. writes[i] \in Outcomes /\ row[i] \in Rows
          BY <3>1 DEF Write, TypeOK
        <4> DEFINE new == [row[i] EXCEPT !.status =
                              IF writes[i] = "reply" THEN "noReply"
                              ELSE writes[i]]
        <4>2. new \in Rows
          BY <4>1 DEF Rows, Outcomes
        <4>3. row' = row \/ row' = [row EXCEPT ![i] = new]
          BY <3>1 DEF Write, TypeOK
        <4> HIDE DEF new
        <4>4. QED
          BY <4>2, <4>3 DEF TypeOK
      <3>2. QED
        BY <1>12, <3>1 DEF GiveUpWrite, Lapse, disk, TypeOK
    <2>4. RestTyped'
      BY <1>12, <2>3 DEF Write, GiveUpWrite, Lapse, TypeOK, RestTyped, disk,
                         hearth, history
    <2>5. QED
      BY <2>1, <2>2, <2>4, TypeParts
  <1>13. CASE Tick
    <2>1. RequestsTyped' /\ LanesTyped' /\ MemoryTyped'
      BY <1>13, TypeFrames DEF Tick
    <2>2. RestTyped'
      BY <1>13 DEF Tick, TypeOK, RestTyped, disk, hearth, history
    <2>3. QED
      BY <2>1, <2>2, TypeParts
  <1>14. ASSUME NEW r \in Reqs, Abort(r) \/ Drop(r) PROVE TypeOK'
    <2>1. MemoryTyped' /\ RestTyped'
      BY <1>14, TypeFrames DEF Abort, Drop
    <2>2. RequestsTyped'
      <3>1. stage' = stage \/ stage' = [stage EXCEPT ![r] = "done"]
        BY <1>14 DEF Abort, Drop
      <3>2. stage' \in [Reqs -> Stages]
        BY <3>1 DEF TypeOK, Stages
      <3>3. QED
        BY <1>14, <3>2 DEF Abort, Drop, TypeOK, RequestsTyped
    <2>3. LanesTyped'
      <3>1. /\ ticket' \in [Reqs -> {"none", "free", "held", "withdrawn",
                                     "paused", "busy"}]
            /\ ahead' \in [Reqs -> SUBSET Reqs]
        BY <1>14 DEF Abort, Drop, TypeOK, LeaveLine
      <3>2. paused' = paused /\ paused \in BOOLEAN
        BY <1>14 DEF Abort, Drop, TypeOK
      <3>3. QED
        BY <3>1, <3>2 DEF LanesTyped
    <2>4. QED
      BY <2>1, <2>2, <2>3, TypeParts
  <1>15. CASE Pause \/ Resume
    <2>1. RequestsTyped' /\ MemoryTyped' /\ RestTyped'
      BY <1>15, TypeFrames DEF Pause, Resume
    <2>2. ticket' \in [Reqs -> {"none", "free", "held", "withdrawn", "paused",
                                "busy"}]
          /\ ahead' \in [Reqs -> SUBSET Reqs]
      BY <1>15 DEF Pause, Resume, TypeOK, LeaveLine
    <2>3. paused' \in BOOLEAN
      BY <1>15 DEF Pause, Resume
    <2>4. QED
      BY <2>1, <2>2, <2>3, TypeParts DEF LanesTyped
  <1>16. ASSUME NEW rows \in [Ids -> Rows]
         PROVE  /\ Pruned(rows) \in [Ids -> Rows]
                /\ Interrupted(rows) \in [Ids -> Rows]
                /\ [i \in Ids |-> NoRow] \in [Ids -> Rows]
    <2>1. NoRow \in Rows
      BY DEF NoRow, Rows
    <2>2. ASSUME NEW i \in Ids
          PROVE  [rows[i] EXCEPT !.status = "interrupted"] \in Rows
      BY DEF Rows, Outcomes
    <2>3. QED
      BY <2>1, <2>2 DEF Pruned, Interrupted
  <1>17. CASE Prune
    <2>1. RequestsTyped' /\ LanesTyped' /\ MemoryTyped'
      BY <1>17, TypeFrames DEF Prune
    <2>2. RestTyped'
      BY <1>16, <1>17 DEF Prune, TypeOK, RestTyped, hearth, history
    <2>3. QED
      BY <2>1, <2>2, TypeParts
  <1>18. CASE Restart \/ Rebuild
    <2>1. Stop
      BY <1>18 DEF Restart, Rebuild
    <2>2. RequestsTyped' /\ LanesTyped'
      BY <2>1 DEF Stop, TypeOK, RequestsTyped, LanesTyped, Stages
    <2>3. MemoryTyped'
      <3>1. NoMemory \in Memories
        BY DEF NoMemory, Memories
      <3>2. QED
        BY <2>1, <3>1 DEF Stop, MemoryTyped
    <2>4. row' \in [Ids -> Rows] /\ journal' \in 0..MaxJournal
      BY <1>16, <1>18 DEF Restart, Rebuild, TypeOK
    <2>5. RestTyped'
      BY <2>1, <2>4 DEF Stop, TypeOK, RestTyped, hearth, history
    <2>6. QED
      BY <2>2, <2>3, <2>5, TypeParts
  <1>19. QED
    BY <1>1, <1>s, <1>2, <1>3, <1>4, <1>5, <1>6, <1>7, <1>8, <1>10, <1>11, <1>12,
       <1>13, <1>14, <1>15, <1>17, <1>18 DEF Next, HearthSteps, RelaySteps

-----------------------------------------------------------------------------
(***************************************************************************)
(* What each kind of step keeps of the invariant.                          *)
(***************************************************************************)

\* The types the lemmas about the core rest on.
LEMMA CoreTypes ==
    JournalInv =>
        /\ \A r \in Reqs :
              /\ stage[r] \in Stages /\ sentOn[r] \in Int
              /\ IdOf[r] \in Ids /\ DigestOf[r] \in Digests /\ r # NoReq
        /\ \A i \in Ids :
              /\ claim[i] \in Reqs \cup {NoReq}
              /\ row[i].day \in Int /\ firstSent[i] \in Int
              /\ sentTo[i] \in Int /\ ran[i] \in Nat
        /\ stage \in [Reqs -> Stages] /\ sentOn \in [Reqs -> 0..MaxDay]
        /\ claim \in [Ids -> Reqs \cup {NoReq}]
        /\ recent \in [Ids -> Memories]
        /\ writes \in [Ids -> Outcomes \cup {"none"}]
        /\ row \in [Ids -> Rows]
        /\ firstSent \in [Ids -> -1..MaxDay] /\ sentTo \in [Ids -> 0..MaxJournal]
        /\ ran \in [Ids -> Nat]
        /\ ended \in [Ids -> {"none", "succeeded", "failed"}]
        /\ day \in Nat /\ journal \in Nat /\ Retention \in Nat /\ Resend \in Nat
  BY JournalConstants DEF JournalInv, TypeOK, Rows

\* Only one request of an ID is being made.
LEMMA OneClaim ==
    ASSUME JournalInv, NEW r \in Reqs, stage[r] \in ClaimStages
    PROVE  /\ claim[IdOf[r]] = r
           /\ \A w \in Reqs : IdOf[w] = IdOf[r] /\ stage[w] \in ClaimStages
                                  => w = r
  BY DEF JournalInv, Core, Owned

\* Requests that claimed nothing end.
LEMMA RetireKeeps ==
    ASSUME JournalInv,
           NEW S \in SUBSET Reqs,
           \A w \in S : stage[w] \notin ClaimStages,
           stage' = [w \in Reqs |-> IF w \in S THEN "done" ELSE stage[w]],
           UNCHANGED <<sentOn, claim, recent, writes, row, journal, day,
                       firstSent, sentTo, ran, ended>>
    PROVE  Core'
  <1> USE JournalConstants, CoreTypes DEF JournalInv, Core
  <1>1. Owned'
    BY DEF Owned, ClaimStages
  <1>2. Addressed'
    BY DEF Addressed
  <1>3. Timely'
    BY DEF Timely, TakingStages
  <1>4. Recorded'
    BY DEF Recorded
  <1>5. Once'
    BY DEF Once, NeverTwice
  <1>6. Told'
    BY DEF Told, Honest
  <1>7. QED
    BY <1>1, <1>2, <1>3, <1>4, <1>5, <1>6

\* A claim is settled, the outcome remembered and perhaps on its way to the
\* journal.
LEMMA SettleKeeps ==
    ASSUME JournalInv, NEW r \in Reqs,
           stage[r] \in ClaimStages,
           NEW S \in SUBSET Reqs,
           r \in S,
           \A w \in S : w = r \/ stage[w] = "waiting",
           stage' = [w \in Reqs |-> IF w \in S THEN "done" ELSE stage[w]],
           claim' = [claim EXCEPT ![IdOf[r]] = NoReq],
           NEW m \in Memories,
           recent' = [recent EXCEPT ![IdOf[r]] = m],
           \/ writes' = writes /\ ended' = ended
           \/ /\ row[IdOf[r]].status = "running"
              /\ \E o \in Outcomes : /\ writes' = [writes EXCEPT ![IdOf[r]] = o]
                                    /\ Honest(IdOf[r], o)'
              /\ \E e \in {"none", "succeeded", "failed"} :
                    ended' = [ended EXCEPT ![IdOf[r]] = e],
           Honest(IdOf[r], m.outcome)',
           UNCHANGED <<sentOn, row, journal, day, firstSent, sentTo, ran>>
    PROVE  Core'
  <1> USE JournalConstants, CoreTypes DEF JournalInv, Core
  <1>1. Owned'
    BY DEF Owned, ClaimStages
  <1>2. Addressed'
    BY DEF Addressed
  <1>3. Timely'
    BY DEF Timely, TakingStages
  <1>4. Recorded'
    BY OneClaim DEF Recorded, ClaimStages
  <1>5. Once'
    BY DEF Once, NeverTwice
  <1>6. Told'
    BY DEF Told, Honest
  <1>7. QED
    BY <1>1, <1>2, <1>3, <1>4, <1>5, <1>6

\* A request is taken.
LEMMA ArriveKeeps ==
    ASSUME JournalInv, NEW r \in Reqs,
           stage[r] = "sent",
           stage' = [stage EXCEPT ![r] = "arrived"],
           sentTo[IdOf[r]] = journal,
           UNCHANGED <<sentOn, claim, recent, writes, row, journal, day,
                       firstSent, sentTo, ran, ended>>
    PROVE  Core'
  <1> USE JournalConstants, CoreTypes DEF JournalInv, Core
  <1>1. Owned'
    BY DEF Owned, ClaimStages
  <1>2. Addressed'
    BY DEF Addressed
  <1>3. Timely'
    BY DEF Timely, TakingStages
  <1>4. Recorded'
    BY DEF Recorded
  <1>5. Once'
    BY DEF Once, NeverTwice
  <1>6. Told'
    BY DEF Told, Honest
  <1>7. QED
    BY <1>1, <1>2, <1>3, <1>4, <1>5, <1>6

\* A repeat waits.
LEMMA WaitKeeps ==
    ASSUME JournalInv, NEW r \in Reqs,
           stage[r] = "arrived",
           stage' = [stage EXCEPT ![r] = "waiting"],
           UNCHANGED <<sentOn, claim, recent, writes, row, journal, day,
                       firstSent, sentTo, ran, ended>>
    PROVE  Core'
  <1> USE JournalConstants, CoreTypes DEF JournalInv, Core
  <1>1. Owned'
    BY DEF Owned, ClaimStages
  <1>2. Addressed'
    BY DEF Addressed
  <1>3. Timely'
    BY DEF Timely, TakingStages
  <1>4. Recorded'
    BY DEF Recorded
  <1>5. Once'
    BY DEF Once, NeverTwice
  <1>6. Told'
    BY DEF Told, Honest
  <1>7. QED
    BY <1>1, <1>2, <1>3, <1>4, <1>5, <1>6

\* A request claims its ID.
LEMMA ClaimKeeps ==
    ASSUME JournalInv, NEW r \in Reqs,
           stage[r] = "arrived",
           stage' = [stage EXCEPT ![r] = "reading"],
           claim[IdOf[r]] = NoReq,
           recent[IdOf[r]].outcome = "none",
           claim' = [claim EXCEPT ![IdOf[r]] = r],
           UNCHANGED <<sentOn, recent, writes, row, journal, day, firstSent,
                       sentTo, ran, ended>>
    PROVE  Core'
  <1> USE JournalConstants, CoreTypes DEF JournalInv, Core
  <1>1. Owned'
    BY DEF Owned, ClaimStages
  <1>2. Addressed'
    BY DEF Addressed
  <1>3. Timely'
    BY DEF Timely, TakingStages
  <1>4. Recorded'
    BY DEF Recorded
  <1>5. Once'
    BY DEF Once, NeverTwice
  <1>6. Told'
    BY DEF Told, Honest
  <1>7. QED
    BY <1>1, <1>2, <1>3, <1>4, <1>5, <1>6

\* The journal does not know the ID: the row would be there if it had run.
LEMMA NoPriorKeeps ==
    ASSUME JournalInv, NEW r \in Reqs,
           stage[r] = "reading",
           stage' = [stage EXCEPT ![r] = "starting"],
           row[IdOf[r]].status = "none",
           UNCHANGED <<sentOn, claim, recent, writes, row, journal, day,
                       firstSent, sentTo, ran, ended>>
    PROVE  Core'
  <1> USE JournalConstants, CoreTypes DEF JournalInv, Core
  <1>1. Owned'
    BY DEF Owned, ClaimStages
  <1>2. Addressed'
    BY DEF Addressed
  <1>3. Timely'
    BY DEF Timely, TakingStages
  <1>4. Recorded'
    BY DEF Recorded
  <1>5. Once'
    <2>1. /\ sentTo[IdOf[r]] = journal
          /\ day - firstSent[IdOf[r]] <= Retention
      BY DEF Addressed, Timely, TakingStages
    <2>2. ran[IdOf[r]] = 0
      BY <2>1 DEF Recorded
    <2>3. QED
      BY <2>2 DEF Once, NeverTwice
  <1>6. Told'
    BY DEF Told, Honest
  <1>7. QED
    BY <1>1, <1>2, <1>3, <1>4, <1>5, <1>6

\* The change is recorded.
LEMMA StartKeeps ==
    ASSUME JournalInv, NEW r \in Reqs,
           stage[r] = "starting",
           stage' = [stage EXCEPT ![r] = "queued"],
           row' = [row EXCEPT ![IdOf[r]] = [status |-> "running",
               digest |-> DigestOf[r], day |-> day]],
           UNCHANGED <<sentOn, claim, recent, writes, journal, day,
                       firstSent, sentTo, ran, ended>>
    PROVE  Core'
  <1> USE JournalConstants, CoreTypes DEF JournalInv, Core
  <1>1. Owned'
    BY DEF Owned, ClaimStages
  <1>2. Addressed'
    BY DEF Addressed
  <1>3. Timely'
    BY DEF Timely, TakingStages
  <1>4. Recorded'
    <2>1. /\ firstSent[IdOf[r]] <= day
          /\ row[IdOf[r]].status = "none" /\ writes[IdOf[r]] = "none"
      BY DEF Addressed, Recorded
    <2>2. \A i \in Ids : IF i = IdOf[r]
                         THEN /\ row'[i].status = "running"
                              /\ row'[i].digest = DigestOf[r]
                              /\ row'[i].day = day
                         ELSE row'[i] = row[i]
      OBVIOUS
    <2>3. QED
      BY <2>1, <2>2, OneClaim DEF Recorded, ClaimStages
  <1>5. Once'
    BY DEF Once, NeverTwice
  <1>6. Told'
    BY DEF Told, Honest
  <1>7. QED
    BY <1>1, <1>2, <1>3, <1>4, <1>5, <1>6

\* The change runs.
LEMMA RunKeeps ==
    ASSUME JournalInv, NEW r \in Reqs,
           stage[r] = "queued",
           stage' = [stage EXCEPT ![r] = "running"],
           ran' = [ran EXCEPT ![IdOf[r]] = @ + 1],
           UNCHANGED <<sentOn, claim, recent, writes, row, journal, day,
                       firstSent, sentTo, ended>>
    PROVE  Core'
  <1> USE JournalConstants, CoreTypes DEF JournalInv, Core
  <1>1. Owned'
    BY DEF Owned, ClaimStages
  <1>2. Addressed'
    BY DEF Addressed
  <1>3. Timely'
    BY DEF Timely, TakingStages
  <1>4. Recorded'
    BY DEF Recorded
  <1>5. Once'
    BY OneClaim DEF Once, NeverTwice, ClaimStages
  <1>6. Told'
    <2>1. /\ recent[IdOf[r]].outcome = "none" /\ writes[IdOf[r]] = "none"
          /\ row[IdOf[r]].status = "running"
      BY OneClaim DEF Told, Recorded, ClaimStages
    <2>2. QED
      BY <2>1 DEF Told, Honest
  <1>7. QED
    BY <1>1, <1>2, <1>3, <1>4, <1>5, <1>6

\* An ID is stored before it is first sent.
LEMMA StoreKeeps ==
    ASSUME JournalInv, NEW i \in Ids, Store(i),
           UNCHANGED <<stage, sentOn, claim, recent, writes, row, journal, day,
                       ran, ended>>
    PROVE  Core'
  <1> USE JournalConstants, CoreTypes DEF JournalInv, Core
  <1>0. PICK j \in 0..journal :
            /\ firstSent[i] = -1
            /\ firstSent' = [firstSent EXCEPT ![i] = day]
            /\ sentTo' = [sentTo EXCEPT ![i] = j]
    BY DEF Store
  <1>a. /\ \A k \in Ids : k # i =>
               firstSent'[k] = firstSent[k] /\ sentTo'[k] = sentTo[k]
        /\ firstSent'[i] = day /\ sentTo'[i] = j /\ day # -1
    BY <1>0
  <1>b. \A r \in Reqs : IdOf[r] = i => stage[r] \in {"new", "done"}
    BY <1>0 DEF Addressed
  <1>1. Owned'
    BY DEF Owned
  <1>2. Addressed'
    BY <1>0, <1>a, <1>b DEF Addressed
  <1>3. Timely'
    BY <1>a, <1>b DEF Timely, TakingStages
  <1>4. Recorded'
    BY <1>0, <1>a, <1>b DEF Recorded, Addressed
  <1>5. Once'
    BY DEF Once, NeverTwice
  <1>6. Told'
    BY DEF Told, Honest
  <1>7. QED
    BY <1>1, <1>2, <1>3, <1>4, <1>5, <1>6

\* A request is sent, for the first time or again.
LEMMA SendKeeps ==
    ASSUME JournalInv, NEW r \in Reqs, Send(r),
           UNCHANGED <<claim, recent, writes, row, journal, day, firstSent,
                       sentTo, ran, ended>>
    PROVE  Core'
  <1> USE JournalConstants, CoreTypes DEF JournalInv, Core
  <1>0. /\ stage[r] = "new"
        /\ firstSent[IdOf[r]] # -1 /\ day - firstSent[IdOf[r]] <= Resend
        /\ stage' = [stage EXCEPT ![r] = "sent"]
        /\ sentOn' = [sentOn EXCEPT ![r] = day]
    BY DEF Send, MayResend
  <1>a. /\ \A w \in Reqs : w # r => stage'[w] = stage[w] /\ sentOn'[w] = sentOn[w]
        /\ stage'[r] = "sent" /\ sentOn'[r] = day
    BY <1>0
  <1>1. Owned'
    BY <1>0, <1>a DEF Owned, ClaimStages
  <1>2. Addressed'
    BY <1>0, <1>a DEF Addressed
  <1>3. Timely'
    BY <1>0, <1>a DEF Timely, TakingStages, Addressed
  <1>4. Recorded'
    BY <1>a DEF Recorded, Addressed
  <1>5. Once'
    BY <1>0, <1>a DEF Once, NeverTwice
  <1>6. Told'
    BY <1>0, <1>a DEF Told, Honest
  <1>7. QED
    BY <1>1, <1>2, <1>3, <1>4, <1>5, <1>6

\* What writing an outcome to a row changes.
LEMMA WrittenRow ==
    ASSUME NEW i \in Ids, row \in [Ids -> Rows],
           \/ row' = row
           \/ row' = [row EXCEPT ![i].status =
                 IF writes[i] = "reply" THEN "noReply" ELSE writes[i]]
    PROVE  /\ \A j \in Ids : row'[j].digest = row[j].digest
                           /\ row'[j].day = row[j].day
           /\ \A j \in Ids : j # i => row'[j] = row[j]
           /\ \/ row'[i].status = row[i].status
              \/ row'[i].status = writes[i]
              \/ writes[i] = "reply" /\ row'[i].status = "noReply"
  <1> DEFINE v == IF writes[i] = "reply" THEN "noReply" ELSE writes[i]
             new == [row[i] EXCEPT !.status = v]
  <1>1. row[i] \in Rows
    OBVIOUS
  <1>2. new.status = v /\ new.digest = row[i].digest /\ new.day = row[i].day
    BY <1>1 DEF Rows
  <1>3. CASE row' = row
    BY <1>3
  <1>4. CASE row' = [row EXCEPT ![i] = new]
    <2> HIDE DEF new
    <2>1. row'[i] = new /\ \A j \in Ids : j # i => row'[j] = row[j]
      BY <1>4
    <2>2. QED
      BY <1>2, <2>1
  <1>5. QED
    BY <1>3, <1>4

\* The journal learns an outcome, or never does.
LEMMA WriteKeeps ==
    ASSUME JournalInv, NEW i \in Ids,
           writes[i] # "none",
           writes' = [writes EXCEPT ![i] = "none"],
           \/ row' = row
           \/ row' = [row EXCEPT ![i].status =
                 IF writes[i] = "reply" THEN "noReply" ELSE writes[i]],
           UNCHANGED <<stage, sentOn, claim, recent, journal, day, firstSent,
                       sentTo, ran, ended>>
    PROVE  Core'
  <1> USE JournalConstants, CoreTypes DEF JournalInv, Core
  <1>0. /\ row[i].status = "running" /\ writes[i] \in Outcomes
        /\ \A r \in Reqs : stage[r] \in {"queued", "running"} => IdOf[r] # i
        /\ \A r \in Reqs : stage[r] = "starting" => IdOf[r] # i
    BY DEF Recorded
  <1>a. /\ \A j \in Ids : row'[j].digest = row[j].digest
                           /\ row'[j].day = row[j].day
        /\ \A j \in Ids : j # i => row'[j] = row[j]
        /\ \/ row'[i].status = row[i].status
           \/ row'[i].status = writes[i]
           \/ writes[i] = "reply" /\ row'[i].status = "noReply"
    BY WrittenRow
  <1>b. \A j \in Ids : row[j].status = "none" => row'[j] = row[j]
    BY <1>0, <1>a
  <1>1. Owned'
    BY DEF Owned, ClaimStages
  <1>2. Addressed'
    BY <1>b DEF Addressed
  <1>3. Timely'
    BY <1>0, <1>a DEF Timely, TakingStages
  <1>4. Recorded'
    <2>1. \A j \in Ids : row'[j].status = "none" => row[j].status = "none"
      BY <1>0, <1>a DEF Outcomes, Failures
    <2>2. \A j \in Ids : writes'[j] # "none" => j # i /\ writes'[j] = writes[j]
      OBVIOUS
    <2>3. QED
      BY <1>0, <1>a, <2>1, <2>2 DEF Recorded
  <1>5. Once'
    BY <1>0, <1>a DEF Once, NeverTwice
  <1>6. Told'
    BY <1>0, <1>a DEF Told, Honest
  <1>7. QED
    BY <1>1, <1>2, <1>3, <1>4, <1>5, <1>6

\* An outcome leaves memory.
LEMMA LapseKeeps ==
    ASSUME JournalInv, NEW i \in Ids,
           recent' = [recent EXCEPT ![i] = NoMemory],
           UNCHANGED <<stage, sentOn, claim, writes, row, journal, day,
                       firstSent, sentTo, ran, ended>>
    PROVE  Core'
  <1> USE JournalConstants, CoreTypes DEF JournalInv, Core
  <1>1. Owned'
    BY DEF Owned, ClaimStages
  <1>2. Addressed'
    BY DEF Addressed
  <1>3. Timely'
    BY DEF Timely, TakingStages
  <1>4. Recorded'
    BY DEF Recorded
  <1>5. Once'
    BY DEF Once, NeverTwice
  <1>6. Told'
    BY DEF Told, Honest, NoMemory
  <1>7. QED
    BY <1>1, <1>2, <1>3, <1>4, <1>5, <1>6

\* A day passes.
LEMMA TickKeeps ==
    ASSUME JournalInv,
           Tick,
           UNCHANGED <<stage, sentOn, claim, recent, writes, row, journal,
                       firstSent, sentTo, ran, ended>>
    PROVE  Core'
  <1> USE JournalConstants, CoreTypes DEF JournalInv, Core
  <1>0. /\ day' = day + 1
        /\ \A r \in Reqs : stage[r] \in TakingStages =>
               day - sentOn[r] < Retention - Resend
    BY DEF Tick
  <1>1. Owned'
    BY DEF Owned, ClaimStages
  <1>2. Addressed'
    BY <1>0 DEF Addressed
  <1>3. Timely'
    BY <1>0 DEF Timely, TakingStages
  <1>4. Recorded'
    BY <1>0 DEF Recorded
  <1>5. Once'
    BY DEF Once, NeverTwice
  <1>6. Told'
    BY DEF Told, Honest
  <1>7. QED
    BY <1>1, <1>2, <1>3, <1>4, <1>5, <1>6

\* Rows of finished changes older than the retention go.
LEMMA PruneKeeps ==
    ASSUME JournalInv,
           row' = Pruned(row),
           UNCHANGED <<stage, sentOn, claim, recent, writes, journal, day,
                       firstSent, sentTo, ran, ended>>
    PROVE  Core'
  <1> USE JournalConstants, CoreTypes DEF JournalInv, Core
  <1>0. \A i \in Ids :
           \/ row'[i] = row[i]
           \/ /\ row'[i].status = "none" /\ row[i].status # "running"
              /\ row[i].day < day - Retention
    BY DEF Pruned, Expired, NoRow
  <1>1. Owned'
    BY DEF Owned, ClaimStages
  <1>2. Addressed'
    BY <1>0 DEF Addressed
  <1>3. Timely'
    BY DEF Timely, TakingStages
  <1>4. Recorded'
    <2>1. \A i \in Ids : ran[i] # 0 =>
             \/ row'[i].status # "none"
             \/ sentTo[i] # journal
             \/ day - firstSent[i] > Retention
      BY <1>0 DEF Recorded
    <2>2. \A i \in Ids : row'[i].status # "none" => row'[i] = row[i]
      BY <1>0
    <2>3. \A i \in Ids : row[i].status = "running" => row'[i] = row[i]
      BY <1>0
    <2>4. \A i \in Ids : row[i].status = "none" => row'[i].status = "none"
      BY <1>0
    <2>5. QED
      BY <2>1, <2>2, <2>3, <2>4 DEF Recorded
  <1>5. Once'
    BY <1>0 DEF Once, NeverTwice
  <1>6. Told'
    BY <1>0 DEF Told, Honest
  <1>7. QED
    BY <1>1, <1>2, <1>3, <1>4, <1>5, <1>6

\* The Relay starts again, on its state or on a rebuilt one.
LEMMA StopKeeps ==
    ASSUME JournalInv,
           Stop,
           \/ journal' = journal /\ row' = Pruned(Interrupted(row))
           \/ journal' = journal + 1 /\ row' = [i \in Ids |-> NoRow],
           UNCHANGED <<sentOn, day, firstSent, sentTo, ran, ended>>
    PROVE  Core'
  <1> USE JournalConstants, CoreTypes DEF JournalInv, Core
  <1>0. /\ \A r \in Reqs : stage'[r] \in {"new", "done"}
        /\ \A r \in Reqs : stage'[r] = "new" => stage[r] = "new"
        /\ \A i \in Ids : claim'[i] = NoReq
        /\ \A i \in Ids : recent'[i].outcome = "none" /\ writes'[i] = "none"
    BY DEF Stop, NoMemory
  <1>a. \A i \in Ids :
           \/ row'[i].status = row[i].status /\ row'[i].day = row[i].day
           \/ row'[i].status = "interrupted" /\ row[i].status = "running"
              /\ row'[i].day = row[i].day
           \/ row'[i].status = "none" /\ row[i].day < day - Retention
           \/ row'[i].status = "none" /\ journal' = journal + 1
    <2>1. \A i \in Ids : /\ Interrupted(row)[i].day = row[i].day
                          /\ Interrupted(row)[i].status =
                                IF row[i].status = "running"
                                THEN "interrupted" ELSE row[i].status
      BY DEF Interrupted, Rows
    <2>2. QED
      BY <2>1 DEF Pruned, Expired, NoRow
  <1>1. Owned'
    BY <1>0, <1>a DEF Owned, ClaimStages
  <1>2. Addressed'
    BY <1>0, <1>a DEF Addressed
  <1>3. Timely'
    BY <1>0, <1>a DEF Timely, TakingStages
  <1>4. Recorded'
    <2>1. \A i \in Ids : ran[i] # 0 =>
             \/ row'[i].status # "none"
             \/ sentTo[i] # journal'
             \/ day - firstSent[i] > Retention
      BY <1>a DEF Recorded, Addressed, Stop, hearth, history
    <2>2. \A i \in Ids : row'[i].status # "none" => firstSent[i] <= row'[i].day
      BY <1>a DEF Recorded
    <2>3. QED
      BY <1>0, <2>1, <2>2 DEF Recorded
  <1>5. Once'
    BY <1>0, <1>a DEF Once, NeverTwice
  <1>6. Told'
    BY <1>0, <1>a DEF Told, Honest
  <1>7. QED
    BY <1>1, <1>2, <1>3, <1>4, <1>5, <1>6

-----------------------------------------------------------------------------
(***************************************************************************)
(* Every step keeps the invariant.                                         *)
(***************************************************************************)

\* What ending one request changes of the core.
LEMMA EndOneKeeps ==
    ASSUME JournalInv, NEW r \in Reqs, NEW a, EndOne(r, a),
           stage[r] \notin ClaimStages,
           UNCHANGED <<memory, disk, hearth, history, day>>
    PROVE  Core'
  <1> DEFINE S == {r}
  <1>1. /\ stage' = [w \in Reqs |-> IF w \in S THEN "done" ELSE stage[w]]
        /\ sentOn' = sentOn
    BY DEF EndOne, End
  <1>2. S \in SUBSET Reqs /\ \A w \in S : stage[w] \notin ClaimStages
    OBVIOUS
  <1> HIDE DEF S
  <1>3. QED
    BY <1>1, <1>2, RetireKeeps DEF memory, disk, hearth, history

\* What settling a claim changes of the core.
LEMMA SettledKeeps ==
    ASSUME JournalInv, NEW r \in Reqs, stage[r] \in ClaimStages,
           NEW outcome, NEW madeWith \in Digests \cup {"none"},
           NEW remembered \in Outcomes, NEW own,
           Settle(r, outcome, madeWith, remembered, own),
           UNCHANGED <<disk, hearth, ran, day>>,
           \/ writes' = writes /\ ended' = ended
           \/ /\ row[IdOf[r]].status = "running"
              /\ \E o \in Outcomes : /\ writes' = [writes EXCEPT ![IdOf[r]] = o]
                                    /\ Honest(IdOf[r], o)'
              /\ \E e \in {"none", "succeeded", "failed"} :
                    ended' = [ended EXCEPT ![IdOf[r]] = e],
           Honest(IdOf[r], remembered)'
    PROVE  Core'
  <1> DEFINE S == Waiters(IdOf[r]) \cup {r}
             m == [outcome |-> remembered, digest |-> madeWith]
  <1>1. /\ S \in SUBSET Reqs /\ r \in S
        /\ \A w \in S : w = r \/ stage[w] = "waiting"
    BY DEF Waiters
  <1>2. /\ stage' = [w \in Reqs |-> IF w \in S THEN "done" ELSE stage[w]]
        /\ sentOn' = sentOn
        /\ claim' = [claim EXCEPT ![IdOf[r]] = NoReq]
    BY DEF Settle, End
  <1>3. recent' = [recent EXCEPT ![IdOf[r]] = m]
    <2>1. [[outcome |-> outcome, digest |-> madeWith] EXCEPT
              !.outcome = remembered] = m
      OBVIOUS
    <2>2. recent' = [recent EXCEPT ![IdOf[r]] =
             [[outcome |-> outcome, digest |-> madeWith] EXCEPT
                 !.outcome = remembered]]
      BY DEF Settle
    <2>3. QED
      BY <2>1, <2>2
  <1>4. m \in Memories /\ m.outcome = remembered
    BY DEF Memories
  <1> HIDE DEF S, m
  <1>5. QED
    BY <1>1, <1>2, <1>3, <1>4, SettleKeeps DEF disk, hearth

\* Every step keeps the core of the invariant, action by action.
LEMMA StepKeepsCore ==
    ASSUME JournalInv, Next
    PROVE  Core'
  <1> USE DEF requests, lanes, memory, disk, hearth, history
  <1>0. /\ JournalInv => TypeOK /\ Core
        /\ \A r \in Reqs : IdOf[r] \in Ids /\ DigestOf[r] \in Digests
    BY JournalConstants DEF JournalInv
  <1>1. ASSUME NEW r \in Reqs, Send(r) PROVE Core'
    BY <1>1, SendKeeps DEF Send, memory, disk, hearth, history
  <1>s. ASSUME NEW i \in Ids, Store(i) PROVE Core'
    BY <1>s, StoreKeeps DEF Store, requests, memory, disk, history
  <1>2. ASSUME NEW r \in Reqs, TurnAtDoor(r) \/ JournalGone(r) PROVE Core'
    BY <1>2, EndOneKeeps DEF TurnAtDoor, JournalGone, ClaimStages
  <1>3. ASSUME NEW r \in Reqs, Arrive(r) PROVE Core'
    BY <1>3, ArriveKeeps DEF Arrive
  <1>4. ASSUME NEW r \in Reqs, Enter(r) PROVE Core'
    <2>1. stage[r] = "arrived" /\ UNCHANGED <<disk, hearth, history, day>>
      BY <1>4 DEF Enter
    <2>2. CASE UNCHANGED memory /\ \E a : EndOne(r, a)
      BY <2>1, <2>2, EndOneKeeps DEF ClaimStages
    <2>3. CASE /\ claim[IdOf[r]] = NoReq /\ recent[IdOf[r]].outcome = "none"
               /\ Claim(r)
      BY <2>1, <2>3, ClaimKeeps DEF Claim
    <2>4. CASE /\ stage' = [stage EXCEPT ![r] = "waiting"]
               /\ UNCHANGED <<sentOn, memory>>
      BY <2>1, <2>4, WaitKeeps
    <2>5. QED
      BY <1>4, <2>2, <2>3, <2>4 DEF Enter, JoinLive
  <1>5. ASSUME NEW r \in Reqs, ReadJournal(r) PROVE Core'
    <2> DEFINE i == IdOf[r]
               o == RecordedOutcome(row[i].status)
               d == row[i].digest
    <2>1. stage[r] = "reading" /\ UNCHANGED <<disk, hearth, history, day>>
      BY <1>5 DEF ReadJournal
    <2>2. CASE row[i].status # "none"
      <3>1. o \in Outcomes /\ d \in Digests \cup {"none"}
        BY <1>0, <2>2 DEF RecordedOutcome, TypeOK, Rows, Outcomes
      <3>2. Settle(r, o, d, o, Repeat(r, [outcome |-> o, digest |-> d]))
            /\ writes' = writes
        BY <1>5, <2>2 DEF ReadJournal
      <3>3. PICK oo \in Outcomes, dd \in Digests \cup {"none"} :
               /\ oo = o /\ dd = d
        BY <3>1
      <3>4. Honest(i, oo)'
        BY <1>0, <2>1, <3>3 DEF Core, Told, Honest, RecordedOutcome
      <3>5. Settle(r, oo, dd, oo, Repeat(r, [outcome |-> oo, digest |-> dd]))
        BY <3>2, <3>3
      <3> HIDE DEF o, d
      <3>6. QED
        BY <2>1, <3>2, <3>4, <3>5, SettledKeeps DEF ClaimStages
    <2>3. CASE row[i].status = "none"
      BY <1>5, <2>1, <2>3, NoPriorKeeps DEF ReadJournal
    <2>4. QED
      BY <2>2, <2>3
  <1>6. ASSUME NEW r \in Reqs, JournalFails(r) PROVE Core'
    <2>1. Settle(r, "failed", DigestOf[r], "failed", FailureAnswer(r, "failed"))
          /\ stage[r] \in ClaimStages
          /\ UNCHANGED <<writes, disk, hearth, history, day>>
      BY <1>6 DEF JournalFails, ClaimStages
    <2>2. "failed" \in Outcomes /\ Honest(IdOf[r], "failed")'
      BY DEF Outcomes, Failures, Honest
    <2>3. QED
      BY <1>0, <2>1, <2>2, SettledKeeps
  <1>7. ASSUME NEW r \in Reqs, StartRow(r) PROVE Core'
    <2>1. row[IdOf[r]].status = "none"
      BY <1>0, <1>7 DEF StartRow, Core, Recorded
    <2>2. QED
      BY <1>7, <2>1, StartKeeps DEF StartRow
  <1>8. ASSUME NEW r \in Reqs, TurnComes(r) PROVE Core'
    BY <1>8, RunKeeps DEF TurnComes
  <1>9. ASSUME NEW r \in Reqs, stage[r] \in {"queued", "running"},
               NEW outcome \in Outcomes, NEW remembered \in Outcomes, NEW own,
               Conclude(r, outcome, remembered, own),
               UNCHANGED <<disk, hearth, ran, day>>,
               \/ ended' = ended
               \/ \E e \in {"none", "succeeded", "failed"} :
                     ended' = [ended EXCEPT ![IdOf[r]] = e],
               Honest(IdOf[r], outcome)', Honest(IdOf[r], remembered)'
        PROVE  Core'
    <2>1. row[IdOf[r]].status = "running" /\ stage[r] \in ClaimStages
      BY <1>0, <1>9 DEF Core, Recorded, ClaimStages
    <2>2. \E e \in {"none", "succeeded", "failed"} :
             ended' = [ended EXCEPT ![IdOf[r]] = e]
      <3>1. ended \in [Ids -> {"none", "succeeded", "failed"}]
        BY <1>0 DEF TypeOK
      <3>2. ended = [ended EXCEPT ![IdOf[r]] = ended[IdOf[r]]]
            /\ ended[IdOf[r]] \in {"none", "succeeded", "failed"}
        BY <1>0, <3>1
      <3>3. QED
        BY <1>9, <3>2
    <2>3. /\ Settle(r, outcome, DigestOf[r], remembered, own)
          /\ writes' = [writes EXCEPT ![IdOf[r]] = outcome]
      BY <1>9 DEF Conclude
    <2>4. QED
      BY <1>0, <1>9, <2>1, <2>2, <2>3, SettledKeeps
  <1>10. ASSUME NEW r \in Reqs, TurnedAway(r) PROVE Core'
    <2>1. PICK why \in {"withdrawn", "paused", "busy", "refused"} :
             Conclude(r, why, why, FailureAnswer(r, why))
      BY <1>10 DEF TurnedAway
    <2>2. stage[r] = "queued" /\ UNCHANGED <<disk, hearth, history, day>>
      BY <1>10 DEF TurnedAway
    <2>3. why \in Outcomes /\ Honest(IdOf[r], why)'
      BY <1>0, <2>2 DEF Outcomes, Failures, Honest, Core, Once
    <2>4. QED
      BY <1>9, <2>1, <2>2, <2>3
  <1>11. ASSUME NEW r \in Reqs, Finish(r) PROVE Core'
    <2>1. stage[r] = "running" /\ UNCHANGED <<disk, hearth, ran, day>>
      BY <1>11 DEF Finish
    <2>2. {"reply", "noReply", "failed"} \subseteq Outcomes
      BY DEF Outcomes, Failures
    <2>3. CASE /\ \E m \in {"reply", "noReply"} : Conclude(r, "reply", m, "reply")
               /\ ended' = [ended EXCEPT ![IdOf[r]] = "succeeded"]
      <3>1. PICK m \in {"reply", "noReply"} : Conclude(r, "reply", m, "reply")
        BY <2>3
      <3>2. ended'[IdOf[r]] = "succeeded"
        BY <1>0, <2>3 DEF TypeOK
      <3>3. Honest(IdOf[r], "reply")' /\ Honest(IdOf[r], m)'
        BY <3>2 DEF Honest
      <3>4. QED
        BY <1>9, <2>1, <2>2, <2>3, <3>1, <3>3
    <2>4. CASE /\ Conclude(r, "failed", "failed", FailureAnswer(r, "failed"))
               /\ ended' = [ended EXCEPT ![IdOf[r]] = "failed"]
      <3>1. Honest(IdOf[r], "failed")'
        BY DEF Honest
      <3>2. QED
        BY <1>9, <2>1, <2>2, <2>4, <3>1
    <2>5. QED
      BY <1>11, <2>3, <2>4 DEF Finish
  <1>12. ASSUME NEW i \in Ids, Write(i) \/ GiveUpWrite(i) PROVE Core'
    BY <1>12, WriteKeeps DEF Write, GiveUpWrite
  <1>13. ASSUME NEW i \in Ids, Lapse(i) PROVE Core'
    BY <1>13, LapseKeeps DEF Lapse
  <1>14. CASE Tick
    BY <1>14, TickKeeps DEF Tick
  <1>15. ASSUME UNCHANGED <<stage, sentOn, memory, disk, hearth, history, day>>
         PROVE  Core'
    <2> DEFINE S == {}
    <2>1. /\ stage' = [w \in Reqs |-> IF w \in S THEN "done" ELSE stage[w]]
          /\ S \in SUBSET Reqs /\ \A w \in S : stage[w] \notin ClaimStages
      BY <1>0, <1>15 DEF TypeOK
    <2> HIDE DEF S
    <2>2. QED
      BY <1>15, <2>1, RetireKeeps
  <1>16. ASSUME NEW r \in Reqs, Abort(r) \/ Drop(r) PROVE Core'
    <2>1. UNCHANGED <<sentOn, memory, disk, hearth, history, day>>
      BY <1>16 DEF Abort, Drop
    <2>2. \/ stage' = stage
          \/ /\ stage[r] \notin ClaimStages
             /\ stage' = [stage EXCEPT ![r] = "done"]
      BY <1>16 DEF Abort, Drop
    <2>3. CASE /\ stage[r] \notin ClaimStages
               /\ stage' = [stage EXCEPT ![r] = "done"]
      <3>1. stage' = [w \in Reqs |-> IF w \in {r} THEN "done" ELSE stage[w]]
        BY <1>0, <2>3 DEF TypeOK
      <3>2. QED
        BY <2>1, <2>3, <3>1, RetireKeeps
    <2>4. QED
      BY <1>15, <2>1, <2>2, <2>3
  <1>17. CASE Pause \/ Resume
    BY <1>15, <1>17 DEF Pause, Resume
  <1>18. CASE Prune
    BY <1>18, PruneKeeps DEF Prune
  <1>19. CASE Restart \/ Rebuild
    <2>1. Stop /\ \/ journal' = journal /\ row' = Pruned(Interrupted(row))
                  \/ journal' = journal + 1 /\ row' = [i \in Ids |-> NoRow]
      BY <1>19 DEF Restart, Rebuild
    <2>2. UNCHANGED <<sentOn, day, firstSent, sentTo, ran, ended>>
      BY <2>1 DEF Stop
    <2>3. QED
      BY <2>1, <2>2, StopKeeps
  <1>20. QED
    BY <1>1, <1>s, <1>2, <1>3, <1>4, <1>5, <1>6, <1>7, <1>8, <1>10, <1>11, <1>12,
       <1>13, <1>14, <1>16, <1>17, <1>18, <1>19 DEF Next, HearthSteps, RelaySteps

\* A step that changes nothing keeps the invariant.
LEMMA StutterKeeps ==
    ASSUME JournalInv, UNCHANGED vars
    PROVE  JournalInv'
  <1>1. TypeOK'
    BY TypeParts, TypeFrames DEF JournalInv, vars
  <1> DEFINE S == {}
  <1>2. /\ stage' = [w \in Reqs |-> IF w \in S THEN "done" ELSE stage[w]]
        /\ S \in SUBSET Reqs /\ \A w \in S : stage[w] \notin ClaimStages
    BY DEF JournalInv, TypeOK, vars, requests
  <1> HIDE DEF S
  <1>3. Core'
    BY <1>2, RetireKeeps DEF vars, requests, memory, disk, hearth, history
  <1>4. QED
    BY <1>1, <1>3 DEF JournalInv

-----------------------------------------------------------------------------
\* The inductive invariant holds of the journal.
THEOREM JournalInvariant == Spec => []JournalInv
  <1>1. ASSUME JournalInv, [Next]_vars PROVE JournalInv'
    <2>1. CASE Next
      BY <1>1, <2>1, StepTyped, StepKeepsCore DEF JournalInv
    <2>2. QED
      BY <1>1, <2>1, StutterKeeps
  <1>2. QED
    BY <1>1, InitEstablishesInv, PTL DEF Spec

\* Type correctness of the journal.
THEOREM JournalTyped == Spec => []TypeOK
  BY JournalInvariant, PTL DEF JournalInv

\* The change of one ID is started at most once, for any number of sends,
\* drops, restarts and days (journaled).
THEOREM ChangesRunOnce == Spec => []NeverTwice
  <1>1. JournalInv => NeverTwice
    BY DEF JournalInv, Core, Once
  <1>2. QED
    BY <1>1, JournalInvariant, PTL

\* What operation.get answers is true (lookupOperation).
THEOREM LookupsTrue == Spec => []LookupTruth
  <1>1. ASSUME JournalInv PROVE LookupTruth
    <2> SUFFICES ASSUME NEW i \in Ids
                 PROVE  /\ Lookup(i) = "unknown" /\ Believed(i) => ran[i] = 0
                        /\ Lookup(i) \in {"reply", "noReply"} =>
                               ended[i] = "succeeded"
                        /\ Lookup(i) \in {"withdrawn", "paused", "busy",
                                          "refused"} => ran[i] = 0
      BY DEF LookupTruth
    <2>1. ASSUME Lookup(i) = "unknown", Believed(i) PROVE ran[i] = 0
      <3>1. row[i].status = "none"
        BY <1>1, <2>1 DEF Lookup, RecordedOutcome, JournalInv, TypeOK, Memories,
                   Rows, Outcomes, Failures
      <3>2. sentTo[i] = journal /\ day - firstSent[i] <= Resend
        BY <2>1 DEF Believed, MayResend
      <3>3. QED
        BY <1>1, <3>1, <3>2, CoreTypes, JournalConstants
           DEF JournalInv, Core, Recorded
    <2>2. Honest(i, Lookup(i))
      BY <1>1 DEF Lookup, RecordedOutcome, JournalInv, Core, Told, Honest
    <2>3. QED
      BY <2>1, <2>2 DEF Honest
  <1>2. QED
    BY <1>1, JournalInvariant, PTL

\* A running change is in the journal as running (startOperation).
THEOREM RunsAreRecorded == Spec => []RunsRecorded
  <1>1. ASSUME JournalInv PROVE RunsRecorded
    <2> SUFFICES ASSUME NEW r \in Reqs, stage[r] = "running"
                 PROVE  row[IdOf[r]] = [row[IdOf[r]] EXCEPT
                            !.status = "running", !.digest = DigestOf[r]]
      BY DEF RunsRecorded
    <2>1. row[IdOf[r]] \in Rows
      BY <1>1, CoreTypes
    <2>2. row[IdOf[r]].status = "running" /\ row[IdOf[r]].digest = DigestOf[r]
      BY <1>1 DEF JournalInv, Core, Recorded
    <2>3. QED
      BY <2>1, <2>2 DEF Rows
  <1>2. QED
    BY <1>1, JournalInvariant, PTL

-----------------------------------------------------------------------------
(***************************************************************************)
(* What the Relay answered stays true.                                     *)
(***************************************************************************)
\* The outcomes of a change that went through, and of one turned away.
Went == {"reply", "noReply"}
Turned == {"withdrawn", "paused", "busy", "refused"}

\* Nothing of an ID is made any more, whatever of it is still on its way.
Shut(i) ==
    /\ firstSent[i] # -1
    /\ \/ row[i].status # "none"
       \/ sentTo[i] # journal
       \/ day - firstSent[i] > Retention
    /\ \A r \in Reqs :
           IdOf[r] = i => stage[r] \notin {"starting", "queued", "running"}

\* An outcome said of an ID and a payload fits what was made, for good.
Fits(i, outcome, digest) ==
    /\ outcome \in Went =>
           ended[i] = "succeeded" /\ DigestOf[ranBy[i]] = digest
    /\ outcome \in Turned => ran[i] = 0 /\ Shut(i)

\* What runs is what ran last under its ID, and hasn't ended.
Lived ==
    /\ \A i \in Ids : ended[i] # "none" => ran[i] # 0
    /\ \A r \in Reqs : stage[r] = "running" =>
           /\ ranBy[IdOf[r]] = r
           /\ ran[IdOf[r]] # 0
           /\ ended[IdOf[r]] = "none"

\* Everything kept of an ID, and every answer given, fits.
Kept ==
    /\ \A i \in Ids :
           /\ Fits(i, recent[i].outcome, recent[i].digest)
           /\ Fits(i, writes[i], row[i].digest)
           /\ Fits(i, row[i].status, row[i].digest)
    /\ \A r \in Reqs : Fits(IdOf[r], answer[r], DigestOf[r])

AnswersInv == JournalInv /\ Lived /\ Kept

\* How a request moves, and what of its ID that rests on.
LEMMA StageMoves ==
    ASSUME TypeOK, [Next]_vars, NEW r \in Reqs
    PROVE  \/ stage'[r] = stage[r]
           \/ stage'[r] \in {"sent", "arrived", "waiting", "reading", "done"}
           \/ /\ stage'[r] = "starting" /\ stage[r] = "reading"
              /\ row[IdOf[r]].status = "none"
           \/ stage'[r] = "queued" /\ stage[r] = "starting"
           \/ stage'[r] = "running" /\ stage[r] = "queued" /\ TurnComes(r)
  <1> USE DEF TypeOK, requests, lanes, memory, disk, hearth, history
  <1>1. ASSUME NEW f, End(f) PROVE stage'[r] \in {stage[r], "done"}
    BY <1>1 DEF End
  <1>2. ASSUME NEW q \in Reqs, NEW a, EndOne(q, a) PROVE stage'[r] \in {stage[r], "done"}
    BY <1>1, <1>2 DEF EndOne
  <1>3. ASSUME NEW q \in Reqs, NEW a, NEW b, NEW c, NEW d, Settle(q, a, b, c, d)
        PROVE  stage'[r] \in {stage[r], "done"}
    BY <1>1, <1>3 DEF Settle
  <1>4. ASSUME NEW q \in Reqs, TurnAtDoor(q) \/ JournalGone(q)
        PROVE  stage'[r] \in {stage[r], "done"}
    BY <1>2, <1>4 DEF TurnAtDoor, JournalGone
  <1>5. ASSUME NEW q \in Reqs, Enter(q)
        PROVE  stage'[r] = stage[r] \/ stage'[r] \in {"waiting", "reading", "done"}
    BY <1>2, <1>5 DEF Enter, JoinLive, Claim
  <1>6. ASSUME NEW q \in Reqs, ReadJournal(q)
        PROVE  \/ stage'[r] \in {stage[r], "done"}
               \/ /\ stage'[r] = "starting" /\ stage[r] = "reading"
                  /\ row[IdOf[r]].status = "none"
    BY <1>3, <1>6 DEF ReadJournal
  <1>7. ASSUME NEW q \in Reqs, JournalFails(q) \/ TurnedAway(q) \/ Finish(q)
        PROVE  stage'[r] \in {stage[r], "done"}
    BY <1>3, <1>7 DEF JournalFails, TurnedAway, Finish, Conclude
  <1>8. ASSUME NEW q \in Reqs, StartRow(q) \/ TurnComes(q)
        PROVE  \/ stage'[r] = stage[r]
               \/ stage'[r] = "queued" /\ stage[r] = "starting"
               \/ stage'[r] = "running" /\ stage[r] = "queued" /\ TurnComes(r)
    BY <1>8 DEF StartRow, TurnComes
  <1>9. ASSUME NEW q \in Reqs, Send(q) \/ Arrive(q) \/ Abort(q) \/ Drop(q)
        PROVE  stage'[r] = stage[r] \/ stage'[r] \in {"sent", "arrived", "done"}
    BY <1>9 DEF Send, Arrive, Abort, Drop
  <1>10. CASE Restart \/ Rebuild
    BY <1>10 DEF Restart, Rebuild, Stop
  <1>11. ASSUME NEW i \in Ids, Store(i) \/ Write(i) \/ GiveUpWrite(i) \/ Lapse(i)
         PROVE  stage' = stage
    BY <1>11 DEF Store, Write, GiveUpWrite, Lapse
  <1>12. CASE Tick \/ Pause \/ Resume \/ Prune
    BY <1>12 DEF Tick, Pause, Resume, Prune
  <1>13. CASE UNCHANGED vars
    BY <1>13 DEF vars
  <1> HIDE DEF requests, lanes, memory, disk, hearth, history
  <1>14. QED
    BY <1>4, <1>5, <1>6, <1>7, <1>8, <1>9, <1>10, <1>11, <1>12, <1>13
       DEF Next, HearthSteps, RelaySteps

\* A row goes only when it's as old as the retention, or with its journal.
LEMMA RowsLast ==
    ASSUME TypeOK, [Next]_vars, NEW i \in Ids, firstSent[i] # -1
    PROVE  /\ firstSent'[i] = firstSent[i] /\ sentTo'[i] = sentTo[i]
           /\ day' = day \/ day' = day + 1
           /\ journal' = journal \/ journal' = journal + 1
           /\ \/ row[i].status # "none" => row'[i].status # "none"
              \/ row[i].day < day - Retention /\ day' = day
              \/ journal' = journal + 1
  <1> USE DEF requests, lanes, memory, disk, hearth, history
  <1>1. CASE UNCHANGED <<disk, hearth>> /\ (day' = day \/ day' = day + 1)
    BY <1>1
  <1>2. ASSUME NEW j \in Ids, Store(j)
        PROVE  /\ firstSent'[i] = firstSent[i] /\ sentTo'[i] = sentTo[i]
               /\ UNCHANGED <<row, journal, day>>
    BY <1>2 DEF Store, TypeOK
  <1>3. ASSUME NEW q \in Reqs, StartRow(q)
        PROVE  /\ UNCHANGED <<journal, hearth, day>>
               /\ row[i].status # "none" => row'[i].status # "none"
    <2>1. row'[i] = row[i] \/ row'[i].status = "running"
      BY <1>3 DEF StartRow, TypeOK
    <2>2. QED
      BY <1>3, <2>1 DEF StartRow
  <1>4. ASSUME NEW j \in Ids, Write(j)
        PROVE  /\ UNCHANGED <<journal, hearth, day>>
               /\ row[i].status # "none" => row'[i].status # "none"
    <2>1. \/ row'[i] = row[i]
          \/ row'[i].status = IF writes[j] = "reply" THEN "noReply" ELSE writes[j]
      BY <1>4 DEF Write, TypeOK, Rows
    <2>2. QED
      BY <1>4, <2>1 DEF Write
  <1>5. CASE Prune
    BY <1>5 DEF Prune, Pruned, Expired, NoRow
  <1>6. CASE Restart
    <2>1. \/ Interrupted(row)[i] = row[i]
          \/ /\ Interrupted(row)[i].status = "interrupted"
             /\ Interrupted(row)[i].day = row[i].day
      BY DEF Interrupted, TypeOK, Rows
    <2>2. row'[i] = IF Expired(Interrupted(row)[i]) THEN NoRow ELSE Interrupted(row)[i]
      BY <1>6 DEF Restart, Pruned
    <2>3. UNCHANGED <<journal, hearth, day>>
      BY <1>6 DEF Restart, Stop
    <2>4. QED
      BY <2>1, <2>2, <2>3 DEF Expired
  <1>7. CASE Rebuild
    BY <1>7 DEF Rebuild, Stop
  <1>8. CASE UNCHANGED vars
    BY <1>8 DEF vars
  <1>9. ASSUME NEW q \in Reqs,
               \/ Send(q) \/ TurnAtDoor(q) \/ JournalGone(q) \/ Arrive(q) \/ Enter(q)
               \/ ReadJournal(q) \/ JournalFails(q) \/ TurnComes(q) \/ TurnedAway(q)
               \/ Finish(q) \/ Abort(q) \/ Drop(q)
        PROVE  UNCHANGED <<disk, hearth>> /\ day' = day
    BY <1>9 DEF Send, TurnAtDoor, JournalGone, Arrive, Enter, ReadJournal, JournalFails,
                TurnComes, TurnedAway, Finish, Abort, Drop
  <1>10. ASSUME NEW j \in Ids, GiveUpWrite(j) \/ Lapse(j)
         PROVE  UNCHANGED <<disk, hearth>> /\ day' = day
    BY <1>10 DEF GiveUpWrite, Lapse
  <1>11. CASE Tick \/ Pause \/ Resume
    BY <1>1, <1>11 DEF Tick, Pause, Resume
  <1>12. QED
    BY <1>1, <1>2, <1>3, <1>4, <1>5, <1>6, <1>7, <1>8, <1>9, <1>10, <1>11
       DEF Next, HearthSteps, RelaySteps

\* History is written only as a change starts and as it ends.
LEMMA HistoryMoves ==
    ASSUME [Next]_vars
    PROVE  \/ UNCHANGED history
           \/ \E r \in Reqs : TurnComes(r)
           \/ \E r \in Reqs : Finish(r)
  <1> USE DEF requests, lanes, memory, disk, hearth, history
  <1>1. ASSUME NEW q \in Reqs,
               \/ Send(q) \/ TurnAtDoor(q) \/ JournalGone(q) \/ Arrive(q) \/ Enter(q)
               \/ ReadJournal(q) \/ JournalFails(q) \/ TurnedAway(q)
               \/ StartRow(q) \/ Abort(q) \/ Drop(q)
        PROVE  UNCHANGED history
    BY <1>1 DEF Send, TurnAtDoor, JournalGone, Arrive, Enter, ReadJournal, JournalFails,
                TurnedAway, StartRow, Abort, Drop
  <1>2. ASSUME NEW j \in Ids, Store(j) \/ Write(j) \/ GiveUpWrite(j) \/ Lapse(j)
        PROVE  UNCHANGED history
    BY <1>2 DEF Store, Write, GiveUpWrite, Lapse
  <1>3. CASE Tick \/ Pause \/ Resume \/ Prune \/ Restart \/ Rebuild
    BY <1>3 DEF Tick, Pause, Resume, Prune, Restart, Rebuild, Stop
  <1>4. CASE UNCHANGED vars
    BY <1>4 DEF vars
  <1> HIDE DEF requests, lanes, memory, disk, hearth, history
  <1>5. QED
    BY <1>1, <1>2, <1>3, <1>4 DEF Next, HearthSteps, RelaySteps

\* What is made no more never is again.
LEMMA ShutStays ==
    ASSUME JournalInv, [Next]_vars, NEW i \in Ids, Shut(i)
    PROVE  Shut(i)' /\ ran'[i] = ran[i]
  <1> USE JournalConstants, CoreTypes
  <1>0. TypeOK
    BY DEF JournalInv
  <1>1. /\ firstSent'[i] = firstSent[i] /\ sentTo'[i] = sentTo[i] /\ firstSent[i] # -1
        /\ day' = day \/ day' = day + 1
        /\ journal' = journal \/ journal' = journal + 1
        /\ \/ row[i].status # "none" => row'[i].status # "none"
           \/ row[i].day < day - Retention /\ day' = day
           \/ journal' = journal + 1
    BY <1>0, RowsLast DEF Shut
  <1>2. sentTo[i] <= journal /\ (row[i].status # "none" => firstSent[i] <= row[i].day)
    BY DEF JournalInv, Core, Addressed, Recorded
  <1>3. \/ row'[i].status # "none"
        \/ sentTo'[i] # journal'
        \/ day' - firstSent'[i] > Retention
    BY <1>1, <1>2 DEF Shut
  <1>4. ASSUME NEW r \in Reqs, IdOf[r] = i
        PROVE  stage'[r] \notin {"starting", "queued", "running"}
    <2>1. CASE stage[r] = "reading" /\ row[IdOf[r]].status = "none"
      <3>1. /\ sentTo[i] = journal /\ day - sentOn[r] <= Retention - Resend
            /\ sentOn[r] - firstSent[i] <= Resend
        BY <1>4, <2>1 DEF JournalInv, Core, Addressed, Timely, TakingStages
      <3>2. QED
        BY <1>4, <2>1, <3>1 DEF Shut
    <2>2. QED
      BY <1>0, <1>4, <2>1, StageMoves DEF Shut
  <1>5. ran'[i] = ran[i]
    <2>1. ASSUME NEW r \in Reqs, TurnComes(r) PROVE ran'[i] = ran[i]
      BY <2>1 DEF TurnComes, Shut
    <2>2. ASSUME NEW r \in Reqs, Finish(r) PROVE ran'[i] = ran[i]
      BY <2>2 DEF Finish
    <2>3. QED
      BY <2>1, <2>2, HistoryMoves DEF history
  <1>6. QED
    BY <1>1, <1>3, <1>4, <1>5 DEF Shut

\* A change that went through stays the last of its ID.
LEMMA SuccessStays ==
    ASSUME JournalInv, Lived, [Next]_vars, NEW i \in Ids, ended[i] = "succeeded"
    PROVE  ended'[i] = "succeeded" /\ ranBy'[i] = ranBy[i] /\ ran'[i] = ran[i]
  <1>0. TypeOK /\ \A r \in Reqs : IdOf[r] \in Ids
    BY JournalConstants DEF JournalInv
  <1>1. ASSUME NEW r \in Reqs, TurnComes(r)
        PROVE  ended'[i] = "succeeded" /\ ranBy'[i] = ranBy[i] /\ ran'[i] = ran[i]
    <2>1. ran[IdOf[r]] = 0 /\ ran[i] # 0
      BY <1>1 DEF TurnComes, JournalInv, Core, Once, Lived
    <2>2. QED
      BY <1>0, <1>1, <2>1 DEF TurnComes, TypeOK
  <1>2. ASSUME NEW r \in Reqs, Finish(r)
        PROVE  ended'[i] = "succeeded" /\ ranBy'[i] = ranBy[i] /\ ran'[i] = ran[i]
    <2>1. ended[IdOf[r]] = "none"
      BY <1>2 DEF Finish, Lived
    <2>2. QED
      BY <1>0, <1>2, <2>1 DEF Finish, TypeOK
  <1>3. QED
    BY <1>1, <1>2, HistoryMoves DEF history

\* What fits what was made fits it for good.
LEMMA FitsStays ==
    ASSUME JournalInv, Lived, [Next]_vars, NEW i \in Ids, NEW o, NEW d, Fits(i, o, d)
    PROVE  Fits(i, o, d)'
  BY ShutStays, SuccessStays DEF Fits

\* What runs is still what ran last.
LEMMA StepLived ==
    ASSUME JournalInv, Lived, [Next]_vars
    PROVE  Lived'
  <1> USE JournalConstants
  <1>0. TypeOK /\ \A r \in Reqs : IdOf[r] \in Ids
    BY DEF JournalInv
  <1>1. ASSUME UNCHANGED history PROVE Lived'
    <2>1. \A r \in Reqs : stage'[r] = "running" => stage[r] = "running"
      <3>1. ASSUME NEW r \in Reqs, TurnComes(r) PROVE FALSE
        <4>1. ran'[IdOf[r]] = ran[IdOf[r]] + 1 /\ ran[IdOf[r]] \in Nat
          BY <1>0, <3>1 DEF TurnComes, TypeOK
        <4>2. QED
          BY <1>1, <4>1 DEF history
      <3>2. QED
        BY <1>0, <3>1, StageMoves
    <2>2. QED
      BY <1>1, <2>1 DEF Lived, history
  <1>2. ASSUME NEW r \in Reqs, TurnComes(r) PROVE Lived'
    <2>1. /\ stage' = [stage EXCEPT ![r] = "running"] /\ stage[r] = "queued"
          /\ ran' = [ran EXCEPT ![IdOf[r]] = @ + 1]
          /\ ranBy' = [ranBy EXCEPT ![IdOf[r]] = r]
          /\ ended' = ended
      BY <1>2 DEF TurnComes
    <2>2. ran[IdOf[r]] = 0 /\ ended[IdOf[r]] = "none"
      BY <2>1 DEF JournalInv, Core, Once, Lived
    <2>3. \A w \in Reqs : IdOf[w] = IdOf[r] /\ stage[w] = "running" => w = r
      BY <2>1, OneClaim DEF ClaimStages
    <2>4. \A i \in Ids : ended'[i] # "none" => ran'[i] # 0
      BY <1>0, <2>1, <2>2 DEF Lived, TypeOK
    <2>5. ASSUME NEW w \in Reqs, stage'[w] = "running"
          PROVE  /\ ranBy'[IdOf[w]] = w
                 /\ ran'[IdOf[w]] # 0
                 /\ ended'[IdOf[w]] = "none"
      <3>1. CASE w = r
        BY <1>0, <2>1, <2>2, <3>1 DEF TypeOK
      <3>2. CASE w # r
        <4>1. stage[w] = "running" /\ IdOf[w] # IdOf[r]
          BY <1>0, <2>1, <2>3, <2>5, <3>2 DEF TypeOK
        <4>2. QED
          BY <1>0, <2>1, <4>1 DEF Lived, TypeOK
      <3>3. QED
        BY <3>1, <3>2
    <2>6. QED
      BY <2>4, <2>5 DEF Lived
  <1>3. ASSUME NEW r \in Reqs, Finish(r) PROVE Lived'
    <2>1. /\ stage[r] = "running" /\ UNCHANGED <<ran, ranBy>>
          /\ \/ ended' = [ended EXCEPT ![IdOf[r]] = "succeeded"]
             \/ ended' = [ended EXCEPT ![IdOf[r]] = "failed"]
      BY <1>3 DEF Finish
    <2>2. stage'[r] = "done" /\ \A w \in Reqs : stage'[w] \in {stage[w], "done"}
      <3>1. ASSUME NEW a, NEW b, NEW c, Conclude(r, a, b, c)
            PROVE  stage'[r] = "done" /\ \A w \in Reqs : stage'[w] \in {stage[w], "done"}
        BY <3>1 DEF Conclude, Settle, End
      <3>2. QED
        BY <1>3, <3>1 DEF Finish
    <2>3. \A w \in Reqs : stage'[w] = "running" => stage[w] = "running" /\ IdOf[w] # IdOf[r]
      BY <2>1, <2>2, OneClaim DEF ClaimStages
    <2>4. ran[IdOf[r]] # 0
      BY <2>1 DEF Lived
    <2>5. \A i \in Ids : ended'[i] # "none" => ran'[i] # 0
      BY <1>0, <2>1, <2>4 DEF Lived, TypeOK
    <2>6. \A w \in Reqs : stage'[w] = "running" => ended'[IdOf[w]] = ended[IdOf[w]]
      BY <1>0, <2>1, <2>3 DEF TypeOK
    <2>7. QED
      BY <2>1, <2>3, <2>5, <2>6 DEF Lived
  <1>4. QED
    BY <1>1, <1>2, <1>3, HistoryMoves

\* What is kept and answered fits if what a step adds to it does.
LEMMA KeptByAdding ==
    ASSUME JournalInv, Lived, Kept, [Next]_vars,
           \A i \in Ids :
               \/ recent'[i] = recent[i]
               \/ Fits(i, recent[i].outcome, recent[i].digest)',
           \A i \in Ids :
               \/ writes'[i] = writes[i] /\ row'[i].digest = row[i].digest
               \/ Fits(i, writes[i], row[i].digest)',
           \A i \in Ids :
               \/ row'[i] = row[i]
               \/ Fits(i, row[i].status, row[i].digest)',
           \A r \in Reqs :
               \/ answer'[r] = answer[r]
               \/ Fits(IdOf[r], answer[r], DigestOf[r])'
    PROVE  Kept'
  <1>1. ASSUME NEW i \in Ids PROVE Fits(i, recent[i].outcome, recent[i].digest)'
    <2>1. CASE recent'[i] = recent[i]
      <3> DEFINE o == recent[i].outcome
                 d == recent[i].digest
      <3>1. Fits(i, o, d)
        BY DEF Kept
      <3>2. PICK oo, dd : oo = o /\ dd = d
        OBVIOUS
      <3>3. Fits(i, oo, dd)
        BY <3>1, <3>2
      <3>4. Fits(i, oo, dd)'
        BY <3>3, FitsStays
      <3>5. recent'[i].outcome = oo /\ recent'[i].digest = dd
        BY <2>1, <3>2
      <3>6. QED
        BY <3>4, <3>5 DEF Fits
    <2>2. QED
      BY <2>1
  <1>2. ASSUME NEW i \in Ids PROVE Fits(i, writes[i], row[i].digest)'
    <2>1. CASE writes'[i] = writes[i] /\ row'[i].digest = row[i].digest
      <3>1. PICK oo, dd : oo = writes[i] /\ dd = row[i].digest
        OBVIOUS
      <3>2. Fits(i, oo, dd)
        BY <3>1 DEF Kept
      <3>3. Fits(i, oo, dd)'
        BY <3>2, FitsStays
      <3>4. writes'[i] = oo /\ row'[i].digest = dd
        BY <2>1, <3>1
      <3>5. QED
        BY <3>3, <3>4 DEF Fits
    <2>2. QED
      BY <2>1
  <1>3. ASSUME NEW i \in Ids PROVE Fits(i, row[i].status, row[i].digest)'
    <2>1. CASE row'[i] = row[i]
      <3>1. PICK oo, dd : oo = row[i].status /\ dd = row[i].digest
        OBVIOUS
      <3>2. Fits(i, oo, dd)
        BY <3>1 DEF Kept
      <3>3. Fits(i, oo, dd)'
        BY <3>2, FitsStays
      <3>4. row'[i].status = oo /\ row'[i].digest = dd
        BY <2>1, <3>1
      <3>5. QED
        BY <3>3, <3>4 DEF Fits
    <2>2. QED
      BY <2>1
  <1>4. ASSUME NEW r \in Reqs PROVE Fits(IdOf[r], answer[r], DigestOf[r])'
    <2>1. CASE answer'[r] = answer[r]
      <3>1. PICK oo, dd : oo = answer[r] /\ dd = DigestOf[r]
        OBVIOUS
      <3>2. Fits(IdOf[r], oo, dd)
        BY <3>1 DEF Kept
      <3>3. IdOf[r] \in Ids
        BY JournalConstants
      <3>4. Fits(IdOf[r], oo, dd)'
        BY <3>2, <3>3, FitsStays
      <3>5. QED
        BY <2>1, <3>1, <3>4 DEF Fits
    <2>2. QED
      BY <2>1
  <1>5. QED
    BY <1>1, <1>2, <1>3, <1>4 DEF Kept

\* Answering one request.
LEMMA EndOneKept ==
    ASSUME JournalInv, Lived, Kept, [Next]_vars, NEW r \in Reqs, NEW a, EndOne(r, a),
           UNCHANGED <<memory, disk>>,
           \/ a \notin Went \union Turned
           \/ a = Repeat(r, recent[IdOf[r]])
    PROVE  Kept'
  <1>1. /\ \A w \in Reqs : answer'[w] = answer[w] \/ (w = r /\ answer'[w] = a)
        /\ UNCHANGED <<recent, writes, row>>
    BY DEF EndOne, End, memory, disk
  <1>2. Fits(IdOf[r], a, DigestOf[r])
    <2>1. CASE a \notin Went \union Turned
      BY <2>1 DEF Fits
    <2>2. CASE a = Repeat(r, recent[IdOf[r]])
      <3>1. Fits(IdOf[r], recent[IdOf[r]].outcome, recent[IdOf[r]].digest)
        BY JournalConstants DEF Kept
      <3>2. CASE recent[IdOf[r]].digest = DigestOf[r]
        BY <2>2, <3>1, <3>2 DEF Repeat
      <3>3. CASE recent[IdOf[r]].digest # DigestOf[r]
        BY <2>2, <3>3 DEF Repeat, Fits, Went, Turned
      <3>4. QED
        BY <3>2, <3>3
    <2>3. QED
      BY <2>1, <2>2
  <1>3. IdOf[r] \in Ids
    BY JournalConstants
  <1>4. Fits(IdOf[r], a, DigestOf[r])'
    <2>1. PICK oo, dd : oo = a /\ dd = DigestOf[r]
      OBVIOUS
    <2>2. Fits(IdOf[r], oo, dd)'
      BY <1>2, <1>3, <2>1, FitsStays
    <2>3. QED
      BY <2>1, <2>2 DEF Fits
  <1>5. \A w \in Reqs : answer'[w] = answer[w] \/ Fits(IdOf[w], answer[w], DigestOf[w])'
    BY <1>1, <1>4 DEF Fits
  <1>6. QED
    BY <1>1, <1>5, KeptByAdding

\* Settling a claim with an outcome that fits.
LEMMA SettleKept ==
    ASSUME JournalInv, Lived, Kept, [Next]_vars, NEW r \in Reqs,
           NEW outcome, NEW madeWith, NEW remembered, NEW own,
           Settle(r, outcome, madeWith, remembered, own),
           Fits(IdOf[r], outcome, madeWith)',
           Fits(IdOf[r], remembered, madeWith)',
           Fits(IdOf[r], own, DigestOf[r])',
           row' = row,
           \/ writes' = writes
           \/ /\ writes' = [writes EXCEPT ![IdOf[r]] = outcome]
              /\ row[IdOf[r]].digest = madeWith
    PROVE  Kept'
  <1> DEFINE i == IdOf[r]
             settled == [outcome |-> outcome, digest |-> madeWith]
  <1>0. i \in Ids /\ writes \in [Ids -> Outcomes \union {"none"}] /\ recent \in [Ids -> Memories]
    BY JournalConstants, CoreTypes
  <1>1. /\ recent' = [recent EXCEPT ![i] = [settled EXCEPT !.outcome = remembered]]
        /\ \A w \in Reqs :
               \/ answer'[w] = answer[w]
               \/ w = r /\ answer'[w] = own
               \/ IdOf[w] = i /\ answer'[w] = Repeat(w, settled)
    BY DEF Settle, End, Waiters
  <1>2. ASSUME NEW j \in Ids
        PROVE  recent'[j] = recent[j] \/ Fits(j, recent[j].outcome, recent[j].digest)'
    <2>1. CASE j = i
      <3>1. recent'[j].outcome = remembered /\ recent'[j].digest = madeWith
        BY <1>0, <1>1, <2>1
      <3>2. QED
        BY <2>1, <3>1 DEF Fits
    <2>2. CASE j # i
      BY <1>0, <1>1, <2>2
    <2>3. QED
      BY <2>1, <2>2
  <1>3. ASSUME NEW j \in Ids
        PROVE  \/ writes'[j] = writes[j] /\ row'[j].digest = row[j].digest
               \/ Fits(j, writes[j], row[j].digest)'
    <2>1. CASE writes'[j] = writes[j]
      BY <2>1
    <2>2. CASE j = i /\ writes'[j] = outcome /\ row'[j].digest = madeWith
      BY <2>2 DEF Fits
    <2>3. QED
      BY <1>0, <2>1, <2>2
  <1>4. ASSUME NEW w \in Reqs
        PROVE  answer'[w] = answer[w] \/ Fits(IdOf[w], answer[w], DigestOf[w])'
    <2>1. CASE w = r /\ answer'[w] = own
      BY <2>1 DEF Fits
    <2>2. CASE IdOf[w] = i /\ answer'[w] = Repeat(w, settled)
      <3>1. CASE madeWith = DigestOf[w]
        BY <2>2, <3>1 DEF Fits, Repeat
      <3>2. CASE madeWith # DigestOf[w]
        BY <2>2, <3>2 DEF Fits, Repeat, Went, Turned
      <3>3. QED
        BY <3>1, <3>2
    <2>3. QED
      BY <1>1, <2>1, <2>2
  <1>5. QED
    BY <1>2, <1>3, <1>4, KeptByAdding

\* Every step keeps what is kept and answered fitting.
LEMMA StepKept ==
    ASSUME JournalInv, Lived, Kept, [Next]_vars
    PROVE  Kept'
  <1> USE DEF requests, lanes, memory, disk, hearth, history
  <1>0. /\ TypeOK /\ Core
        /\ \A r \in Reqs : IdOf[r] \in Ids /\ DigestOf[r] \in Digests
    BY JournalConstants DEF JournalInv
  <1>1. CASE UNCHANGED <<answer, recent, writes, row>>
    BY <1>1, KeptByAdding
  <1>2. ASSUME NEW r \in Reqs, TurnAtDoor(r) \/ JournalGone(r) PROVE Kept'
    BY <1>2, EndOneKept DEF TurnAtDoor, JournalGone, Went, Turned
  <1>3. ASSUME NEW r \in Reqs, Enter(r) PROVE Kept'
    <2>1. UNCHANGED <<disk, history>>
      BY <1>3 DEF Enter
    <2>2. CASE UNCHANGED memory /\ \E a \in {"cancelled", "pausedNow", "conflict"} : EndOne(r, a)
      BY <2>1, <2>2, EndOneKept DEF Went, Turned
    <2>3. CASE UNCHANGED memory /\ EndOne(r, Repeat(r, recent[IdOf[r]]))
      BY <2>1, <2>3, EndOneKept
    <2>4. CASE UNCHANGED <<answer, recent, writes>>
      BY <1>1, <2>1, <2>4
    <2>5. QED
      BY <1>3, <2>2, <2>3, <2>4 DEF Enter, JoinLive, Claim
  <1>4. ASSUME NEW r \in Reqs, ReadJournal(r) PROVE Kept'
    <2>1. CASE row[IdOf[r]].status = "none"
      BY <1>1, <1>4, <2>1 DEF ReadJournal
    <2>2. CASE row[IdOf[r]].status # "none"
      <3>1. PICK o, d : o = RecordedOutcome(row[IdOf[r]].status) /\ d = row[IdOf[r]].digest
        OBVIOUS
      <3>2. Settle(r, o, d, o, Repeat(r, [outcome |-> o, digest |-> d]))
            /\ writes' = writes /\ row' = row
        BY <1>4, <2>2, <3>1 DEF ReadJournal
      <3>3. Fits(IdOf[r], o, d)
        BY <1>0, <3>1 DEF Kept, Fits, RecordedOutcome, Went, Turned
      <3>4. Fits(IdOf[r], o, d)'
        BY <1>0, <3>3, FitsStays
      <3>5. PICK own : own = Repeat(r, [outcome |-> o, digest |-> d])
        OBVIOUS
      <3>6. Fits(IdOf[r], own, DigestOf[r])'
        <4>1. CASE d = DigestOf[r]
          BY <3>4, <3>5, <4>1 DEF Repeat, Fits
        <4>2. CASE d # DigestOf[r]
          BY <3>5, <4>2 DEF Repeat, Fits, Went, Turned
        <4>3. QED
          BY <4>1, <4>2
      <3>7. Settle(r, o, d, o, own)
        BY <3>2, <3>5
      <3>8. QED
        BY <3>2, <3>4, <3>6, <3>7, SettleKept
    <2>3. QED
      BY <2>1, <2>2
  <1>5. ASSUME NEW r \in Reqs, JournalFails(r) PROVE Kept'
    <2>1. Settle(r, "failed", DigestOf[r], "failed", FailureAnswer(r, "failed"))
          /\ UNCHANGED <<writes, row>>
      BY <1>5 DEF JournalFails
    <2>2. PICK own : own = FailureAnswer(r, "failed")
      OBVIOUS
    <2>3. own \in {"failed", "cancelled"}
      BY <2>2 DEF FailureAnswer
    <2>4. Fits(IdOf[r], "failed", DigestOf[r])' /\ Fits(IdOf[r], own, DigestOf[r])'
      BY <2>3 DEF Fits, Went, Turned
    <2>5. Settle(r, "failed", DigestOf[r], "failed", own)
      BY <2>1, <2>2
    <2>6. QED
      BY <2>1, <2>4, <2>5, SettleKept
  <1>6. ASSUME NEW r \in Reqs, StartRow(r) PROVE Kept'
    <2>1. /\ UNCHANGED <<answer, recent, writes>> /\ stage[r] = "starting"
      BY <1>6 DEF StartRow
    <2>2. row[IdOf[r]].status = "none"
      BY <1>0, <2>1 DEF Core, Recorded
    <2>3. row' = [row EXCEPT ![IdOf[r]] = [status |-> "running", digest |-> DigestOf[r],
                                           day |-> day]]
      BY <1>6, <2>2 DEF StartRow
    <2>4. ASSUME NEW i \in Ids
          PROVE  /\ row'[i] = row[i] \/ Fits(i, row[i].status, row[i].digest)'
                 /\ \/ writes'[i] = writes[i] /\ row'[i].digest = row[i].digest
                    \/ Fits(i, writes[i], row[i].digest)'
      <3>1. CASE i = IdOf[r]
        <4>1. writes[i] = "none" /\ row'[i].status = "running"
          BY <1>0, <2>2, <2>3, <3>1 DEF Core, Recorded, TypeOK
        <4>2. QED
          BY <2>1, <4>1 DEF Fits, Went, Turned
      <3>2. CASE i # IdOf[r]
        BY <1>0, <2>1, <2>3, <3>2 DEF TypeOK
      <3>3. QED
        BY <3>1, <3>2
    <2>5. QED
      BY <2>1, <2>4, KeptByAdding
  <1>7. ASSUME NEW r \in Reqs, TurnedAway(r) PROVE Kept'
    <2>1. PICK why \in {"withdrawn", "paused", "busy", "refused"} :
             Conclude(r, why, why, FailureAnswer(r, why))
      BY <1>7 DEF TurnedAway
    <2>2. /\ Settle(r, why, DigestOf[r], why, FailureAnswer(r, why))
          /\ writes' = [writes EXCEPT ![IdOf[r]] = why]
          /\ stage[r] = "queued" /\ UNCHANGED <<disk, hearth, history, day>>
      BY <1>7, <2>1 DEF Conclude, TurnedAway
    <2>3. /\ ran'[IdOf[r]] = 0 /\ row[IdOf[r]].digest = DigestOf[r]
          /\ row'[IdOf[r]].status = "running" /\ firstSent'[IdOf[r]] # -1
      BY <1>0, <2>2 DEF Core, Once, Recorded, Addressed
    <2>4. Shut(IdOf[r])'
      <3>1. ASSUME NEW w \in Reqs, IdOf[w] = IdOf[r]
            PROVE  stage'[w] \notin {"starting", "queued", "running"}
        <4>1. stage'[r] = "done" /\ stage'[w] \in {stage[w], "done"}
          BY <2>2 DEF Settle, End
        <4>2. w = r \/ stage[w] \notin ClaimStages
          BY <2>2, <3>1, OneClaim DEF ClaimStages
        <4>3. QED
          BY <4>1, <4>2 DEF ClaimStages
      <3>2. QED
        BY <2>3, <3>1 DEF Shut
    <2>5. PICK own : own = FailureAnswer(r, why)
      OBVIOUS
    <2>6. own \in {why, "cancelled"}
      BY <2>5 DEF FailureAnswer
    <2>7. Fits(IdOf[r], why, DigestOf[r])' /\ Fits(IdOf[r], own, DigestOf[r])'
      BY <2>3, <2>4, <2>6 DEF Fits, Went, Turned
    <2>8. Settle(r, why, DigestOf[r], why, own) /\ row' = row
      BY <2>2, <2>5
    <2>9. QED
      BY <2>2, <2>3, <2>7, <2>8, SettleKept
  <1>8. ASSUME NEW r \in Reqs, Finish(r) PROVE Kept'
    <2>1. /\ stage[r] = "running" /\ UNCHANGED <<row, ranBy>>
          /\ ranBy[IdOf[r]] = r /\ row[IdOf[r]].digest = DigestOf[r]
      BY <1>0, <1>8 DEF Finish, Core, Recorded, Lived
    <2>2. CASE /\ \E m \in {"reply", "noReply"} : Conclude(r, "reply", m, "reply")
               /\ ended' = [ended EXCEPT ![IdOf[r]] = "succeeded"]
      <3>1. PICK m \in {"reply", "noReply"} : Conclude(r, "reply", m, "reply")
        BY <2>2
      <3>2. /\ Settle(r, "reply", DigestOf[r], m, "reply")
            /\ writes' = [writes EXCEPT ![IdOf[r]] = "reply"]
        BY <3>1 DEF Conclude
      <3>3. ended'[IdOf[r]] = "succeeded"
        BY <1>0, <2>2 DEF TypeOK
      <3>4. Fits(IdOf[r], "reply", DigestOf[r])' /\ Fits(IdOf[r], m, DigestOf[r])'
        BY <2>1, <3>3 DEF Fits, Went, Turned
      <3>5. QED
        BY <2>1, <3>2, <3>4, SettleKept
    <2>3. CASE Conclude(r, "failed", "failed", FailureAnswer(r, "failed"))
      <3>1. PICK own : own = FailureAnswer(r, "failed")
        OBVIOUS
      <3>2. /\ Settle(r, "failed", DigestOf[r], "failed", own)
            /\ writes' = [writes EXCEPT ![IdOf[r]] = "failed"]
            /\ own \in {"failed", "cancelled"}
        BY <2>3, <3>1 DEF Conclude, FailureAnswer
      <3>3. Fits(IdOf[r], "failed", DigestOf[r])' /\ Fits(IdOf[r], own, DigestOf[r])'
        BY <3>2 DEF Fits, Went, Turned
      <3>4. QED
        BY <2>1, <3>2, <3>3, SettleKept
    <2>4. QED
      BY <1>8, <2>2, <2>3 DEF Finish
  <1>9. ASSUME NEW j \in Ids, Write(j) PROVE Kept'
    <2>1. /\ writes[j] # "none" /\ UNCHANGED <<answer, recent>>
          /\ writes' = [writes EXCEPT ![j] = "none"]
          /\ row' = IF row[j].status = "none" THEN row
                    ELSE [row EXCEPT ![j].status =
                             IF writes[j] = "reply" THEN "noReply" ELSE writes[j]]
      BY <1>9 DEF Write
    <2>2. ASSUME NEW i \in Ids
          PROVE  /\ row'[i] = row[i] \/ Fits(i, row[i].status, row[i].digest)'
                 /\ \/ writes'[i] = writes[i] /\ row'[i].digest = row[i].digest
                    \/ Fits(i, writes[i], row[i].digest)'
      <3>1. CASE i = j
        <4>1. PICK o, d : o = (IF writes[j] = "reply" THEN "noReply" ELSE writes[j])
                          /\ d = row[j].digest
          OBVIOUS
        <4>2. Fits(i, o, d)
          <5>1. Fits(j, writes[j], row[j].digest)
            BY DEF Kept
          <5>2. QED
            BY <3>1, <4>1, <5>1 DEF Fits, Went, Turned
        <4>3. Fits(i, o, d)'
          BY <4>2, FitsStays
        <4>4. row'[j] = row[j] \/ (row'[j].status = o /\ row'[j].digest = d)
          BY <1>0, <2>1, <4>1 DEF TypeOK, Rows
        <4>5. writes'[j] = "none"
          BY <1>0, <2>1 DEF TypeOK
        <4>6. QED
          BY <3>1, <4>3, <4>4, <4>5 DEF Fits, Went, Turned
      <3>2. CASE i # j
        BY <1>0, <2>1, <3>2 DEF TypeOK
      <3>3. QED
        BY <3>1, <3>2
    <2>3. QED
      BY <2>1, <2>2, KeptByAdding
  <1>10. ASSUME NEW j \in Ids, GiveUpWrite(j) PROVE Kept'
    <2>1. UNCHANGED <<answer, recent, row>> /\ writes' = [writes EXCEPT ![j] = "none"]
      BY <1>10 DEF GiveUpWrite
    <2>2. \A i \in Ids : writes'[i] = writes[i] \/ Fits(i, writes[i], row[i].digest)'
      BY <1>0, <2>1 DEF Fits, Went, Turned, TypeOK
    <2>3. QED
      BY <2>1, <2>2, KeptByAdding
  <1>11. ASSUME NEW j \in Ids, Lapse(j) PROVE Kept'
    <2>1. UNCHANGED <<answer, writes, row>> /\ recent' = [recent EXCEPT ![j] = NoMemory]
      BY <1>11 DEF Lapse
    <2>2. \A i \in Ids : recent'[i] = recent[i] \/ recent'[i].outcome = "none"
      BY <1>0, <2>1 DEF NoMemory, TypeOK
    <2>3. QED
      BY <2>1, <2>2, KeptByAdding DEF Fits, Went, Turned
  <1>12. CASE Prune
    <2>1. UNCHANGED <<answer, recent, writes>> /\ row' = Pruned(row)
      BY <1>12 DEF Prune
    <2>2. ASSUME NEW i \in Ids
          PROVE  /\ row'[i] = row[i] \/ Fits(i, row[i].status, row[i].digest)'
                 /\ \/ writes'[i] = writes[i] /\ row'[i].digest = row[i].digest
                    \/ Fits(i, writes[i], row[i].digest)'
      <3>1. CASE Expired(row[i])
        <4>1. row'[i].status = "none" /\ writes'[i] = "none"
          BY <1>0, <2>1, <3>1 DEF Pruned, Expired, NoRow, Core, Recorded, TypeOK
        <4>2. QED
          BY <4>1 DEF Fits, Went, Turned
      <3>2. CASE ~Expired(row[i])
        BY <2>1, <3>2 DEF Pruned
      <3>3. QED
        BY <3>1, <3>2
    <2>3. QED
      BY <2>1, <2>2, KeptByAdding
  <1>13. CASE Restart \/ Rebuild
    <2>1. answer' = answer /\ \A i \in Ids : recent'[i].outcome = "none" /\ writes'[i] = "none"
      BY <1>13 DEF Restart, Rebuild, Stop, NoMemory
    <2>2. ASSUME NEW i \in Ids
          PROVE  row'[i] = row[i] \/ row'[i].status \in {"none", "interrupted"}
      <3>1. CASE Restart
        <4>1. \/ Interrupted(row)[i] = row[i]
              \/ Interrupted(row)[i].status = "interrupted"
          BY <1>0 DEF Interrupted, TypeOK, Rows
        <4>2. row'[i] \in {Interrupted(row)[i], NoRow}
          BY <3>1 DEF Restart, Pruned
        <4>3. QED
          BY <4>1, <4>2 DEF NoRow
      <3>2. CASE Rebuild
        BY <3>2 DEF Rebuild, NoRow
      <3>3. QED
        BY <1>13, <3>1, <3>2
    <2>3. QED
      BY <2>1, <2>2, KeptByAdding DEF Fits, Went, Turned
  <1>14. ASSUME NEW r \in Reqs,
                Send(r) \/ Arrive(r) \/ TurnComes(r) \/ Abort(r) \/ Drop(r)
         PROVE  UNCHANGED <<answer, recent, writes, row>>
    BY <1>14 DEF Send, Arrive, TurnComes, Abort, Drop
  <1>15. ASSUME NEW i \in Ids, Store(i) PROVE UNCHANGED <<answer, recent, writes, row>>
    BY <1>15 DEF Store
  <1>16. CASE Tick \/ Pause \/ Resume
    BY <1>1, <1>16 DEF Tick, Pause, Resume
  <1>17. CASE UNCHANGED vars
    BY <1>1, <1>17 DEF vars
  <1> HIDE DEF requests, lanes, memory, disk, hearth, history
  <1>18. QED
    BY <1>1, <1>2, <1>3, <1>4, <1>5, <1>6, <1>7, <1>8, <1>9, <1>10, <1>11, <1>12,
       <1>13, <1>14, <1>15, <1>16, <1>17 DEF Next, HearthSteps, RelaySteps

\* Answers fit before anything is asked.
LEMMA InitKept == Init => Lived /\ Kept
  BY JournalConstants
     DEF Init, Lived, Kept, Fits, Went, Turned, NoMemory, NoRow

-----------------------------------------------------------------------------
\* Every step keeps what is kept of a change, and what was answered, fitting.
LEMMA AnswersStep ==
    ASSUME AnswersInv, [Next]_vars
    PROVE  AnswersInv'
  <1>1. JournalInv'
    BY StepTyped, StepKeepsCore, StutterKeeps DEF AnswersInv, JournalInv
  <1>2. QED
    BY <1>1, StepLived, StepKept DEF AnswersInv

\* What is kept of a change and what was answered of it fit what was made,
\* and go on to.
THEOREM AnswersInvariant == Spec => []AnswersInv
  <1>1. Init => AnswersInv
    BY InitEstablishesInv, InitKept DEF AnswersInv
  <1>2. AnswersInv /\ [Next]_vars => AnswersInv'
    BY AnswersStep
  <1>3. QED
    BY <1>1, <1>2, PTL DEF Spec

\* A request is answered with a success, or with having been turned away,
\* only for a change of its own that went so, for good (repeat,
\* settleRecorded).
THEOREM AnswersTrue == Spec => []AnswersTruth
  <1>1. AnswersInv => AnswersTruth
    BY DEF AnswersInv, Kept, Fits, Went, Turned, AnswersTruth
  <1>2. QED
    BY <1>1, AnswersInvariant, PTL

-----------------------------------------------------------------------------
(***************************************************************************)
(* The command over the journal.                                           *)
(***************************************************************************)
\* An outcome of an attempt fits the change, for good.
FitsAttempt(outcome) ==
    /\ outcome \in Went => ended[attempt] = "succeeded"
    /\ outcome \in Turned => ran[attempt] = 0 /\ Shut(attempt)

\* The IDs the step gave up are shut, the ones it may still try unused.
Tried ==
    /\ \A i \in Ids : i < attempt => ran[i] = 0 /\ Shut(i)
    /\ \A i \in Ids : i > attempt => firstSent[i] = -1
    /\ sent # NoReq => IdOf[sent] = attempt

\* What the step heard of its attempt fits, and so does what it says.
Reported ==
    /\ FitsAttempt(heard)
    /\ result \in SaysDone => ended[attempt] = "succeeded"
    /\ result \in SaysNotRun => ran[attempt] = 0 /\ Shut(attempt)
    /\ (result # "none") = (step = "ended")
    /\ (heard # "none") = (step = "heard")

CommandInv == CommandTypeOK /\ Tried /\ Reported

\* A step of the command is a step of the journal, or leaves it alone.
LEMMA CommandStepsJournal ==
    ASSUME CommandTypeOK, [CommandNext]_commandVars
    PROVE  [Next]_vars
  <1>1. CASE UNCHANGED commandVars
    BY <1>1 DEF commandVars
  <1>2. CASE RelaySteps
    BY <1>2 DEF Next
  <1>3. ASSUME StoreCommand PROVE Next
    BY <1>3 DEF StoreCommand, CommandTypeOK, Next, HearthSteps
  <1>4. ASSUME SendUnknown PROVE [Next]_vars
    BY <1>4 DEF SendUnknown, Next, HearthSteps
  <1>5. ASSUME \/ NoSuchRelay \/ Ask \/ Decide \/ HearAnswer \/ LoseConnection
               \/ SettleUnsettled \/ GiveUpWaiting \/ HearthRestart
        PROVE  UNCHANGED vars
    <2>1. NoSuchRelay \/ Ask \/ LoseConnection \/ GiveUpWaiting \/ HearthRestart
              => UNCHANGED vars
      BY DEF NoSuchRelay, Ask, LoseConnection, GiveUpWaiting, HearthRestart
    <2>2. Decide => UNCHANGED vars
      BY DEF Decide
    <2>3. HearAnswer => UNCHANGED vars
      BY DEF HearAnswer
    <2>4. SettleUnsettled => UNCHANGED vars
      BY DEF SettleUnsettled
    <2>5. QED
      BY <1>5, <2>1, <2>2, <2>3, <2>4
  <1>6. QED
    BY <1>1, <1>2, <1>3, <1>4, <1>5 DEF CommandNext, CommandSteps

\* What a lookup answers fits, as everything kept of its ID does.
LEMMA LookupFits ==
    ASSUME AnswersInv, attempt \in Ids
    PROVE  FitsAttempt(Answered(attempt)) /\ Answered(attempt) \in Lookups
  <1>1. /\ Fits(attempt, recent[attempt].outcome, recent[attempt].digest)
        /\ Fits(attempt, row[attempt].status, row[attempt].digest)
    BY DEF AnswersInv, Kept
  <1>2. recent[attempt].outcome \in Outcomes \cup {"none"}
        /\ row[attempt].status \in Outcomes \cup {"none", "running"}
    BY DEF AnswersInv, JournalInv, TypeOK, Memories, Rows
  <1>3. "interrupted" \in Outcomes
    BY DEF Outcomes
  <1>4. QED
    BY <1>1, <1>2, <1>3 DEF FitsAttempt, Fits, Answered, Lookup,
       RecordedOutcome, Lookups, Went, Turned

\* Only Hearth stores when an ID was first sent, the step's own.
LEMMA OthersUnsent ==
    ASSUME TypeOK, CommandTypeOK, [CommandNext]_commandVars,
           NEW i \in Ids, i # attempt
    PROVE  firstSent'[i] = firstSent[i]
  <1>1. CASE RelaySteps
    <2> USE DEF hearth
    <2>1. ASSUME NEW r \in Reqs,
                 \/ TurnAtDoor(r) \/ JournalGone(r) \/ Arrive(r)
                 \/ Enter(r) \/ ReadJournal(r) \/ JournalFails(r) \/ StartRow(r)
                 \/ TurnComes(r) \/ TurnedAway(r) \/ Finish(r)
                 \/ Abort(r) \/ Drop(r)
          PROVE  UNCHANGED hearth
      BY <2>1 DEF TurnAtDoor, JournalGone, Arrive, Enter, ReadJournal,
         JournalFails, StartRow, TurnComes, TurnedAway, Finish, Abort, Drop
    <2>2. ASSUME NEW j \in Ids, Write(j) \/ GiveUpWrite(j) \/ Lapse(j)
          PROVE  UNCHANGED hearth
      BY <2>2 DEF Write, GiveUpWrite, Lapse
    <2>3. ASSUME Tick \/ Pause \/ Resume \/ Prune \/ Restart \/ Rebuild
          PROVE  UNCHANGED hearth
      BY <2>3 DEF Tick, Pause, Resume, Prune, Restart, Rebuild, Stop
    <2>4. QED
      BY <1>1, <2>1, <2>2, <2>3 DEF RelaySteps
  <1>2. CASE StoreCommand
    BY <1>2 DEF StoreCommand, Store, TypeOK
  <1>3. CASE SendUnknown
    BY <1>3 DEF SendUnknown, Send, hearth, vars
  <1>4. CASE UNCHANGED vars
    BY <1>4 DEF vars, hearth
  <1>5. QED
    BY <1>1, <1>2, <1>3, <1>4
    DEF CommandNext, CommandSteps, commandVars, NoSuchRelay, Ask, Decide,
        HearAnswer, LoseConnection, SettleUnsettled, GiveUpWaiting,
        HearthRestart

\* A step that stays with its attempt keeps what is known of the other IDs.
LEMMA SameAttempt ==
    ASSUME AnswersInv, CommandTypeOK, Tried, [CommandNext]_commandVars,
           attempt' = attempt,
           sent' # NoReq => IdOf[sent'] = attempt
    PROVE  Tried'
  <1>1. [Next]_vars
    BY CommandStepsJournal
  <1>2. ASSUME NEW i \in Ids, i < attempt PROVE ran'[i] = 0 /\ Shut(i)'
    BY <1>1, <1>2, ShutStays DEF Tried, AnswersInv
  <1>3. ASSUME NEW i \in Ids, i > attempt PROVE firstSent'[i] = -1
    <2>1. i # attempt
      BY <1>3, CommandConstants DEF CommandTypeOK
    <2>2. QED
      BY <1>3, <2>1, OthersUnsent DEF Tried, AnswersInv, JournalInv
  <1>4. QED
    BY <1>2, <1>3 DEF Tried

\* What the step said of its attempt, in terms of what it can have heard.
FitsResult(how) ==
    /\ how \in SaysDone => ended[attempt] = "succeeded"
    /\ how \in SaysNotRun => ran[attempt] = 0 /\ Shut(attempt)

\* It stays so.
LEMMA FitsResultStays ==
    ASSUME AnswersInv, CommandTypeOK, [Next]_vars, attempt' = attempt,
           NEW how, FitsResult(how)
    PROVE  FitsResult(how)'
  <1>1. attempt \in Ids
    BY DEF CommandTypeOK
  <1>2. QED
    BY <1>1, ShutStays, SuccessStays DEF FitsResult, AnswersInv

\* The step ends with what fits.
LEMMA EndKeeps ==
    ASSUME AnswersInv, CommandInv, [CommandNext]_commandVars,
           NEW how \in Results \ {"none"}, FitsResult(how), EndWith(how)
    PROVE  CommandInv'
  <1>1. [Next]_vars
    BY CommandStepsJournal DEF CommandInv
  <1>2. CommandTypeOK'
    BY DEF EndWith, CommandInv, CommandTypeOK
  <1>3. Tried'
    BY SameAttempt DEF EndWith, CommandInv
  <1>4. FitsResult(how)'
    BY <1>1, FitsResultStays DEF EndWith, CommandInv
  <1>5. Reported'
    BY <1>4 DEF Reported, EndWith, FitsResult, FitsAttempt, Went, Turned
  <1>6. QED
    BY <1>2, <1>3, <1>5 DEF CommandInv

\* The step goes on, with the attempt it had and what it heard of that.
LEMMA GoOnKeeps ==
    ASSUME AnswersInv, CommandInv, [CommandNext]_commandVars,
           CommandTypeOK', step # "ended", step' # "ended",
           UNCHANGED <<attempt, result>>,
           sent' # NoReq => IdOf[sent'] = attempt,
           (heard' # "none") = (step' = "heard"),
           heard' \in {heard, "none"} \/ FitsAttempt(heard')
    PROVE  CommandInv'
  <1>1. [Next]_vars
    BY CommandStepsJournal DEF CommandInv
  <1>2. Tried'
    BY SameAttempt DEF CommandInv
  <1>3. FitsAttempt(heard')
    BY DEF CommandInv, Reported, FitsAttempt, Went, Turned
  <1>4. FitsAttempt(heard)'
    <2>1. attempt \in Ids
      BY DEF CommandInv, CommandTypeOK
    <2>2. QED
      BY <1>1, <1>3, <2>1, ShutStays, SuccessStays DEF FitsAttempt, AnswersInv
  <1>5. result = "none" /\ result' = "none"
    BY DEF CommandInv, Reported
  <1>6. Reported'
    BY <1>4, <1>5 DEF Reported, SaysDone, SaysNotRun
  <1>7. QED
    BY <1>2, <1>6 DEF CommandInv

\* The step tries another ID only once the one it had is shut.
LEMMA AnotherIdKeeps ==
    ASSUME AnswersInv, CommandInv, [CommandNext]_commandVars, step = "heard",
           ran[attempt] = 0, Shut(attempt), UNCHANGED vars, TryAnotherId
    PROVE  CommandInv'
  <1>1. attempt \in 0..MaxWithdrawn /\ Ids = 0..MaxWithdrawn
        /\ MaxWithdrawn \in Nat
    BY CommandConstants DEF CommandInv, CommandTypeOK
  <1>2. CASE attempt >= MaxWithdrawn
    <2>1. EndWith("withdrawn")
      BY <1>2 DEF TryAnotherId
    <2>2. FitsResult("withdrawn")
      BY DEF FitsResult, SaysDone
    <2>3. QED
      BY <2>1, <2>2, EndKeeps DEF Results
  <1>3. CASE ~(attempt >= MaxWithdrawn)
    <2>1. /\ attempt' = attempt + 1
          /\ step' = "storing"
          /\ heard' = "none"
          /\ sent' = sent /\ result' = result
      BY <1>3 DEF TryAnotherId
    <2>2. sent = NoReq /\ result = "none"
      BY DEF CommandInv, CommandTypeOK, Reported
    <2>3. CommandTypeOK'
      BY <1>1, <1>3, <2>1, <2>2 DEF CommandInv, CommandTypeOK
    <2>4. ASSUME NEW i \in Ids, i < attempt' PROVE ran'[i] = 0 /\ Shut(i)'
      <3>1. i = attempt \/ i < attempt
        BY <1>1, <2>1, <2>4
      <3>2. ran[i] = 0 /\ Shut(i)
        BY <3>1 DEF CommandInv, Tried
      <3>3. QED
        BY <3>2 DEF Shut, vars, requests, disk, hearth, history
    <2>5. ASSUME NEW i \in Ids, i > attempt' PROVE firstSent'[i] = -1
      <3>1. i > attempt
        BY <1>1, <2>1, <2>5
      <3>2. QED
        BY <3>1 DEF CommandInv, Tried, vars, hearth
    <2>6. Tried'
      BY <2>1, <2>2, <2>4, <2>5 DEF Tried
    <2>7. Reported'
      BY <2>1, <2>2 DEF Reported, FitsAttempt, SaysDone, SaysNotRun, Went, Turned
    <2>8. QED
      BY <2>3, <2>6, <2>7 DEF CommandInv
  <1>4. QED
    BY <1>2, <1>3

\* The step looks the change up, again if it did before.
LEMMA AskAgainKeeps ==
    ASSUME AnswersInv, CommandInv, [CommandNext]_commandVars,
           step # "ended", AskAgain
    PROVE  CommandInv'
  <1>1. CommandTypeOK'
    BY DEF AskAgain, CommandInv, CommandTypeOK
  <1>2. QED
    BY <1>1, GoOnKeeps, JournalConstants DEF AskAgain

\* A step whose change went through ends with a reply it can't read, too.
LEMMA DecodedKeeps ==
    ASSUME AnswersInv, CommandInv, [CommandNext]_commandVars,
           ended[attempt] = "succeeded", Decoded
    PROVE  CommandInv'
  <1>1. FitsResult("reply") /\ FitsResult("unexpected")
    BY DEF FitsResult, SaysDone, SaysNotRun
  <1>2. QED
    BY <1>1, EndKeeps DEF Decoded, Results

\* The answers of a lookup: each way the step goes on keeps the invariant.
LEMMA DecideKeeps ==
    ASSUME AnswersInv, CommandInv, [CommandNext]_commandVars, Decide
    PROVE  CommandInv'
  <1>1. step = "heard" /\ heard # "unknown" /\ UNCHANGED vars
    BY DEF Decide
  <1>2. FitsAttempt(heard)
    BY DEF CommandInv, Reported
  <1>3. heard \in Lookups \cup {"none"}
    BY DEF CommandInv, CommandTypeOK
  <1>4. CASE heard = "running"
    BY <1>1, <1>4, AskAgainKeeps DEF Decide, IsWithdrawn
  <1>5. CASE heard = "reply"
    BY <1>2, <1>5, DecodedKeeps DEF Decide, IsWithdrawn, FitsAttempt, Went
  <1>6. CASE heard = "noReply"
    <2>1. ended[attempt] = "succeeded"
      BY <1>2, <1>6 DEF FitsAttempt, Went
    <2>2. \E how \in {"recovered", "unexpected", "resultGone"} : EndWith(how)
      BY <1>6, CommandConstants DEF Decide, IsWithdrawn
    <2>3. QED
      BY <2>1, <2>2, EndKeeps DEF FitsResult, SaysDone, SaysNotRun, Results
  <1>7. CASE heard = "withdrawn"
    <2>1. TryAnotherId
      BY <1>7 DEF Decide, IsWithdrawn
    <2>2. QED
      BY <1>1, <1>2, <1>7, <2>1, AnotherIdKeeps DEF FitsAttempt, Turned
  <1>8. CASE heard = "journalChanged"
    <2>1. EndWith("unknown")
      BY <1>8 DEF Decide, IsWithdrawn
    <2>2. QED
      BY <2>1, EndKeeps DEF FitsResult, SaysDone, SaysNotRun, Results
  <1>9. CASE heard \notin {"running", "reply", "noReply", "withdrawn",
                           "journalChanged"}
    <2>1. EndWith(heard)
      BY <1>9 DEF Decide, IsWithdrawn
    <2>2. heard \in Failures \cup {"interrupted", "none"}
      BY <1>1, <1>3, <1>9 DEF Lookups, Outcomes
    <2>3. FitsResult(heard)
      BY <1>2, <2>2 DEF FitsAttempt, FitsResult, SaysDone, SaysNotRun, Turned,
         Failures
    <2>4. heard # "none"
      BY <1>1 DEF CommandInv, Reported
    <2>5. QED
      BY <2>1, <2>2, <2>3, <2>4, EndKeeps DEF Results, Failures
  <1>10. QED
    BY <1>4, <1>5, <1>6, <1>7, <1>8, <1>9

\* The Relay's answer.
LEMMA AnswerKeeps ==
    ASSUME AnswersInv, CommandInv, [CommandNext]_commandVars, HearAnswer
    PROVE  CommandInv'
  <1> DEFINE a == answer[sent]
  <1>1. step = "waiting" /\ a # "none"
    BY DEF HearAnswer
  <1>2. sent \in Reqs /\ IdOf[sent] = attempt
    BY <1>1 DEF CommandInv, CommandTypeOK, Tried
  <1>3. a \in Outcomes \cup Refusals
    BY <1>1, <1>2 DEF AnswersInv, JournalInv, TypeOK
  <1>4. a \in Went => ended[attempt] = "succeeded"
    BY <1>2 DEF AnswersInv, Kept, Fits
  <1>5. a \in Turned => ran[attempt] = 0 /\ Shut(attempt)
    BY <1>2 DEF AnswersInv, Kept, Fits
  <1>6. CASE a = "reply"
    BY <1>4, <1>6, DecodedKeeps DEF HearAnswer, Went
  <1>7. CASE a = "noReply"
    <2>1. EndWith("resultGone")
      BY <1>7 DEF HearAnswer
    <2>2. FitsResult("resultGone")
      BY <1>4, <1>7 DEF FitsResult, SaysNotRun, Went
    <2>3. QED
      BY <2>1, <2>2, EndKeeps DEF Results
  <1>8. CASE a \in {"withdrawn", "paused", "pausedNow", "busy"}
    BY <1>1, <1>8, AskAgainKeeps DEF HearAnswer
  <1>9. CASE a \in {"door", "journalChanged", "conflict", "cancelled"}
    <2>1. AskAgain \/ \E how \in {"unexpected", "unknown"} : EndWith(how)
      BY <1>9 DEF HearAnswer
    <2>2. \A how \in {"unexpected", "unknown"} :
              FitsResult(how) /\ how \in Results \ {"none"}
      BY DEF FitsResult, SaysDone, SaysNotRun, Results
    <2>3. QED
      BY <1>1, <2>1, <2>2, AskAgainKeeps, EndKeeps
  <1>10. CASE a \in {"failed", "interrupted", "refused"}
    <2>1. EndWith(a)
      BY <1>10 DEF HearAnswer
    <2>2. FitsResult(a)
      BY <1>5, <1>10 DEF FitsResult, SaysDone, SaysNotRun, Turned
    <2>3. a \in Results \ {"none"}
      BY <1>10 DEF Results, Failures
    <2>4. QED
      BY <2>1, <2>2, <2>3, EndKeeps
  <1>11. QED
    BY <1>3, <1>6, <1>7, <1>8, <1>9, <1>10 DEF Outcomes, Failures, Refusals

\* What the connection, back again, learns of a change it lost.
LEMMA SettledCommandKeeps ==
    ASSUME AnswersInv, CommandInv, [CommandNext]_commandVars, SettleUnsettled
    PROVE  CommandInv'
  <1> DEFINE outcome == Answered(attempt)
  <1>1. step = "unsettled" /\ outcome # "running"
    BY DEF SettleUnsettled
  <1>2. FitsAttempt(outcome)
    BY LookupFits DEF CommandInv, CommandTypeOK
  <1> HIDE DEF outcome
  <1>3. \/ outcome = "reply" /\ Decoded
        \/ outcome = "noReply" /\ EndWith("resultGone")
        \/ outcome \in {"failed", "refused"} /\ EndWith(outcome)
        \/ AskAgain
    BY DEF SettleUnsettled, outcome
  <1>4. CASE outcome = "reply" /\ Decoded
    BY <1>2, <1>4, DecodedKeeps DEF FitsAttempt, Went
  <1>5. CASE outcome = "noReply" /\ EndWith("resultGone")
    <2>1. FitsResult("resultGone")
      BY <1>2, <1>5 DEF FitsAttempt, FitsResult, SaysNotRun, Went
    <2>2. QED
      BY <1>5, <2>1, EndKeeps DEF Results
  <1>6. CASE outcome \in {"failed", "refused"} /\ EndWith(outcome)
    <2>1. FitsResult(outcome)
      BY <1>2, <1>6 DEF FitsAttempt, FitsResult, SaysDone, SaysNotRun, Turned
    <2>2. outcome \in Results \ {"none"}
      BY <1>6 DEF Results, Failures
    <2>3. QED
      BY <1>6, <2>1, <2>2, EndKeeps
  <1>7. CASE AskAgain
    BY <1>1, <1>7, AskAgainKeeps
  <1>8. QED
    BY <1>3, <1>4, <1>5, <1>6, <1>7

\* Every step of the command keeps its invariant.
LEMMA CommandKeeps ==
    ASSUME AnswersInv, CommandInv, [CommandNext]_commandVars
    PROVE  CommandInv'
  <1> USE DEF CommandInv, CommandTypeOK
  <1>1. CASE UNCHANGED command
    <2>1. CommandTypeOK'
      BY <1>1 DEF command
    <2>2. [Next]_vars /\ Tried'
      BY <1>1, CommandStepsJournal, SameAttempt DEF command, Tried
    <2>3. FitsResult(result)'
      BY <1>1, <2>2, FitsResultStays DEF command, FitsResult, Reported
    <2>4. FitsAttempt(heard)'
      BY <1>1, <2>2, ShutStays, SuccessStays
         DEF command, FitsAttempt, Reported, AnswersInv
    <2>5. Reported'
      BY <1>1, <2>3, <2>4 DEF command, Reported, FitsResult
    <2>6. QED
      BY <2>1, <2>2, <2>5
  <1>2. CASE StoreCommand
    <2>1. CommandTypeOK'
      BY <1>2 DEF StoreCommand
    <2>2. QED
      BY <1>2, <2>1, GoOnKeeps DEF StoreCommand, Reported
  <1>3. CASE NoSuchRelay
    <2>1. FitsResult("unexpected")
      BY DEF FitsResult, SaysDone, SaysNotRun
    <2>2. QED
      BY <1>3, <2>1, EndKeeps DEF NoSuchRelay, Results
  <1>4. CASE Ask
    <2>1. FitsAttempt(Answered(attempt)) /\ Answered(attempt) \in Lookups
      BY LookupFits
    <2>2. CommandTypeOK'
      BY <1>4, <2>1 DEF Ask
    <2>3. "none" \notin Lookups
      BY DEF Lookups, Outcomes, Failures
    <2>4. QED
      BY <1>4, <2>1, <2>2, <2>3, GoOnKeeps DEF Ask
  <1>5. CASE SendUnknown
    <2>1. CASE EndWith("unknown")
      <3>1. FitsResult("unknown")
        BY DEF FitsResult, SaysDone, SaysNotRun
      <3>2. QED
        BY <2>1, <3>1, EndKeeps DEF Results
    <2>2. CASE ~EndWith("unknown")
      <3>1. PICK r \in Reqs :
                /\ IdOf[r] = attempt /\ sent' = r
                /\ step = "heard" /\ step' = "waiting" /\ heard' = "none"
                /\ UNCHANGED <<attempt, result>>
        BY <1>5, <2>2 DEF SendUnknown
      <3>2. CommandTypeOK'
        BY <3>1, JournalConstants
      <3>3. QED
        BY <3>1, <3>2, GoOnKeeps
    <2>3. QED
      BY <2>1, <2>2
  <1>6. CASE Decide
    BY <1>6, DecideKeeps
  <1>7. CASE HearAnswer
    BY <1>7, AnswerKeeps
  <1>8. CASE LoseConnection
    <2>1. CommandTypeOK'
      BY <1>8 DEF LoseConnection
    <2>2. QED
      BY <1>8, <2>1, GoOnKeeps DEF LoseConnection, Reported, Tried
  <1>9. CASE SettleUnsettled
    BY <1>9, SettledCommandKeeps
  <1>10. CASE GiveUpWaiting \/ HearthRestart
    BY <1>10, AskAgainKeeps DEF GiveUpWaiting, HearthRestart
  <1>11. QED
    BY <1>1, <1>2, <1>3, <1>4, <1>5, <1>6, <1>7, <1>8, <1>9, <1>10
    DEF CommandNext, CommandSteps, commandVars

\* The invariant holds before the step is run.
LEMMA CommandStarts == CommandInit => CommandInv
  <1> SUFFICES ASSUME CommandInit PROVE CommandInv
    OBVIOUS
  <1>1. CommandTypeOK
    BY CommandConstants DEF CommandInit, CommandTypeOK, Results
  <1>2. Tried
    BY CommandConstants DEF CommandInit, Init, Tried
  <1>3. Reported
    BY DEF CommandInit, Reported, FitsAttempt, Went, Turned, SaysDone, SaysNotRun
  <1>4. QED
    BY <1>1, <1>2, <1>3 DEF CommandInv

\* The Relay under the command is the Relay of the journal.
LEMMA CommandInvariant ==
    CommandSpec => []AnswersInv /\ [][Next]_vars /\ []CommandInv
  <1>1. CommandInit => Init /\ AnswersInv /\ CommandInv
    BY InitEstablishesInv, InitKept, CommandStarts DEF CommandInit, AnswersInv
  <1>2. ASSUME AnswersInv, CommandInv, [CommandNext]_commandVars
        PROVE  [Next]_vars /\ AnswersInv' /\ CommandInv'
    BY <1>2, CommandStepsJournal, AnswersStep, CommandKeeps DEF CommandInv
  <1>3. QED
    BY <1>1, <1>2, PTL DEF CommandSpec

\* Only the attempt's own ID can be one the change was made under.
LEMMA OthersNeverRan ==
    ASSUME AnswersInv, CommandInv, NEW i \in Ids, i # attempt
    PROVE  ran[i] = 0 /\ ended[i] = "none"
  <1>1. i < attempt \/ i > attempt
    BY CommandConstants DEF CommandInv, CommandTypeOK
  <1>2. ran[i] = 0
    BY <1>1 DEF CommandInv, Tried, AnswersInv, JournalInv, Core, Addressed
  <1>3. QED
    BY <1>2 DEF AnswersInv, Lived, JournalInv, TypeOK

-----------------------------------------------------------------------------
\* What a step relies on of the Relay is what the journal promises: as far as
\* the Relay goes, a command is one more behaviour of it.
THEOREM CommandRefinesJournal == CommandSpec => Spec
  <1>1. CommandInit => Init
    BY DEF CommandInit
  <1>2. QED
    BY <1>1, CommandInvariant, PTL DEF CommandSpec, Spec

\* The step remembers a request only while it waits for one, and never tries
\* more IDs than MAX_WITHDRAWN allows (relayCommand).
THEOREM CommandTyped == CommandSpec => []CommandTypeOK
  <1>1. CommandInv => CommandTypeOK
    BY DEF CommandInv
  <1>2. QED
    BY <1>1, CommandInvariant, PTL

\* A step that says its change went through is right, and one that says it
\* never ran is right for good (settle, #settleUnsettled).
THEOREM ReportsAreTrue == CommandSpec => []ReportsTrue
  <1>1. ASSUME AnswersInv, CommandInv PROVE ReportsTrue
    <2>1. attempt \in Ids
      BY <1>1 DEF CommandInv, CommandTypeOK
    <2>2. QED
      BY <1>1, <2>1, OthersNeverRan DEF ReportsTrue, CommandInv, Reported
  <1>2. QED
    BY <1>1, CommandInvariant, PTL

\* The change is made under one ID, and once under it (relayCommand).
THEOREM CommandMadeOnce == CommandSpec => []CommandOnce
  <1>1. ASSUME AnswersInv, CommandInv PROVE CommandOnce
    <2>1. NeverTwice
      BY <1>1 DEF AnswersInv, JournalInv, Core, Once
    <2>2. QED
      BY <1>1, <2>1, OthersNeverRan DEF CommandOnce
  <1>2. QED
    BY <1>1, CommandInvariant, PTL

-----------------------------------------------------------------------------
(***************************************************************************)
(* The refinement of CommandContract: the change of the attempt is all     *)
(* that is ever made, and it isn't made once it was said not to have run.  *)
(***************************************************************************)
\* How far the change has got, read off the attempt's ID.
MadeOfAttempt ==
    /\ Made \in {"no", "begun", "succeeded", "failed"}
    /\ Made = "succeeded" <=> ended[attempt] = "succeeded"
    /\ Made = "failed" <=> ended[attempt] = "failed"
    /\ Made = "no" <=> ran[attempt] = 0

\* Only the change of its attempt can have been made.
LEMMA MadeIsOfAttempt ==
    ASSUME AnswersInv, CommandInv
    PROVE  MadeOfAttempt
  <1>1. attempt \in Ids
    BY DEF CommandInv, CommandTypeOK
  <1>2. CommandOnce
    BY OthersNeverRan DEF CommandOnce, AnswersInv, JournalInv, Core, Once
  <1>3. ran[attempt] \in Nat
    BY <1>1 DEF AnswersInv, JournalInv, TypeOK
  <1>4. (\E i \in Ids : ended[i] = "succeeded") <=> ended[attempt] = "succeeded"
    BY <1>1, OthersNeverRan
  <1>5. (\E i \in Ids : ended[i] = "failed") <=> ended[attempt] = "failed"
    BY <1>1, OthersNeverRan
  <1>6. (\E i \in Ids : ran[i] > 0) <=> ran[attempt] # 0
    BY <1>1, <1>3, OthersNeverRan
  <1>7. ended[attempt] # "none" => ran[attempt] # 0
    BY <1>1 DEF AnswersInv, Lived
  <1>8. QED
    BY <1>2, <1>4, <1>5, <1>6, <1>7 DEF Made, MadeOfAttempt

\* The attempt's change moves only forward, and only while nothing was said
\* of it that rules it out.
LEMMA MadeMoves ==
    ASSUME AnswersInv, CommandInv, [Next]_vars, UNCHANGED command,
           MadeOfAttempt, MadeOfAttempt'
    PROVE  \/ Made' = Made
           \/ /\ Made = "no" /\ Made' = "begun"
              /\ result \notin SaysNotRun
           \/ Made = "begun" /\ Made' \in {"succeeded", "failed"}
  <1>1. attempt \in Ids /\ attempt' = attempt
    BY DEF CommandInv, CommandTypeOK, command
  <1>2. CASE UNCHANGED history
    BY <1>1, <1>2 DEF MadeOfAttempt, history
  <1>3. CASE \E r \in Reqs : TurnComes(r)
    <2>1. PICK r \in Reqs : TurnComes(r)
      BY <1>3
    <2>2. IdOf[r] \in Ids /\ ran \in [Ids -> Nat] /\ ended' = ended
          /\ ran' = [ran EXCEPT ![IdOf[r]] = @ + 1]
      BY <2>1, JournalConstants DEF TurnComes, AnswersInv, JournalInv, TypeOK
    <2>3. CASE IdOf[r] # attempt
      BY <1>1, <2>2, <2>3 DEF MadeOfAttempt
    <2>4. CASE IdOf[r] = attempt
      <3>1. stage[r] = "queued"
        BY <2>1 DEF TurnComes
      <3>2. ran[attempt] = 0
        BY <2>4, <3>1 DEF AnswersInv, JournalInv, Core, Once
      <3>3. ended[attempt] = "none"
        BY <1>1, <3>2 DEF AnswersInv, Lived, JournalInv, TypeOK
      <3>4. result \notin SaysNotRun
        BY <2>4, <3>1 DEF CommandInv, Reported, Shut
      <3>5. QED
        BY <1>1, <2>2, <2>4, <3>2, <3>3, <3>4 DEF MadeOfAttempt
    <2>5. QED
      BY <2>3, <2>4
  <1>4. CASE \E r \in Reqs : Finish(r)
    <2>1. PICK r \in Reqs : Finish(r)
      BY <1>4
    <2>2. /\ ran' = ran
          /\ \E how \in {"succeeded", "failed"} :
                 ended' = [ended EXCEPT ![IdOf[r]] = how]
      BY <2>1 DEF Finish
    <2>3. /\ ran[IdOf[r]] # 0 /\ ended[IdOf[r]] = "none"
          /\ ended \in [Ids -> {"none", "succeeded", "failed"}]
      BY <2>1 DEF Finish, AnswersInv, Lived, JournalInv, TypeOK
    <2>4. IdOf[r] = attempt
      BY <2>3, OthersNeverRan, JournalConstants
    <2>5. QED
      BY <1>1, <2>2, <2>3, <2>4 DEF MadeOfAttempt
  <1>5. QED
    BY <1>2, <1>3, <1>4, HistoryMoves

\* A step of the command makes nothing, and says only once how it went.
LEMMA CommandSays ==
    ASSUME AnswersInv, CommandInv, CommandInv', CommandSteps,
           MadeOfAttempt, MadeOfAttempt'
    PROVE  /\ Made' = Made
           /\ result' = result \/ result = "none"
  <1>1. ran' = ran /\ ended' = ended
    BY DEF CommandSteps, StoreCommand, Store, SendUnknown, Send, NoSuchRelay,
       Ask, Decide, HearAnswer, LoseConnection, SettleUnsettled, GiveUpWaiting,
       HearthRestart, history, vars
  <1>2. ASSUME attempt' = attempt PROVE Made' = Made
    BY <1>1, <1>2 DEF MadeOfAttempt
  <1>3. ASSUME attempt' # attempt PROVE Made' = Made
    <2>1. attempt \in Ids /\ attempt' \in Ids
      BY DEF CommandInv, CommandTypeOK
    <2>2. ran[attempt'] = 0
      BY <1>3, <2>1, OthersNeverRan
    <2>3. attempt < attempt'
      BY <1>3, <2>1, CommandConstants DEF CommandSteps, StoreCommand, SendUnknown, NoSuchRelay, Ask,
         Decide, HearAnswer, LoseConnection, SettleUnsettled, GiveUpWaiting,
         HearthRestart, EndWith, AskAgain, Decoded, TryAnotherId
    <2>4. ran'[attempt] = 0
      BY <2>1, <2>3 DEF CommandInv, Tried
    <2>5. QED
      BY <1>1, <2>2, <2>4 DEF MadeOfAttempt
  <1>4. result' = result \/ result = "none"
    <2>1. step # "ended"
      BY DEF CommandSteps, StoreCommand, SendUnknown, NoSuchRelay, Ask,
         Decide, HearAnswer, LoseConnection, SettleUnsettled, GiveUpWaiting,
         HearthRestart
    <2>2. QED
      BY <2>1 DEF CommandInv, Reported
  <1>5. QED
    BY <1>2, <1>3, <1>4

\* The step, the connection and the Relay together do what durable operations
\* rely on (the comment of relayCommand).
THEOREM CommandImplementsContract == CommandSpec => ImplementsOnce
  <1>1. ASSUME CommandInit, AnswersInv, CommandInv PROVE Contract!OnceInit
    <2>1. MadeOfAttempt
      BY <1>1, MadeIsOfAttempt
    <2>2. Made = "no"
      BY <1>1, <2>1 DEF MadeOfAttempt, CommandInit, Init, CommandInv, CommandTypeOK
    <2>3. ToldOf(result) = "nothing"
      BY <1>1 DEF CommandInit, ToldOf
    <2>4. QED
      BY <2>2, <2>3 DEF Contract!OnceInit
  <1>2. ASSUME AnswersInv, CommandInv, CommandInv', MadeOfAttempt,
               MadeOfAttempt', [Next]_vars, [CommandNext]_commandVars
        PROVE  [Contract!OnceNext]_Contract!onceVars
    <2> USE DEF Contract!OnceNext, Contract!onceVars
    <2>1. CASE UNCHANGED command
      <3>1. result' = result
        BY <2>1 DEF command
      <3>2. ToldOf(result)' = ToldOf(result)
        BY <3>1
      <3>3. ToldOf(result) = "notRun" => result \in SaysNotRun
        BY DEF ToldOf
      <3>4. QED
        BY <1>2, <2>1, <3>2, <3>3, MadeMoves
           DEF Contract!Begin, Contract!Complete
    <2>2. CASE CommandSteps
      <3>1. Made' = Made /\ (result' = result \/ result = "none")
        BY <1>2, <2>2, CommandSays
      <3>2. CASE result' = result
        BY <3>1, <3>2
      <3>3. CASE result = "none" /\ result' # "none"
        <4>1. ToldOf(result) = "nothing"
          BY <3>3 DEF ToldOf
        <4>2. /\ ToldOf(result)' \in {"succeeded", "notRun", "trouble"}
              /\ ToldOf(result)' = "succeeded" => result' \in SaysDone
              /\ ToldOf(result)' = "notRun" => result' \in SaysNotRun
          BY <3>3 DEF ToldOf
        <4>3. /\ result' \in SaysDone => Made' = "succeeded"
              /\ result' \in SaysNotRun => Made' = "no"
          BY <1>2 DEF CommandInv, Reported, MadeOfAttempt
        <4>4. QED
          BY <3>1, <4>1, <4>2, <4>3 DEF Contract!Tell
      <3>4. QED
        BY <3>1, <3>2, <3>3
    <2>3. QED
      BY <1>2, <2>1, <2>2 DEF CommandNext, commandVars
  <1>3. AnswersInv /\ CommandInv => MadeOfAttempt
    BY MadeIsOfAttempt
  <1>4. QED
    BY <1>1, <1>2, <1>3, CommandInvariant, PTL
    DEF ImplementsOnce, Contract!OnceSpec, CommandSpec
=============================================================================
