--------------------------- MODULE PauseHoldsProofs ---------------------------
(***************************************************************************)
(* Proofs about pausing a Relay, for any number of Hearths, changes,       *)
(* writes on their way, faults and statements that fail.                   *)
(*                                                                         *)
(* PausedMatchesHolds is not inductive: it needs that the newest read of   *)
(* the holds is the one that will stand (Newest), which rests on every     *)
(* read being of a request of its own (OwnReads).  ToldIsHeld is not       *)
(* either: it rests on what a Hearth's writes, the one it waits for and    *)
(* those it gave up, will still change (Believes, Awaits).                 *)
(***************************************************************************)
EXTENDS PauseHolds, TLAPS, SequenceTheorems

\* Each read is of a request of its own, and a revocation is made once.
OwnReads ==
    /\ \A i \in DOMAIN reads : serving[reads[i].for] = "read"
    /\ \A i, k \in DOMAIN reads : reads[i].for = reads[k].for => i = k
    /\ \A h \in Hearths \ revoked : serving[<<h, "revoke">>] = "idle"

\* Once every hold that was stored has been read, and the last read didn't fail,
\* the newest read, or with none left the lanes, match the holds.
Newest ==
    ~misread /\ (\A q \in Requests : serving[q] # "stored") =>
        IF reads = <<>> THEN paused = (holds # {})
        ELSE reads[Len(reads)].paused = (holds # {})

\* What a Hearth believes the Relay took is what it wants, what the Relay
\* holds, and what every write on its way says.
Believes ==
    \A h \in Hearths \ revoked : told[h] # "none" =>
        /\ told[h] = Word(wants[h])
        /\ told[h] = Word(h \in holds)
        /\ \A i \in DOMAIN wire[h] : wire[h][i] = told[h]

\* The write a Hearth waits for is the last on its way, or was taken and
\* nothing came after it.
Awaits ==
    \A h \in Hearths \ revoked : pending[h] # "none" =>
        IF wire[h] = <<>> THEN pending[h] = Word(h \in holds)
        ELSE wire[h][Len(wire[h])] = pending[h]

PauseInv ==
    PauseTypeOK /\ NoOrphanHold /\ OwnReads /\ Newest /\ Believes /\ Awaits

-----------------------------------------------------------------------------
(***************************************************************************)
(* What sequences keep.                                                    *)
(***************************************************************************)

\* Taking the first out leaves the tail.
LEMMA FirstRemoved ==
    ASSUME NEW S, NEW s \in Seq(S), s # <<>>
    PROVE  RemoveAt(s, 1) = Tail(s)
  <1>1. Len(s) \in Nat /\ Len(s) > 0
    OBVIOUS
  <1>2. SubSeq(s, 1, 0) = <<>>
    BY <1>1
  <1>3. SubSeq(s, 2, Len(s)) = Tail(s) /\ Tail(s) \in Seq(S)
    BY <1>1
  <1>4. QED
    BY <1>2, <1>3 DEF RemoveAt

\* What is left of a sequence without its first element ends as it did.
LEMMA TailKeeps ==
    ASSUME NEW S, NEW s \in Seq(S), s # <<>>
    PROVE  /\ Tail(s) \in Seq(S)
           /\ DOMAIN Tail(s) = 1..(Len(s) - 1)
           /\ \A i \in DOMAIN Tail(s) : i + 1 \in DOMAIN s /\ Tail(s)[i] = s[i + 1]
           /\ Tail(s) # <<>> => Tail(s)[Len(Tail(s))] = s[Len(s)]
           /\ Tail(s) = <<>> => Head(s) = s[Len(s)] /\ Len(s) = 1
  <1>1. /\ Tail(s) \in Seq(S) /\ Len(Tail(s)) = Len(s) - 1
        /\ Len(s) \in Nat /\ Len(s) > 0
        /\ \A i \in 1..(Len(s) - 1) : Tail(s)[i] = s[i + 1]
    OBVIOUS
  <1>2. DOMAIN Tail(s) = 1..(Len(s) - 1) /\ DOMAIN s = 1..Len(s)
    BY <1>1
  <1>3. ASSUME Tail(s) # <<>>
        PROVE  Tail(s)[Len(Tail(s))] = s[Len(s)]
    <2>1. Len(Tail(s)) > 0
      BY <1>1, <1>3
    <2>2. QED
      BY <1>1, <2>1
  <1>4. ASSUME Tail(s) = <<>>
        PROVE  Head(s) = s[Len(s)] /\ Len(s) = 1
    <2>1. Len(Tail(s)) = 0
      BY <1>4, EmptySeq
    <2>2. Len(s) - 1 = 0
      BY <1>1, <2>1, Zenon
    <2>3. Len(s) \in Nat
      OBVIOUS
    <2>4. Len(s) = 1
      BY <2>2, <2>3
    <2>5. QED
      BY <2>4
  <1>5. QED
    BY <1>1, <1>2, <1>3, <1>4

\* What is added to a sequence is its last.
LEMMA AppendKeeps ==
    ASSUME NEW S, NEW s \in Seq(S), NEW e \in S
    PROVE  /\ Append(s, e) \in Seq(S)
           /\ Append(s, e) # <<>>
           /\ Len(Append(s, e)) = Len(s) + 1
           /\ DOMAIN Append(s, e) = 1..(Len(s) + 1)
           /\ DOMAIN s = 1..Len(s) /\ Len(s) \in Nat
           /\ \A i \in DOMAIN s : Append(s, e)[i] = s[i]
           /\ Append(s, e)[Len(s) + 1] = e
  <1>1. /\ Append(s, e) \in Seq(S) /\ Len(Append(s, e)) = Len(s) + 1
        /\ Len(s) \in Nat
        /\ \A i \in 1..Len(s) : Append(s, e)[i] = s[i]
        /\ Append(s, e)[Len(s) + 1] = e
    BY AppendProperties
  <1>2. DOMAIN Append(s, e) = 1..(Len(s) + 1) /\ DOMAIN s = 1..Len(s)
    BY <1>1
  <1>3. Append(s, e) # <<>>
    BY <1>1
  <1>4. QED
    BY <1>1, <1>2, <1>3

\* The same, as a line of writes is read.
LEMMA AppendEnds ==
    ASSUME NEW S, NEW s \in Seq(S), NEW e \in S
    PROVE  /\ Append(s, e) # <<>>
           /\ Append(s, e)[Len(Append(s, e))] = e
           /\ \A i \in DOMAIN Append(s, e) :
                  i \in DOMAIN s \/ Append(s, e)[i] = e
           /\ \A i \in DOMAIN s : Append(s, e)[i] = s[i]
  <1>1. /\ Append(s, e) # <<>>
        /\ Len(Append(s, e)) = Len(s) + 1 /\ Len(s) \in Nat
        /\ DOMAIN Append(s, e) = 1..(Len(s) + 1)
        /\ DOMAIN s = 1..Len(s)
        /\ \A i \in DOMAIN s : Append(s, e)[i] = s[i]
        /\ Append(s, e)[Len(s) + 1] = e
    BY AppendKeeps
  <1>2. QED
    BY <1>1

\* Every read is for a request.
LEMMA ReadsTyped ==
    ASSUME PauseTypeOK
    PROVE  \A i \in DOMAIN reads :
               reads[i].for \in Requests /\ reads[i].paused \in BOOLEAN
  <1>1. \A i \in 1..Len(reads) : reads[i] \in [for : Requests, paused : BOOLEAN]
    BY ElementOfSeq DEF PauseTypeOK
  <1>2. DOMAIN reads = 1..Len(reads)
    BY DEF PauseTypeOK
  <1>3. QED
    BY <1>1, <1>2

\* The reads stay their requests' own while no request that is being read
\* moves, and no Hearth is revoked.
LEMMA OwnReadsKept ==
    ASSUME PauseInv, reads' = reads,
           \A q \in Requests : serving[q] = "read" => serving'[q] = "read",
           \A h \in Hearths \ revoked' :
               /\ h \notin revoked
               /\ serving'[<<h, "revoke">>] = serving[<<h, "revoke">>]
    PROVE  OwnReads'
  <1>1. \A i \in DOMAIN reads : reads[i].for \in Requests
    BY ReadsTyped DEF PauseInv
  <1>2. QED
    BY <1>1 DEF PauseInv, OwnReads

-----------------------------------------------------------------------------
\* The invariant holds before anything is paused.
LEMMA InitPauseInv == Init => PauseInv
  <1> SUFFICES ASSUME Init PROVE PauseInv
    OBVIOUS
  <1> USE PauseConstants DEF Init
  <1>1. PauseTypeOK
    <2>1. changes \in 0..MaxChanges /\ faults \in 0..MaxFaults /\ errors \in 0..MaxErrors
      OBVIOUS
    <2>2. /\ wire \in [Hearths -> Seq({"paused", "resumed"})]
          /\ reads \in Seq([for : Requests, paused : BOOLEAN])
      OBVIOUS
    <2>3. QED
      BY <2>1, <2>2 DEF PauseTypeOK
  <1>2. NoOrphanHold /\ Newest
    BY DEF NoOrphanHold, Newest
  <1>3. OwnReads
    <2>1. DOMAIN reads = {}
      OBVIOUS
    <2>2. \A h \in Hearths : <<h, "revoke">> \in Requests
      BY DEF Requests
    <2>3. QED
      BY <2>1, <2>2 DEF OwnReads
  <1>4. Believes /\ Awaits
    BY DEF Believes, Awaits
  <1>5. QED
    BY <1>1, <1>2, <1>3, <1>4 DEF PauseInv

-----------------------------------------------------------------------------
\* Every step keeps the invariant.
LEMMA StepPauseInv == PauseInv /\ [Next]_vars => PauseInv'
  <1> SUFFICES ASSUME PauseInv, [Next]_vars PROVE PauseInv'
    OBVIOUS
  <1> USE PauseConstants DEF PauseInv, hearthVars, relayVars
  <1>1. ASSUME NEW h \in Hearths, NEW p \in BOOLEAN, SetEnabled(h, p)
        PROVE  PauseInv'
    <2> USE <1>1 DEF SetEnabled
    <2>1. PauseTypeOK'
      BY DEF PauseTypeOK
    <2>2. NoOrphanHold' /\ OwnReads' /\ Newest' /\ Believes' /\ Awaits'
      BY DEF NoOrphanHold, OwnReads, Newest, Believes, Awaits
    <2>3. QED
      BY <2>1, <2>2
  <1>2. ASSUME NEW h \in Hearths, HoldPaused(h) PROVE PauseInv'
    <2> USE <1>2 DEF HoldPaused
    <2>1. PauseTypeOK'
      BY DEF PauseTypeOK
    <2>2. NoOrphanHold' /\ OwnReads' /\ Newest'
      BY DEF NoOrphanHold, OwnReads, Newest
    <2>3. Believes' /\ Awaits'
      BY DEF PauseTypeOK, Believes, Awaits, Word
    <2>4. QED
      BY <2>1, <2>2, <2>3
  <1>3. ASSUME NEW h \in Hearths, CallFails(h) PROVE PauseInv'
    <2> USE <1>3 DEF CallFails
    <2>1. PauseTypeOK'
      BY DEF PauseTypeOK
    <2>2. NoOrphanHold' /\ OwnReads' /\ Newest' /\ Believes' /\ Awaits'
      BY DEF NoOrphanHold, OwnReads, Newest, Believes, Awaits
    <2>3. QED
      BY <2>1, <2>2
  <1>4. ASSUME NEW h \in Hearths, Connect(h) PROVE PauseInv'
    <2> USE <1>4 DEF Connect
    <2>1. PauseTypeOK'
      BY DEF PauseTypeOK, Word, Requests
    <2>2. NoOrphanHold' /\ OwnReads' /\ Newest'
      BY DEF NoOrphanHold, OwnReads, Newest
    <2>3. Believes' /\ Awaits'
      BY DEF PauseTypeOK, Believes, Awaits, Word
    <2>4. QED
      BY <2>1, <2>2, <2>3
  <1>5. ASSUME NEW h \in Hearths, Tell(h) PROVE PauseInv'
    <2> USE <1>5 DEF Tell
    <2>0. /\ Word(wants[h]) \in {"paused", "resumed"}
          /\ wire[h] \in Seq({"paused", "resumed"})
      BY DEF PauseTypeOK, Word
    <2>1. PauseTypeOK'
      BY <2>0, AppendKeeps DEF PauseTypeOK
    <2>2. NoOrphanHold' /\ OwnReads' /\ Newest'
      BY DEF NoOrphanHold, OwnReads, Newest
    <2> DEFINE w == Append(wire[h], Word(wants[h]))
    <2>3. /\ w # <<>> /\ w[Len(w)] = Word(wants[h])
          /\ \A i \in DOMAIN w : i \in DOMAIN wire[h] \/ w[i] = Word(wants[h])
          /\ \A i \in DOMAIN wire[h] : w[i] = wire[h][i]
      <3> HIDE <1>5
      <3>1. ASSUME NEW s \in Seq({"paused", "resumed"}),
                   NEW e \in {"paused", "resumed"}
            PROVE  /\ Append(s, e) # <<>>
                   /\ Append(s, e)[Len(Append(s, e))] = e
                   /\ \A i \in DOMAIN Append(s, e) :
                          i \in DOMAIN s \/ Append(s, e)[i] = e
                   /\ \A i \in DOMAIN s : Append(s, e)[i] = s[i]
        BY AppendEnds
      <3>2. QED
        BY <2>0, <3>1
    <2>4. wire' = [wire EXCEPT ![h] = w]
      OBVIOUS
    <2> HIDE DEF w
    <2>5. Believes'
      BY <2>3, <2>4 DEF PauseTypeOK, Believes
    <2>6. Awaits'
      BY <2>3, <2>4 DEF PauseTypeOK, Awaits
    <2>7. QED
      BY <2>1, <2>2, <2>3, <2>4, <2>5, <2>6
  <1>6. ASSUME NEW h \in Hearths, HearAnswer(h) PROVE PauseInv'
    <2> USE <1>6 DEF HearAnswer, Heard
    <2>0. <<h, "write">> \in Requests
      BY DEF Requests
    <2>1. PauseTypeOK'
      BY <2>0 DEF PauseTypeOK, Word
    <2>2. NoOrphanHold'
      BY DEF NoOrphanHold
    <2>3. OwnReads'
      BY <2>0, OwnReadsKept DEF PauseTypeOK, Requests
    <2>4. Newest'
      BY <2>0 DEF PauseTypeOK, Newest
    <2>5. Believes'
      <3>1. ASSUME NEW k \in Hearths \ {h}
            PROVE  told'[k] = told[k]
        BY DEF PauseTypeOK
      <3>2. CASE serving[<<h, "write">>] = "done" /\ pending[h] = Word(wants[h])
        <4>1. told'[h] = pending[h] /\ pending[h] # "none" /\ wire[h] = <<>>
          BY <3>2 DEF PauseTypeOK
        <4>2. h \notin revoked => pending[h] = Word(h \in holds)
          BY <4>1 DEF Awaits
        <4>3. QED
          BY <3>1, <3>2, <4>1, <4>2 DEF Believes
      <3>3. CASE ~(serving[<<h, "write">>] = "done" /\ pending[h] = Word(wants[h]))
        <4>1. told'[h] \in {told[h], "none"}
          BY <3>3 DEF PauseTypeOK
        <4>2. QED
          BY <3>1, <4>1 DEF Believes
      <3>4. QED
        BY <3>2, <3>3
    <2>6. Awaits'
      BY DEF PauseTypeOK, Awaits, Word
    <2>7. QED
      BY <2>1, <2>2, <2>3, <2>4, <2>5, <2>6
  <1>7. ASSUME NEW h \in Hearths, TellTimesOut(h) PROVE PauseInv'
    <2> USE <1>7 DEF TellTimesOut, Heard
    <2>1. PauseTypeOK'
      BY DEF PauseTypeOK, Word, Requests
    <2>2. NoOrphanHold' /\ OwnReads' /\ Newest'
      BY DEF NoOrphanHold, OwnReads, Newest
    <2>3. Believes' /\ Awaits'
      BY DEF PauseTypeOK, Believes, Awaits, Word
    <2>4. QED
      BY <2>1, <2>2, <2>3
  <1>8. ASSUME NEW h \in Hearths, Disconnect(h) PROVE PauseInv'
    <2> USE <1>8 DEF Disconnect, Heard
    <2>0. /\ told' \in [Hearths -> {"none", "paused", "resumed"}]
          /\ pending' \in [Hearths -> {"none", "paused", "resumed"}]
          /\ \A k \in Hearths : told'[k] \in {told[k], "none"}
          /\ \A k \in Hearths : pending'[k] \in {pending[k], "none"}
          /\ wire[h] # <<>> => pending'[h] = "none"
      BY DEF PauseTypeOK
    <2>1. PauseTypeOK'
      <3>1. /\ conn' \in [Hearths -> BOOLEAN]
            /\ wire' \in [Hearths -> Seq({"paused", "resumed"})]
            /\ faults' \in 0..MaxFaults
        BY DEF PauseTypeOK
      <3>2. UNCHANGED <<enabled, calls, untold, wants, owes, reports, relayVars,
                        changes, errors>>
        OBVIOUS
      <3> HIDE <1>8
      <3>3. QED
        BY <2>0, <3>1, <3>2 DEF PauseTypeOK
    <2>2. NoOrphanHold' /\ OwnReads' /\ Newest'
      BY DEF NoOrphanHold, OwnReads, Newest
    <2>3. Believes' /\ Awaits'
      <3>1. /\ wire'[h] = <<>>
            /\ \A k \in Hearths \ {h} :
                   wire'[k] = wire[k] /\ told'[k] = told[k] /\ pending'[k] = pending[k]
            /\ UNCHANGED <<wants, holds, revoked>>
        BY DEF PauseTypeOK
      <3> HIDE <1>8
      <3>2. Believes'
        BY <2>0, <3>1 DEF Believes
      <3>3. Awaits'
        BY <2>0, <3>1 DEF Awaits
      <3>4. QED
        BY <3>2, <3>3
    <2>4. QED
      BY <2>1, <2>2, <2>3
  <1>9. ASSUME NEW h \in Hearths, HearthRestart(h) PROVE PauseInv'
    <2> USE <1>9 DEF HearthRestart
    <2>1. PauseTypeOK'
      BY DEF PauseTypeOK, Word, Requests
    <2>2. NoOrphanHold' /\ OwnReads' /\ Newest'
      BY DEF NoOrphanHold, OwnReads, Newest
    <2>3. Believes' /\ Awaits'
      BY DEF PauseTypeOK, Believes, Awaits, Word
    <2>4. QED
      BY <2>1, <2>2, <2>3
  <1>10. ASSUME NEW h \in Hearths, TakeWrite(h) PROVE PauseInv'
    <2> USE <1>10 DEF TakeWrite, HoldsAfter
    <2>0. /\ <<h, "write">> \in Requests
          /\ wire[h] \in Seq({"paused", "resumed"}) /\ wire[h] # <<>>
          /\ Head(wire[h]) \in {"paused", "resumed"}
          /\ wire[h][1] = Head(wire[h]) /\ 1 \in DOMAIN wire[h]
      BY DEF Requests, PauseTypeOK
    <2>1. PauseTypeOK'
      BY <2>0, TailKeeps DEF PauseTypeOK
    <2>2. NoOrphanHold'
      BY DEF NoOrphanHold
    <2>3. OwnReads'
      BY <2>0, OwnReadsKept DEF PauseTypeOK, Requests
    <2>4. Newest'
      BY <2>0 DEF PauseTypeOK, Newest
    <2> DEFINE w == Tail(wire[h])
    <2>5. /\ \A i \in DOMAIN w : i + 1 \in DOMAIN wire[h] /\ w[i] = wire[h][i + 1]
          /\ w # <<>> => w[Len(w)] = wire[h][Len(wire[h])]
          /\ w = <<>> => wire[h][Len(wire[h])] = Head(wire[h])
      BY <2>0, TailKeeps
    <2>6. /\ wire' = [wire EXCEPT ![h] = w]
          /\ UNCHANGED <<wants, told, pending, revoked>>
      OBVIOUS
    <2>7. /\ h \notin revoked => Word(h \in holds') = Head(wire[h])
          /\ \A k \in Hearths \ {h} : k \in holds' <=> k \in holds
      BY <2>0 DEF Word
    <2> HIDE <1>10 DEF w
    <2>8. Believes'
      BY <2>0, <2>5, <2>6, <2>7 DEF PauseTypeOK, Believes, Word
    <2>9. Awaits'
      BY <2>0, <2>5, <2>6, <2>7 DEF PauseTypeOK, Awaits, Word
    <2>10. QED
      BY <2>1, <2>2, <2>3, <2>4, <2>8, <2>9
  <1>11. ASSUME NEW h \in Hearths, Revoke(h) PROVE PauseInv'
    <2> USE <1>11 DEF Revoke
    <2>0. <<h, "revoke">> \in Requests
      BY DEF Requests
    <2>1. PauseTypeOK'
      BY <2>0 DEF PauseTypeOK
    <2>2. NoOrphanHold'
      BY DEF NoOrphanHold
    <2>3. OwnReads'
      <3>1. serving[<<h, "revoke">>] = "idle"
        BY DEF OwnReads
      <3>2. QED
        BY <2>0, <3>1, OwnReadsKept DEF PauseTypeOK, Requests
    <2>4. Newest'
      BY <2>0 DEF PauseTypeOK, Newest
    <2>5. Believes' /\ Awaits'
      BY DEF Believes, Awaits, Word
    <2>6. QED
      BY <2>1, <2>2, <2>3, <2>4, <2>5
  <1>12. ASSUME NEW h \in Hearths, CloseRevoked(h) PROVE PauseInv'
    <2> USE <1>12 DEF CloseRevoked, Heard
    <2>1. PauseTypeOK'
      BY DEF PauseTypeOK, Word, Requests
    <2>2. NoOrphanHold' /\ OwnReads' /\ Newest'
      BY DEF NoOrphanHold, OwnReads, Newest
    <2>3. Believes' /\ Awaits'
      BY DEF PauseTypeOK, Believes, Awaits, Word
    <2>4. QED
      BY <2>1, <2>2, <2>3
  <1>13. ASSUME NEW h \in Hearths, PushSnapshot(h) PROVE PauseInv'
    <2> USE <1>13 DEF PushSnapshot
    <2>1. PauseTypeOK'
      BY DEF PauseTypeOK, Word, Requests
    <2>2. NoOrphanHold' /\ OwnReads' /\ Newest'
      BY DEF NoOrphanHold, OwnReads, Newest
    <2>3. Believes' /\ Awaits'
      BY DEF PauseTypeOK, Believes, Awaits, Word
    <2>4. QED
      BY <2>1, <2>2, <2>3
  <1>14. ASSUME NEW q \in Requests, ReadHolds(q) PROVE PauseInv'
    <2> USE <1>14 DEF ReadHolds
    <2> DEFINE r == [for |-> q, paused |-> holds # {}]
    <2>0. /\ r \in [for : Requests, paused : BOOLEAN]
          /\ reads \in Seq([for : Requests, paused : BOOLEAN])
      BY DEF PauseTypeOK
    <2>1. /\ reads' \in Seq([for : Requests, paused : BOOLEAN])
          /\ reads' # <<>> /\ reads'[Len(reads')] = r
          /\ DOMAIN reads' = DOMAIN reads \cup {Len(reads) + 1}
          /\ Len(reads) + 1 \notin DOMAIN reads
          /\ \A i \in DOMAIN reads : reads'[i] = reads[i]
          /\ reads'[Len(reads) + 1] = r
      BY <2>0, AppendKeeps
    <2>2. PauseTypeOK'
      BY <2>1 DEF PauseTypeOK
    <2>3. OwnReads'
      <3>1. \A i \in DOMAIN reads : reads[i].for \in Requests /\ reads[i].for # q
        BY ReadsTyped DEF OwnReads
      <3>2. \A k \in Hearths \ revoked : <<k, "revoke">> \in Requests /\ q # <<k, "revoke">>
        BY DEF OwnReads, Requests
      <3>3. /\ serving'[q] = "read"
            /\ \A p \in Requests \ {q} : serving'[p] = serving[p]
        BY DEF PauseTypeOK
      <3>4. \A i \in DOMAIN reads' : i \in DOMAIN reads \/ reads'[i].for = q
        BY <2>1
      <3>5. QED
        BY <2>1, <3>1, <3>2, <3>3, <3>4 DEF OwnReads
    <2>4. Newest'
      <3>1. reads'[Len(reads')].paused = (holds' # {})
        BY <2>1
      <3>2. QED
        BY <2>1, <3>1 DEF Newest
    <2>5. NoOrphanHold' /\ Believes' /\ Awaits'
      BY DEF NoOrphanHold, Believes, Awaits
    <2>6. QED
      BY <2>2, <2>3, <2>4, <2>5
  <1>15. ASSUME NEW q \in Requests, ReadFails(q) PROVE PauseInv'
    <2> USE <1>15 DEF ReadFails
    <2>1. PauseTypeOK'
      BY DEF PauseTypeOK, Word, Requests
    <2>2. NoOrphanHold'
      BY DEF NoOrphanHold
    <2>3. OwnReads'
      <3>1. \A k \in Hearths \ revoked : q # <<k, "revoke">>
        BY DEF OwnReads
      <3>2. QED
        BY <3>1, OwnReadsKept DEF PauseTypeOK, Requests
    <2>4. Newest'
      BY DEF PauseTypeOK, Newest, Requests
    <2>5. Believes'
      BY DEF PauseTypeOK, Believes, Word
    <2>6. Awaits'
      BY DEF PauseTypeOK, Awaits, Word
    <2>7. QED
      BY <2>1, <2>2, <2>3, <2>4, <2>5, <2>6
  <1>16. ASSUME ApplyHolds PROVE PauseInv'
    <2> USE <1>16 DEF ApplyHolds, NextRead
    <2>0. /\ reads \in Seq([for : Requests, paused : BOOLEAN]) /\ reads # <<>>
          /\ 1 \in DOMAIN reads /\ reads[1] = Head(reads)
          /\ reads[1].for \in Requests /\ reads[1].paused \in BOOLEAN
      BY ReadsTyped DEF PauseTypeOK
    <2>1. /\ reads' = Tail(reads)
          /\ paused' = reads[1].paused
          /\ serving' \in {[serving EXCEPT ![reads[1].for] = s] :
                                s \in {"done", "failed"}}
          /\ errors' \in 0..MaxErrors
          /\ UNCHANGED <<hearthVars, wire, holds, revoked, misread, changes,
                         faults>>
      <3>1. RemoveAt(reads, 1) = Tail(reads)
        BY <2>0, FirstRemoved
      <3>2. errors' \in 0..MaxErrors
        BY DEF PauseTypeOK
      <3>3. QED
        BY <3>1, <3>2
    <2>2. /\ reads' \in Seq([for : Requests, paused : BOOLEAN])
          /\ \A i \in DOMAIN reads' :
                 i + 1 \in DOMAIN reads /\ i \in Nat \ {0} /\ reads'[i] = reads[i + 1]
          /\ reads' # <<>> => reads'[Len(reads')] = reads[Len(reads)]
          /\ reads' = <<>> => reads[1] = reads[Len(reads)]
      <3>1. /\ Tail(reads) \in Seq([for : Requests, paused : BOOLEAN])
            /\ DOMAIN Tail(reads) = 1..(Len(reads) - 1)
            /\ \A i \in DOMAIN Tail(reads) :
                   i + 1 \in DOMAIN reads /\ Tail(reads)[i] = reads[i + 1]
            /\ Tail(reads) # <<>> =>
                   Tail(reads)[Len(Tail(reads))] = reads[Len(reads)]
            /\ Tail(reads) = <<>> => Len(reads) = 1
        BY <2>0, TailKeeps
      <3>2. Len(reads) \in Nat
        BY <2>0
      <3> HIDE <1>16
      <3>3. QED
        BY <2>1, <3>1, <3>2
    <2> HIDE <1>16
    <2>3. PauseTypeOK'
      BY <2>0, <2>1, <2>2 DEF PauseTypeOK
    <2>4. OwnReads'
      <3>1. \A i \in DOMAIN reads' :
                reads'[i].for \in Requests /\ reads'[i].for # reads[1].for
        BY <2>0, <2>2, ReadsTyped DEF OwnReads
      <3>2. \A k \in Hearths \ revoked : <<k, "revoke">> \in Requests /\ reads[1].for # <<k, "revoke">>
        BY <2>0 DEF OwnReads, Requests
      <3>3. \A p \in Requests \ {reads[1].for} : serving'[p] = serving[p]
        BY <2>1 DEF PauseTypeOK
      <3>4. \A i, k \in DOMAIN reads' : reads'[i].for = reads'[k].for => i = k
        BY <2>2 DEF OwnReads
      <3>5. ASSUME NEW i \in DOMAIN reads'
            PROVE  serving'[reads'[i].for] = "read"
        <4>1. i + 1 \in DOMAIN reads /\ reads'[i] = reads[i + 1]
          BY <2>2
        <4>2. serving[reads[i + 1].for] = "read"
          BY <4>1 DEF OwnReads
        <4>3. QED
          BY <3>1, <3>3, <4>1, <4>2
      <3>6. QED
        BY <2>1, <3>2, <3>3, <3>4, <3>5 DEF OwnReads
    <2>5. Newest'
      <3>1. ASSUME \A p \in Requests : serving'[p] # "stored"
            PROVE  \A p \in Requests : serving[p] # "stored"
        BY <2>0, <2>1, <3>1 DEF PauseTypeOK, OwnReads
      <3>2. QED
        BY <2>0, <2>1, <2>2, <3>1 DEF Newest
    <2>6. NoOrphanHold' /\ Believes' /\ Awaits'
      BY <2>1 DEF NoOrphanHold, Believes, Awaits
    <2>7. QED
      BY <2>3, <2>4, <2>5, <2>6
  <1>17. ASSUME RelayRestart PROVE PauseInv'
    <2> USE <1>17 DEF RelayRestart, Lost
    <2>1. PauseTypeOK'
      <3>1. /\ told' \in [Hearths -> {"none", "paused", "resumed"}]
            /\ pending' \in [Hearths -> {"none", "paused", "resumed"}]
        BY DEF PauseTypeOK
      <3>2. serving' \in [Requests -> {"idle", "stored", "read", "done", "failed"}]
        OBVIOUS
      <3>3. /\ wire' \in [Hearths -> Seq({"paused", "resumed"})]
            /\ reads' \in Seq([for : Requests, paused : BOOLEAN])
        OBVIOUS
      <3>4. /\ conn' \in [Hearths -> BOOLEAN] /\ paused' \in BOOLEAN
            /\ misread' \in BOOLEAN
        OBVIOUS
      <3>5. faults' \in 0..MaxFaults
        <4>1. /\ faults \in Nat /\ MaxFaults \in Nat
              /\ faults < MaxFaults /\ faults' = faults + 1
          BY DEF PauseTypeOK
        <4> HIDE <1>17
        <4>2. QED
          BY <4>1
      <3>6. UNCHANGED <<enabled, calls, untold, wants, owes, reports, holds,
                        revoked, changes, errors>>
        OBVIOUS
      <3> HIDE <1>17
      <3>7. QED
        BY <3>1, <3>2, <3>3, <3>4, <3>5, <3>6 DEF PauseTypeOK
    <2>2. NoOrphanHold'
      BY DEF NoOrphanHold
    <2>3. OwnReads'
      BY DEF PauseTypeOK, OwnReads, Requests
    <2>4. Newest'
      BY DEF PauseTypeOK, Newest, Requests
    <2>5. Believes'
      BY DEF PauseTypeOK, Believes, Word
    <2>6. Awaits'
      BY DEF PauseTypeOK, Awaits, Word
    <2>7. QED
      BY <2>1, <2>2, <2>3, <2>4, <2>5, <2>6
  <1>18. CASE UNCHANGED vars
    BY <1>18 DEF vars, PauseTypeOK, NoOrphanHold, OwnReads, Newest, Believes,
       Awaits
  <1>19. QED
    BY <1>1, <1>2, <1>3, <1>4, <1>5, <1>6, <1>7, <1>8, <1>9, <1>10,
       <1>11, <1>12, <1>13, <1>14, <1>15, <1>16, <1>17, <1>18 DEF Next

-----------------------------------------------------------------------------
(***************************************************************************)
(* Theorems.                                                               *)
(***************************************************************************)

\* The inductive invariant of pausing: what Hearths believe and wait for, the
\* holds, the reads of them and the lanes agree.
THEOREM PauseInvariant == Spec => []PauseInv
  <1>1. Init => PauseInv
    BY InitPauseInv
  <1>2. PauseInv /\ [Next]_vars => PauseInv'
    BY StepPauseInv
  <1>3. QED
    BY <1>1, <1>2, PTL DEF Spec

\* Both sides keep to their types.
THEOREM PauseTypes == Spec => []PauseTypeOK
  <1>1. PauseInv => PauseTypeOK
    BY DEF PauseInv
  <1>2. QED
    BY <1>1, PauseInvariant, PTL

\* The lanes are paused exactly while a Hearth holds them so, once every hold
\* that was stored has been applied and unless the last read of them failed
\* (applyPauseHolds).
THEOREM PausedAsHeld == Spec => []PausedMatchesHolds
  <1>1. PauseInv => PausedMatchesHolds
    <2> SUFFICES ASSUME PauseInv, ~misread,
                        \A q \in Requests : serving[q] \notin {"stored", "read"}
                 PROVE  paused = (holds # {})
      BY DEF PausedMatchesHolds
    <2>1. reads = <<>>
      <3>1. \A i \in DOMAIN reads : reads[i].for \in Requests
        BY ReadsTyped DEF PauseInv
      <3>2. DOMAIN reads = {}
        BY <3>1 DEF PauseInv, OwnReads
      <3>3. QED
        BY <3>2 DEF PauseInv, PauseTypeOK
    <2>2. QED
      BY <2>1 DEF PauseInv, Newest
  <1>2. QED
    BY <1>1, PauseInvariant, PTL

\* No hold outlives its Hearth's access (setPauseHold, revokeClient).
THEOREM NoHoldIsOrphaned == Spec => []NoOrphanHold
  <1>1. PauseInv => NoOrphanHold
    BY DEF PauseInv
  <1>2. QED
    BY <1>1, PauseInvariant, PTL

\* What a Hearth believes the Relay took is what the Relay holds
\* (#tellPause).
THEOREM BeliefIsHeld == Spec => []ToldIsHeld
  <1>1. PauseInv => ToldIsHeld
    BY DEF PauseInv, Believes, ToldIsHeld
  <1>2. QED
    BY <1>1, PauseInvariant, PTL

=============================================================================
