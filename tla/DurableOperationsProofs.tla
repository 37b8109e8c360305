----------------------- MODULE DurableOperationsProofs -----------------------
(***************************************************************************)
(* Proofs about Hearth's durable operations, for any asks, starts, faults  *)
(* and restarts.                                                           *)
(*                                                                         *)
(* AskIsRun rests on rows and workflows alone (Flows, Homes).              *)
(* CancelledLeaves adds that a queued operation has one place (Single).    *)
(* ActsAlone adds who is first in line (Held): what is ahead of the one    *)
(* whose start was answered holds the lanes too, each taken back at a      *)
(* restart for an operation whose start was not.  None of them is          *)
(* withdrawn, as a place that waits to be is its own operation's           *)
(* (Restored, Unstarted).                                                  *)
(***************************************************************************)
EXTENDS DurableOperations, TLAPS, FiniteSetTheorems, SequenceTheorems

\* Queued operations are numbered as they're recorded, and only they wait.
Numbered ==
    /\ \E k \in 0..MaxQueued :
           \A o \in Queued : row[o].state # "absent" <=> o <= k
    /\ \A o \in Ops : row[o].state = "absent" => row[o] = NoRow
    /\ \A o \in Starters : row[o].state \notin {"waiting", "cancelled"}

\* A workflow works on what its row asked for as it started, and its row ends
\* only once that is done.
Flows ==
    \A o \in Ops :
        /\ flow[o] = "started" => row[o].state = "running"
        /\ flow[o] \in {"acted", "done"} =>
               row[o].state \in {"running", "ended"} /\ row[o].asks \subseteq did[o]
        /\ row[o].state = "ended" => flow[o] \in {"acted", "done"}
        /\ o \in loaded \union executed => row[o].state \in {"running", "ended"}
        /\ run[o] = "acting" => flow[o] = "started" /\ took[o] = row[o].asks
        /\ run[o] \in {"finishing", "closing"} => flow[o] = "acted"

\* An ask that was answered is part of the operation it was answered with.
Homes ==
    \A a \in Asks : ask[a] = "answered" =>
        home[a] \in Queued /\ a \in row[home[a]].asks

\* Until it has read what waits, a Hearth only holds what was running.
Early ==
    phase \in {"closed", "held"} =>
        /\ swept = {} /\ places = {} /\ unsure = {} /\ asked = {} /\ loaded = {}
        /\ ~engine
        /\ \A o \in Ops : run[o] = "off"
        /\ \A i \in DOMAIN line : line[i].at = "hold"
        /\ \A o \in turns : row[o].state \in {"waiting", "cancelled"}

\* What kind of operation a place is for, and what its row must be.
Placed ==
    \A i \in DOMAIN line :
        /\ line[i].at \in {"turn", "start"} => line[i].who \in places
        /\ line[i].at \in {"record", "again"} => line[i].who \in Starters
        /\ line[i].at # "hold" => line[i].op = line[i].who
        /\ line[i].at = "hold" =>
               /\ row[line[i].op].state \in {"running", "ended"}
               /\ line[i].who \in Queued => line[i].op = line[i].who

\* Who has a place has one place, and who may yet take one has none that
\* isn't known.
Single ==
    /\ \A i, j \in DOMAIN line :
           i # j /\ line[i].who = line[j].who => line[i].who \notin places
    /\ \A i \in DOMAIN line :
           line[i].who \notin places => line[i].who \notin turns \union swept

\* Once it has left the line, or is about to, a cancelled operation is gone,
\* unless this Hearth had no answer to what would have told it.
Leaving ==
    \A i \in DOMAIN line :
        i # 1 /\ row[line[i].who].state = "cancelled" =>
            line[i].who \in withdrawing \union unsure \union missed

DurableInv ==
    /\ DurableTypeOK
    /\ Numbered
    /\ Flows
    /\ Homes
    /\ Early
    /\ Placed
    /\ Single
    /\ Leaving

\* A place that holds the lanes for an operation, behind only such as hold
\* them for one whose start was not answered.
Heads(o) ==
    \E i \in DOMAIN line :
        /\ line[i].op = o /\ line[i].at = "hold"
        /\ \A j \in DOMAIN line : j < i => line[j].op \in unheard /\ line[j].at = "hold"

\* One operation runs whose start was answered, and once the lanes are
\* restored they are held for it.
Held ==
    /\ \A o, p \in With("running") \ unheard : o = p
    /\ phase # "closed" \/ line # <<>> => \A o \in With("running") \ unheard : Heads(o)

\* What holds the lanes without being first was running when Hearth started,
\* and its row isn't to be re-read.
Restored ==
    \A i \in DOMAIN line \ {1} :
        line[i].at = "hold" => line[i].op = line[i].who /\ line[i].who \notin unsure

\* A start that may still give up has no row, and what a cancel withdraws is
\* cancelled.
Unstarted ==
    /\ \A s \in Starters : start[s] \in {"idle", "opening", "lined"} => row[s].state = "absent"
    /\ withdrawing \subseteq With("cancelled")

HolderInv == Held /\ Restored /\ Unstarted

-----------------------------------------------------------------------------
(***************************************************************************)
(* Rows, and the line.                                                     *)
(***************************************************************************)

\* The next operation to be queued has no row yet, and the ones before it do.
LEMMA NextIdIsFresh ==
    ASSUME DurableTypeOK, Numbered, NextId <= MaxQueued
    PROVE  /\ NextId \in Queued
           /\ row[NextId].state = "absent"
           /\ \A o \in Queued : row[o].state # "absent" <=> o < NextId
  <1>1. PICK k \in 0..MaxQueued :
           \A o \in Queued : row[o].state # "absent" <=> o <= k
    BY DEF Numbered
  <1>2. k \in Nat /\ MaxQueued \in Nat
    BY <1>1, DurableConstants
  <1>3. {o \in Queued : row[o].state # "absent"} = 1..k
    BY <1>1, <1>2 DEF Queued
  <1>4. Cardinality(1..k) = k
    BY <1>2, FS_Interval
  <1>5. NextId = k + 1
    BY <1>3, <1>4 DEF NextId
  <1>6. QED
    BY <1>1, <1>2, <1>5 DEF Queued

\* A row whose state is set.
LEMMA StateSet ==
    ASSUME DurableTypeOK, NEW x \in Ops,
           NEW y \in {"absent", "waiting", "running", "ended", "cancelled"},
           row' = [row EXCEPT ![x].state = y]
    PROVE  /\ row' \in [Ops -> Rows]
           /\ row'[x].state = y /\ row'[x].asks = row[x].asks
           /\ \A p \in Ops \ {x} : row'[p] = row[p]
  <1>1. row \in [Ops -> Rows] /\ row[x] \in Rows
    BY DEF DurableTypeOK
  <1>2. /\ [row[x] EXCEPT !.state = y] \in Rows
        /\ [row[x] EXCEPT !.state = y].state = y
        /\ [row[x] EXCEPT !.state = y].asks = row[x].asks
    BY <1>1 DEF Rows
  <1>3. row' = [row EXCEPT ![x] = [row[x] EXCEPT !.state = y]]
    OBVIOUS
  <1>4. QED
    BY <1>1, <1>2, <1>3

\* The sequence of a finite set: its members, each once.
LEMMA SetToSeqIs ==
    ASSUME NEW S, IsFiniteSet(S)
    PROVE  /\ SetToSeq(S) \in Seq(S)
           /\ \A i \in DOMAIN SetToSeq(S) : SetToSeq(S)[i] \in S
           /\ \A i, j \in DOMAIN SetToSeq(S) : SetToSeq(S)[i] = SetToSeq(S)[j] => i = j
           /\ \A e \in S : \E i \in DOMAIN SetToSeq(S) : SetToSeq(S)[i] = e
  <1>1. PICK n \in Nat : ExistsBijection(1..n, S)
    BY FS_NatBijection
  <1>2. n = Cardinality(S)
    BY <1>1, FS_CountingElements
  <1>3. PICK f \in Bijection(1..n, S) : TRUE
    BY <1>1 DEF ExistsBijection
  <1>4. f \in [1..n -> S] /\ IsInjective(f)
    BY <1>3 DEF Bijection, Injection, Surjection, IsInjective
  <1> DEFINE t == SetToSeq(S)
  <1>5. t \in [1..n -> S] /\ IsInjective(t)
    BY <1>2, <1>4 DEF SetToSeq
  <1> HIDE DEF t
  <1>6. t \in Injection(1..n, S)
    BY <1>5 DEF Injection, IsInjective
  <1>7. Cardinality(1..n) = Cardinality(S)
    BY <1>1, <1>2, FS_Interval
  <1>8. t \in Surjection(1..n, S)
    BY <1>6, <1>7, FS_Injection
  <1>9. QED
    BY <1>5, <1>8 DEF Surjection, IsInjective, t

\* A line without the one in place i, who isn't first.
LEMMA Removed ==
    ASSUME NEW S, NEW s \in Seq(S), NEW i \in 2..Len(s)
    PROVE  /\ RemoveAt(s, i) \in Seq(S)
           /\ RemoveAt(s, i) # <<>> /\ Head(RemoveAt(s, i)) = Head(s)
           /\ DOMAIN RemoveAt(s, i) = 1..(Len(s) - 1)
           /\ \A j \in DOMAIN RemoveAt(s, i) :
                  RemoveAt(s, i)[j] = s[IF j < i THEN j ELSE j + 1]
  <1>1. /\ Len(s) \in Nat /\ i \in Nat /\ i >= 2 /\ i <= Len(s)
        /\ DOMAIN s = 1..Len(s) /\ \A j \in 1..Len(s) : s[j] \in S
    OBVIOUS
  <1> DEFINE a == SubSeq(s, 1, i - 1)
             b == SubSeq(s, i + 1, Len(s))
  <1>2. a \in Seq(S) /\ Len(a) = i - 1 /\ \A j \in 1..(i - 1) : a[j] = s[j]
    <2>1. \A j \in 1..(i - 1) : s[j] \in S
      BY <1>1
    <2>2. 1 \in Int /\ i - 1 \in Int /\ 1 <= i - 1 /\ i - 1 - 1 + 1 = i - 1
      BY <1>1
    <2>3. /\ a \in Seq(S) /\ Len(a) = i - 1 - 1 + 1
          /\ \A j \in 1..(i - 1 - 1 + 1) : a[j] = s[1 + j - 1]
      BY <2>1, <2>2, SubSeqProperties
    <2>4. \A j \in 1..(i - 1) : 1 + j - 1 = j
      OBVIOUS
    <2>5. QED
      BY <2>2, <2>3, <2>4
  <1>3. /\ b \in Seq(S) /\ Len(b) = Len(s) - i
        /\ \A j \in 1..(Len(s) - i) : b[j] = s[j + i]
    <2>1. \A j \in (i + 1)..Len(s) : s[j] \in S
      BY <1>1
    <2>2. /\ i + 1 \in Int /\ Len(s) \in Int
          /\ Len(s) - (i + 1) + 1 = Len(s) - i
      BY <1>1
    <2>3. /\ b \in Seq(S)
          /\ Len(b) = IF i + 1 <= Len(s) THEN Len(s) - (i + 1) + 1 ELSE 0
          /\ \A j \in 1..(Len(s) - (i + 1) + 1) : b[j] = s[i + 1 + j - 1]
      <3>1. ASSUME NEW m \in Int, NEW n \in Int, \A k \in m..n : s[k] \in S
            PROVE  /\ SubSeq(s, m, n) \in Seq(S)
                   /\ Len(SubSeq(s, m, n)) = IF m <= n THEN n - m + 1 ELSE 0
                   /\ \A k \in 1..(n - m + 1) : SubSeq(s, m, n)[k] = s[m + k - 1]
        BY <3>1, SubSeqProperties
      <3>2. QED
        BY <2>1, <2>2, <3>1
    <2>4. \A j \in 1..(Len(s) - i) : i + 1 + j - 1 = j + i
      BY <1>1
    <2>5. ASSUME NEW n \in Nat, i <= n, ~(i + 1 <= n) PROVE n - i = 0
      BY <1>1, <2>5
    <2>6. Len(b) = Len(s) - i
      BY <1>1, <2>2, <2>3, <2>5
    <2>7. QED
      BY <2>2, <2>3, <2>4, <2>6
  <1>4. RemoveAt(s, i) = a \o b
    BY DEF RemoveAt
  <1> HIDE DEF a, b
  <1>5. /\ a \o b \in Seq(S) /\ Len(a \o b) = Len(s) - 1
        /\ DOMAIN (a \o b) = 1..(Len(s) - 1)
        /\ \A j \in 1..(Len(s) - 1) :
               (a \o b)[j] = IF j <= i - 1 THEN a[j] ELSE b[j - (i - 1)]
    <2>1. /\ a \o b \in Seq(S) /\ Len(a \o b) = Len(a) + Len(b)
          /\ \A j \in 1..(Len(a) + Len(b)) :
                 (a \o b)[j] = IF j <= Len(a) THEN a[j] ELSE b[j - Len(a)]
      BY <1>2, <1>3, ConcatProperties
    <2>2. Len(a) + Len(b) = Len(s) - 1
      BY <1>1, <1>2, <1>3
    <2>3. DOMAIN (a \o b) = 1..Len(a \o b)
      BY <2>1
    <2>4. QED
      BY <1>2, <2>1, <2>2, <2>3
  <1>6. \A j \in 1..(Len(s) - 1) : (a \o b)[j] = s[IF j < i THEN j ELSE j + 1]
    <2>1. TAKE j \in 1..(Len(s) - 1)
    <2>2. CASE j < i
      <3>1. j \in 1..(i - 1) /\ j <= i - 1
        BY <1>1, <2>2
      <3>2. QED
        BY <1>2, <1>5, <2>2, <3>1
    <2>3. CASE ~(j < i)
      <3>1. /\ j - (i - 1) \in 1..(Len(s) - i) /\ j - (i - 1) + i = j + 1
            /\ ~(j <= i - 1)
        BY <1>1, <2>3
      <3>2. QED
        BY <1>3, <1>5, <2>3, <3>1
    <2>4. QED
      BY <2>2, <2>3
  <1>7. a \o b # <<>> /\ Head(a \o b) = Head(s)
    <2>1. 1 \in 1..(Len(s) - 1) /\ 1 < i
      BY <1>1
    <2>2. (a \o b)[1] = s[1]
      BY <1>6, <2>1
    <2>3. a \o b # <<>> /\ Head(a \o b) = (a \o b)[1]
      BY <1>5, <2>1
    <2>4. s # <<>> /\ Head(s) = s[1]
      BY <1>1
    <2>5. QED
      BY <2>2, <2>3, <2>4
  <1>8. QED
    BY <1>4, <1>5, <1>6, <1>7

\* A line one longer.
LEMMA Appended ==
    ASSUME NEW S, NEW s \in Seq(S), NEW e \in S
    PROVE  /\ Append(s, e) \in Seq(S)
           /\ Append(s, e) # <<>>
           /\ DOMAIN Append(s, e) = DOMAIN s \cup {Len(s) + 1}
           /\ Len(s) + 1 \notin DOMAIN s
           /\ \A i \in DOMAIN s : Append(s, e)[i] = s[i]
           /\ Append(s, e)[Len(s) + 1] = e
           /\ s # <<>> => Head(Append(s, e)) = Head(s)
           /\ s = <<>> => Head(Append(s, e)) = e /\ Len(s) + 1 = 1
  <1>1. /\ Append(s, e) \in Seq(S) /\ Append(s, e) # <<>>
        /\ Len(Append(s, e)) = Len(s) + 1 /\ Len(s) \in Nat
        /\ \A i \in 1..Len(s) : Append(s, e)[i] = s[i]
        /\ Append(s, e)[Len(s) + 1] = e
    BY AppendProperties
  <1>2. DOMAIN Append(s, e) = 1..(Len(s) + 1) /\ DOMAIN s = 1..Len(s)
    BY <1>1
  <1>3. Head(Append(s, e)) = Append(s, e)[1] /\ (s # <<>> => Head(s) = s[1])
    BY <1>1
  <1>4. QED
    BY <1>1, <1>2, <1>3

\* A line whose first has gone.
LEMMA Departed ==
    ASSUME NEW S, NEW s \in Seq(S), s # <<>>
    PROVE  /\ Tail(s) \in Seq(S)
           /\ 1 \in DOMAIN s /\ Head(s) = s[1] /\ Head(s) \in S
           /\ \A i \in DOMAIN Tail(s) :
                  /\ i \in Nat \ {0} /\ i + 1 \in DOMAIN s
                  /\ Tail(s)[i] = s[i + 1]
  OBVIOUS

\* Each place in a line is someone's.
LEMMA PlacesTyped ==
    ASSUME NEW s \in Seq(LinePlaces), NEW i \in DOMAIN s
    PROVE  /\ s[i].who \in Ops /\ s[i].op \in Ops
           /\ s[i].at \in {"turn", "start", "record", "again", "hold"}
  <1>1. s[i] \in LinePlaces
    OBVIOUS
  <1>2. QED
    BY <1>1 DEF LinePlaces

\* A line whose first place moves on.
LEMMA FirstMoves ==
    ASSUME NEW s \in Seq(LinePlaces), s # <<>>,
           NEW x \in {"turn", "start", "record", "again", "hold"}
    PROVE  /\ [s EXCEPT ![1].at = x] \in Seq(LinePlaces)
           /\ DOMAIN [s EXCEPT ![1].at = x] = DOMAIN s /\ 1 \in DOMAIN s
           /\ [s EXCEPT ![1].at = x] # <<>>
           /\ Head([s EXCEPT ![1].at = x]) = [s EXCEPT ![1].at = x][1]
           /\ [s EXCEPT ![1].at = x][1] = Place(s[1].who, s[1].op, x)
           /\ \A i \in DOMAIN s \ {1} : [s EXCEPT ![1].at = x][i] = s[i]
  <1>1. 1 \in 1..Len(s) /\ s[1] \in LinePlaces /\ Head(s) = s[1] /\ DOMAIN s = 1..Len(s)
    OBVIOUS
  <1> DEFINE e == Place(s[1].who, s[1].op, x)
  <1>2. e \in LinePlaces
    BY <1>1 DEF LinePlaces, Place
  <1>3. [s[1] EXCEPT !.at = x] = e
    BY <1>1 DEF LinePlaces, Place
  <1>4. [s EXCEPT ![1].at = x] = [s EXCEPT ![1] = e]
    BY <1>3
  <1> HIDE DEF e
  <1> DEFINE l == [s EXCEPT ![1] = e]
  <1>5. l \in Seq(LinePlaces) /\ Len(l) = Len(s)
    BY <1>1, <1>2, ExceptSeq
  <1>6. /\ DOMAIN l = DOMAIN s /\ l[1] = e
        /\ \A i \in DOMAIN s \ {1} : l[i] = s[i]
    BY <1>1
  <1>7. l # <<>> /\ Head(l) = l[1]
    <2> HIDE DEF l
    <2> QED
      BY <1>1, <1>5, <1>6
  <1>8. QED
    BY <1>1, <1>4, <1>5, <1>6, <1>7 DEF e

-----------------------------------------------------------------------------
(***************************************************************************)
(* What the changes to the line keep.                                      *)
(***************************************************************************)

\* Without a place that is known, a queued operation is in line only as one
\* that ran.
LEMMA UnplacedRan ==
    ASSUME DurableInv, NEW i \in DOMAIN line, line[i].who \in Queued,
           line[i].who \notin places
    PROVE  row[line[i].who].state \in {"running", "ended"}
  <1>1. line[i].at \in {"turn", "start", "record", "again", "hold"}
    BY PlacesTyped DEF DurableInv, DurableTypeOK
  <1>2. line[i].who \notin Starters
    BY DurableConstants DEF Queued
  <1>3. QED
    BY <1>1, <1>2 DEF DurableInv, Placed

\* A line that only loses places, and takes them out of the map of places.
LEMMA LineShrinks ==
    ASSUME Placed, Single, NEW f,
           \A j \in DOMAIN line' : f[j] \in DOMAIN line /\ line'[j] = line[f[j]],
           \A j, k \in DOMAIN line' : f[j] = f[k] => j = k,
           places' \subseteq places,
           \A j \in DOMAIN line' : line'[j].who \in places => line'[j].who \in places',
           turns' \subseteq turns, swept' \subseteq swept,
           \A j \in DOMAIN line' :
               row[line'[j].op].state \in {"running", "ended"} =>
                   row'[line'[j].op].state \in {"running", "ended"}
    PROVE  Placed' /\ Single'
  <1>1. Placed'
    BY DEF Placed
  <1>2. Single'
    BY DEF Single
  <1>3. QED
    BY <1>1, <1>2

\* Its first place gone, the line moves up.
LEMMA LeaveKeeps ==
    ASSUME DurableInv, line # <<>>, Leave, turns' \subseteq turns, swept' \subseteq swept,
           \A o \in Ops : row[o].state \in {"running", "ended"} =>
                              row'[o].state \in {"running", "ended"}
    PROVE  /\ line' \in Seq(LinePlaces) /\ places' \subseteq Queued
           /\ Placed' /\ Single'
           /\ \A j \in DOMAIN line' : j + 1 \in DOMAIN line /\ line'[j] = line[j + 1]
                                        /\ j \in Nat \ {0}
  <1>1. line \in Seq(LinePlaces)
    BY DEF DurableInv, DurableTypeOK
  <1>2. /\ line' \in Seq(LinePlaces) /\ 1 \in DOMAIN line /\ Head(line) = line[1]
        /\ \A j \in DOMAIN line' : /\ j \in Nat \ {0} /\ j + 1 \in DOMAIN line
                                   /\ line'[j] = line[j + 1]
    BY <1>1, Departed DEF Leave
  <1>3. places' = places \ {line[1].who}
    BY <1>2 DEF Leave
  <1>4. \A j \in DOMAIN line' : line'[j].who \in places => line'[j].who \in places'
    <2>1. ASSUME NEW j \in DOMAIN line', line'[j].who \in places PROVE line'[j].who # line[1].who
      <3>1. j + 1 # 1
        BY <1>2
      <3>2. QED
        BY <1>2, <2>1, <3>1 DEF DurableInv, Single
    <2>2. QED
      BY <1>3, <2>1
  <1> DEFINE f == [j \in DOMAIN line' |-> j + 1]
  <1>5. /\ \A j \in DOMAIN line' : f[j] \in DOMAIN line /\ line'[j] = line[f[j]]
        /\ \A j, k \in DOMAIN line' : f[j] = f[k] => j = k
    BY <1>2
  <1>6. \A j \in DOMAIN line' : line'[j].op \in Ops
    BY <1>2, PlacesTyped
  <1> HIDE DEF f
  <1>7. Placed' /\ Single'
    BY <1>3, <1>4, <1>5, <1>6, LineShrinks DEF DurableInv
  <1>8. places \subseteq Queued
    BY DEF DurableInv, DurableTypeOK
  <1>9. QED
    BY <1>2, <1>3, <1>7, <1>8

\* One that waits withdraws: the first stays first, and who withdrew isn't
\* behind it any more if it had its one place.
LEMMA WithdrawKeeps ==
    ASSUME DurableInv, NEW w \in Ops, Withdraw(w), row' = row,
           turns' \subseteq turns, swept' \subseteq swept,
           \/ places' = StillPlaced(line')
           \/ places' = places /\ w \notin places
    PROVE  /\ line' \in Seq(LinePlaces) /\ places' \subseteq Queued
           /\ Placed' /\ Single'
           /\ line' = <<>> <=> line = <<>>
           /\ line # <<>> => Head(line') = Head(line)
           /\ \A j \in DOMAIN line' \ {1} :
                  /\ \E k \in DOMAIN line \ {1} : line'[j] = line[k]
                  /\ w \in places => line'[j].who # w
  <1>1. line \in Seq(LinePlaces) /\ Len(line) \in Nat /\ DOMAIN line = 1..Len(line)
    BY DEF DurableInv, DurableTypeOK
  <1>2. places' \subseteq places /\ places \subseteq Queued
    BY DEF DurableInv, DurableTypeOK, StillPlaced
  <1>3. \A j \in DOMAIN line' : line'[j].who \in places => line'[j].who \in places'
    BY DEF StillPlaced
  <1>4. CASE \E i \in 2..Len(line) : line[i].who = w /\ line' = RemoveAt(line, i)
    <2>1. PICK i \in 2..Len(line) : line[i].who = w /\ line' = RemoveAt(line, i)
      BY <1>4
    <2>2. /\ line' \in Seq(LinePlaces) /\ line' # <<>> /\ Head(line') = Head(line)
          /\ DOMAIN line' = 1..(Len(line) - 1)
          /\ \A j \in DOMAIN line' : line'[j] = line[IF j < i THEN j ELSE j + 1]
      BY <1>1, <2>1, Removed
    <2> DEFINE f == [j \in DOMAIN line' |-> IF j < i THEN j ELSE j + 1]
    <2>3. i \in Nat /\ i >= 2 /\ i <= Len(line) /\ i \in DOMAIN line
      BY <1>1, <2>1
    <2>4. /\ \A j \in DOMAIN line' : f[j] \in DOMAIN line /\ line'[j] = line[f[j]]
          /\ \A j, k \in DOMAIN line' : f[j] = f[k] => j = k
          /\ \A j \in DOMAIN line' : f[j] # i /\ (j # 1 => f[j] # 1)
      <3> HIDE <2>1
      <3> QED
        BY <1>1, <2>2, <2>3
    <2>5. \A j \in DOMAIN line' : line'[j].op \in Ops
      BY <2>2, PlacesTyped
    <2> HIDE DEF f
    <2>6. Placed' /\ Single'
      BY <1>2, <1>3, <2>4, <2>5, LineShrinks DEF DurableInv
    <2>7. \A j \in DOMAIN line' : w \in places => line'[j].who # w
      BY <2>1, <2>3, <2>4 DEF DurableInv, Single
    <2>8. QED
      BY <1>1, <1>2, <2>2, <2>4, <2>6, <2>7
  <1>5. CASE (\A i \in 2..Len(line) : line[i].who # w) /\ line' = line
    <2> DEFINE f == [j \in DOMAIN line' |-> j]
    <2>1. /\ \A j \in DOMAIN line' : f[j] \in DOMAIN line /\ line'[j] = line[f[j]]
          /\ \A j, k \in DOMAIN line' : f[j] = f[k] => j = k
      BY <1>5
    <2> HIDE DEF f
    <2>2. Placed' /\ Single'
      BY <1>2, <1>3, <1>5, <2>1, LineShrinks DEF DurableInv
    <2>3. \A j \in DOMAIN line \ {1} : j \in 2..Len(line)
      BY <1>1
    <2>4. QED
      BY <1>1, <1>2, <1>5, <2>2, <2>3
  <1>6. QED
    BY <1>4, <1>5 DEF Withdraw

\* One that takes its place is behind everyone, and has no other.
LEMMA ReserveKeeps ==
    ASSUME DurableInv, NEW o \in turns \union swept, Reserve(o), row' = row,
           turns' \subseteq turns, swept' \subseteq swept
    PROVE  /\ line' \in Seq(LinePlaces) /\ places' \subseteq Queued
           /\ unsure' \subseteq Queued
           /\ Placed' /\ Single'
           /\ line # <<>> => line' # <<>> /\ Head(line') = Head(line)
           /\ \A j \in DOMAIN line' :
                  \/ j \in DOMAIN line /\ line'[j] = line[j]
                  \/ line'[j].who \in unsure'
           /\ unsure \subseteq unsure'
  <1>1. /\ line \in Seq(LinePlaces) /\ o \in Queued /\ o \in Ops
        /\ places \subseteq Queued /\ unsure \subseteq Queued
    BY DEF DurableInv, DurableTypeOK, Ops
  <1>2. CASE o \in places
    BY <1>1, <1>2 DEF Reserve, DurableInv, Placed, Single
  <1>3. CASE o \notin places
    <2> DEFINE e == Place(o, o, "turn")
    <2>1. e \in LinePlaces /\ e.who = o /\ e.op = o /\ e.at = "turn"
      BY <1>1 DEF LinePlaces, Place
    <2>2. /\ line' = Append(line, e) /\ places' = places \union {o}
          /\ unsure' = unsure \union {o}
      BY <1>3 DEF Reserve
    <2> HIDE DEF e
    <2>3. /\ line' \in Seq(LinePlaces) /\ line' # <<>>
          /\ DOMAIN line' = DOMAIN line \cup {Len(line) + 1}
          /\ Len(line) + 1 \notin DOMAIN line
          /\ \A i \in DOMAIN line : line'[i] = line[i]
          /\ line'[Len(line) + 1] = e
          /\ line # <<>> => Head(line') = Head(line)
      BY <1>1, <2>1, <2>2, Appended
    <2> HIDE DEF Reserve
    <2>4. \A i \in DOMAIN line : line[i].who # o
      BY <1>3 DEF DurableInv, Single
    <2>5. Placed'
      BY <2>1, <2>2, <2>3 DEF DurableInv, Placed
    <2>6. Single'
      BY <2>1, <2>2, <2>3, <2>4 DEF DurableInv, Single
    <2>7. QED
      BY <1>1, <2>1, <2>2, <2>3, <2>5, <2>6
  <1>4. QED
    BY <1>2, <1>3

-----------------------------------------------------------------------------
\* The invariant holds before anything is asked.
LEMMA InitDurableInv == Init => DurableInv
  <1> SUFFICES ASSUME Init PROVE DurableInv
    OBVIOUS
  <1> USE DurableConstants DEF Init
  <1>1. DurableTypeOK
    <2>1. faults \in 0..MaxFaults /\ crashes \in 0..MaxCrashes
      OBVIOUS
    <2>2. line \in Seq(LinePlaces)
      OBVIOUS
    <2>3. QED
      BY <2>1, <2>2 DEF DurableTypeOK, NoRow, Rows
  <1>2. Numbered
    <2>1. 0 \in 0..MaxQueued /\ \A o \in Queued : ~(o <= 0) /\ o \in Ops
      BY DEF Queued, Ops
    <2>2. \A o \in Queued : row[o].state # "absent" <=> o <= 0
      BY <2>1 DEF NoRow
    <2>3. QED
      BY <2>1, <2>2 DEF Numbered, NoRow, Ops
  <1>3. Flows /\ Homes /\ Early
    BY DEF Flows, Homes, Early, NoRow
  <1>4. Placed /\ Single /\ Leaving
    BY DEF Placed, Single, Leaving, With, NoRow
  <1>5. QED
    BY <1>1, <1>2, <1>3, <1>4 DEF DurableInv

\* Every step keeps the invariant.
LEMMA StepDurableInv == DurableInv /\ [Next]_vars => DurableInv'
  <1> SUFFICES ASSUME DurableInv, [Next]_vars PROVE DurableInv'
    OBVIOUS
  <1> USE DurableConstants
      DEF DurableInv, Ops, stored, lanes, dispatching, workflows, callers, others, history
  <1>1. ASSUME NEW a \in Asks, Ask(a) PROVE DurableInv'
    <2> USE <1>1 DEF Ask
    <2>1. DurableTypeOK'
      BY DEF DurableTypeOK
    <2>2. Numbered'
      BY DEF DurableTypeOK, Numbered, NoRow
    <2>3. Flows'
      BY DEF DurableTypeOK, Flows
    <2>4. Homes'
      BY DEF DurableTypeOK, Homes
    <2>5. Early'
      BY DEF DurableTypeOK, Early
    <2>6. Placed' /\ Single'
      BY DEF DurableTypeOK, Placed, Single
    <2>7. Leaving'
      BY DEF DurableTypeOK, Leaving
    <2>8. QED
      BY <2>1, <2>2, <2>3, <2>4, <2>5, <2>6, <2>7
  <1>2. ASSUME NEW a \in Asks, InsertWaiting(a) PROVE DurableInv'
    <2> USE <1>2 DEF InsertWaiting, Answered, MayLose
    <2> DEFINE n == NextId
    <2>a. /\ n \in Queued /\ n \in Ops /\ row[n].state = "absent" /\ n \in Nat
          /\ \A o \in Queued : row[o].state # "absent" <=> o < n
      BY NextIdIsFresh DEF Queued
    <2>b. /\ row' \in [Ops -> Rows]
          /\ row'[n].state = "waiting" /\ row'[n].asks = {a}
          /\ \A p \in Ops \ {n} : row'[p] = row[p]
      <3>1. [state |-> "waiting", key |-> KeyOf[a], asks |-> {a}, sent |-> FALSE] \in Rows
        BY DEF Rows
      <3>2. QED
        BY <2>a, <3>1 DEF DurableTypeOK
    <2>c. /\ faults' \in 0..MaxFaults
          /\ \/ /\ ask' = [ask EXCEPT ![a] = "answered"]
                /\ home' = [home EXCEPT ![a] = n]
                /\ turns' = turns \union {n}
             \/ /\ ask' = [ask EXCEPT ![a] = "failed"]
                /\ UNCHANGED <<home, turns>>
          /\ UNCHANGED <<flow, did, phase, line, places, swept, unsure, withdrawing,
                         dispatching, workflows, start, ready, history, crashes>>
      BY DEF DurableTypeOK
    <2> HIDE <1>2 DEF n
    <2> USE <2>a, <2>b, <2>c
    <2>1. DurableTypeOK'
      <3>1. /\ ask' \in [Asks -> {"idle", "inserting", "joining", "answered", "failed"}]
            /\ home' \in [Asks -> Queued \union {none}]
        BY DEF DurableTypeOK
      <3>2. turns' \subseteq Queued
        BY DEF DurableTypeOK
      <3> HIDE <2>c
      <3>3. UNCHANGED <<flow, did, phase, line, places, swept, unsure, withdrawing,
                         dispatching, workflows, start, ready, history, crashes>> /\ faults' \in 0..MaxFaults
        BY <2>c
      <3>4. QED
        BY <3>1, <3>2, <3>3 DEF DurableTypeOK
    <2>2. Numbered'
      <3>1. n \in 0..MaxQueued /\ \A o \in Queued : o \in Nat /\ o \in Ops
        BY DEF Queued
      <3>2. \A o \in Queued : row'[o].state # "absent" <=> o <= n
        BY <3>1
      <3>3. \A o \in Ops : row'[o].state = "absent" => row'[o] = NoRow
        BY DEF Numbered
      <3>4. n \notin Starters
        BY DEF Queued
      <3>5. QED
        BY <3>1, <3>2, <3>3, <3>4 DEF Numbered
    <2>3. Flows'
      BY DEF DurableTypeOK, Flows
    <2>4. Homes'
      <3>1. row[n].asks = {}
        BY DEF Numbered, NoRow
      <3>2. \A p \in Queued : row[p].asks \subseteq row'[p].asks
        BY <3>1
      <3>3. \A b \in Asks : ask'[b] = "answered" =>
                \/ b = a /\ home'[b] = n
                \/ ask[b] = "answered" /\ home'[b] = home[b]
        BY DEF DurableTypeOK
      <3>4. QED
        BY <3>2, <3>3 DEF Homes
    <2>5. Early'
      <3>1. turns \subseteq Ops /\ turns' \subseteq turns \union {n}
        BY DEF DurableTypeOK
      <3>2. UNCHANGED <<phase, line, places, swept, unsure, dispatching, workflows>>
        OBVIOUS
      <3> HIDE <2>c
      <3>3. QED
        BY <3>1, <3>2 DEF Early
    <2>6. Placed' /\ Single'
      <3>1. \A i \in DOMAIN line : line[i].who \in Ops /\ line[i].op \in Ops
        BY PlacesTyped DEF DurableTypeOK
      <3>2. \A i \in DOMAIN line : line[i].who \notin places => line[i].who # n
        BY UnplacedRan
      <3>3. Placed'
        BY <3>1 DEF Placed
      <3>4. Single'
        BY <3>1, <3>2 DEF Single
      <3>5. QED
        BY <3>3, <3>4
    <2>7. Leaving'
      <3>1. \A i \in DOMAIN line : line[i].who \in Ops
        BY PlacesTyped DEF DurableTypeOK
      <3>2. QED
        BY <3>1 DEF Leaving
    <2>8. QED
      BY <2>1, <2>2, <2>3, <2>4, <2>5, <2>6, <2>7
  <1>3. ASSUME NEW a \in Asks, InsertIgnored(a) PROVE DurableInv'
    <2> USE <1>3 DEF InsertIgnored
    <2>1. DurableTypeOK'
      BY DEF DurableTypeOK
    <2>2. Numbered'
      BY DEF DurableTypeOK, Numbered, NoRow
    <2>3. Flows'
      BY DEF DurableTypeOK, Flows
    <2>4. Homes'
      BY DEF DurableTypeOK, Homes
    <2>5. Early'
      BY DEF DurableTypeOK, Early
    <2>6. Placed' /\ Single'
      BY DEF DurableTypeOK, Placed, Single
    <2>7. Leaving'
      BY DEF DurableTypeOK, Leaving
    <2>8. QED
      BY <2>1, <2>2, <2>3, <2>4, <2>5, <2>6, <2>7
  <1>4. ASSUME NEW a \in Asks, Join(a) PROVE DurableInv'
    <2> USE <1>4 DEF Join, WaitingUnder
    <2>a. PICK o \in WaitingUnder(KeyOf[a]) :
             /\ row' = [row EXCEPT ![o].asks = @ \union {a}]
             /\ home' = [home EXCEPT ![a] = o]
      OBVIOUS
    <2>b. o \in Queued /\ o \in Ops /\ row[o].state = "waiting" /\ row[o] \in Rows
      BY DEF DurableTypeOK
    <2>c. /\ row' \in [Ops -> Rows]
          /\ row'[o].state = "waiting" /\ row'[o].asks = row[o].asks \union {a}
          /\ \A p \in Ops \ {o} : row'[p] = row[p]
      <3>1. row[o].asks \union {a} \in SUBSET Asks
        BY <2>b DEF Rows
      <3>2. /\ [row[o] EXCEPT !.asks = row[o].asks \union {a}] \in Rows
            /\ [row[o] EXCEPT !.asks = row[o].asks \union {a}].asks = row[o].asks \union {a}
            /\ [row[o] EXCEPT !.asks = row[o].asks \union {a}].state = row[o].state
        BY <2>b, <3>1 DEF Rows
      <3>3. row' = [row EXCEPT ![o] = [row[o] EXCEPT !.asks = row[o].asks \union {a}]]
        BY <2>a
      <3>4. QED
        BY <2>b, <3>2, <3>3 DEF DurableTypeOK
    <2>d. /\ ask' = [ask EXCEPT ![a] = "answered"] /\ home' = [home EXCEPT ![a] = o]
          /\ UNCHANGED <<flow, did, lanes, dispatching, workflows, start, others>>
      BY <2>a
    <2> HIDE <1>4, <2>a
    <2> USE <2>b, <2>c, <2>d
    <2>1. DurableTypeOK'
      BY DEF DurableTypeOK
    <2>2. Numbered'
      <3>1. \A p \in Ops : row'[p].state = row[p].state
        OBVIOUS
      <3>2. \A p \in Ops : row'[p].state = "absent" => row'[p] = row[p]
        OBVIOUS
      <3>3. QED
        BY <3>1, <3>2 DEF Numbered
    <2>3. Flows'
      BY DEF DurableTypeOK, Flows
    <2>4. Homes'
      BY DEF DurableTypeOK, Homes
    <2>5. Early'
      BY DEF DurableTypeOK, Early
    <2>t. \A i \in DOMAIN line : line[i].who \in Ops /\ line[i].op \in Ops
      BY PlacesTyped DEF DurableTypeOK
    <2>6. Placed' /\ Single'
      BY <2>t DEF DurableTypeOK, Placed, Single
    <2>7. Leaving'
      BY <2>t DEF DurableTypeOK, Leaving
    <2>8. QED
      BY <2>1, <2>2, <2>3, <2>4, <2>5, <2>6, <2>7
  <1>5. ASSUME NEW a \in Asks, JoinNone(a) PROVE DurableInv'
    <2> USE <1>5 DEF JoinNone
    <2>1. DurableTypeOK'
      BY DEF DurableTypeOK
    <2>2. Numbered'
      BY DEF DurableTypeOK, Numbered, NoRow
    <2>3. Flows'
      BY DEF DurableTypeOK, Flows
    <2>4. Homes'
      BY DEF DurableTypeOK, Homes
    <2>5. Early'
      BY DEF DurableTypeOK, Early
    <2>6. Placed' /\ Single'
      BY DEF DurableTypeOK, Placed, Single
    <2>7. Leaving'
      BY DEF DurableTypeOK, Leaving
    <2>8. QED
      BY <2>1, <2>2, <2>3, <2>4, <2>5, <2>6, <2>7
  <1>6. ASSUME NEW a \in Asks, AskFails(a) PROVE DurableInv'
    <2> USE <1>6 DEF AskFails, MayFail
    <2>1. DurableTypeOK'
      BY DEF DurableTypeOK
    <2>2. Numbered'
      BY DEF DurableTypeOK, Numbered, NoRow
    <2>3. Flows'
      BY DEF DurableTypeOK, Flows
    <2>4. Homes'
      BY DEF DurableTypeOK, Homes
    <2>5. Early'
      BY DEF DurableTypeOK, Early
    <2>6. Placed' /\ Single'
      BY DEF DurableTypeOK, Placed, Single
    <2>7. Leaving'
      BY DEF DurableTypeOK, Leaving
    <2>8. QED
      BY <2>1, <2>2, <2>3, <2>4, <2>5, <2>6, <2>7
  <1>7. ASSUME NEW o \in Queued, TakeTurn(o) PROVE DurableInv'
    <2> USE <1>7 DEF TakeTurn
    <2>a. /\ line' \in Seq(LinePlaces) /\ places' \subseteq Queued
          /\ unsure' \subseteq Queued
          /\ Placed' /\ Single'
          /\ line # <<>> => line' # <<>> /\ Head(line') = Head(line)
          /\ \A j \in DOMAIN line' :
                 \/ j \in DOMAIN line /\ line'[j] = line[j]
                 \/ line'[j].who \in unsure'
          /\ unsure \subseteq unsure'
      <3>1. o \in turns \union swept /\ turns' \subseteq turns /\ swept' \subseteq swept
        OBVIOUS
      <3>2. QED
        BY <3>1, ReserveKeeps
    <2>1. DurableTypeOK'
      BY <2>a DEF DurableTypeOK
    <2>2. Numbered' /\ Flows' /\ Homes'
      BY DEF Numbered, Flows, Homes
    <2>5. Early'
      BY DEF Early
    <2>7. Leaving'
      BY <2>a DEF Leaving
    <2>8. QED
      BY <2>a, <2>1, <2>2, <2>5, <2>7
  <1>8. ASSUME NEW o \in Queued, Recheck(o) PROVE DurableInv'
    <2> USE <1>8 DEF Recheck, Answered, MayFail
    <2>u. /\ swept' \subseteq swept /\ turns' \subseteq turns /\ row' = row /\ o \in Ops
          /\ faults' \in 0..MaxFaults
          /\ UNCHANGED <<stored, phase, turns, withdrawing, dispatching, workflows,
                         callers, ready, unheard, crashes>>
          /\ missed \subseteq missed' /\ missed' \subseteq Queued
          /\ unsure' = unsure \ {o} /\ o \in unsure
      BY DEF DurableTypeOK
    <2>v. \/ line' = line /\ places' = places /\ (o \in With("cancelled") => o \in missed')
          \/ line' = line /\ places' = StillPlaced(line') /\ row[o].state = "waiting"
          \/ Withdraw(o) /\ places' = StillPlaced(line')
      OBVIOUS
    <2> HIDE <1>8
    <2> USE <2>u
    <2>a. /\ line' \in Seq(LinePlaces) /\ places' \subseteq Queued
          /\ Placed' /\ Single'
          /\ line' = <<>> <=> line = <<>>
          /\ line # <<>> => Head(line') = Head(line)
          /\ \A j \in DOMAIN line' \ {1} :
                 /\ \E k \in DOMAIN line \ {1} : line'[j] = line[k]
                 /\ row[o].state = "cancelled" /\ o \in places
                        => line'[j].who # o \/ o \in missed'
      <3>1. CASE line' = line /\ places' = places /\ (o \in With("cancelled") => o \in missed')
        <4>1. Placed' /\ Single'
          BY <3>1 DEF Placed, Single
        <4>2. QED
          BY <3>1, <4>1 DEF DurableTypeOK, With
      <3>2. CASE line' = line /\ places' = StillPlaced(line') /\ row[o].state = "waiting"
        <4>1. /\ places' \subseteq places
              /\ \A j \in DOMAIN line : line[j].who \in places => line[j].who \in places'
          BY <3>2 DEF StillPlaced
        <4>2. Placed'
          BY <3>2, <4>1 DEF Placed
        <4>3. Single'
          BY <3>2, <4>1 DEF Single
        <4>4. QED
          BY <3>2, <4>1, <4>2, <4>3 DEF DurableTypeOK
      <3>3. CASE Withdraw(o) /\ places' = StillPlaced(line')
        BY <3>3, WithdrawKeeps
      <3>4. QED
        BY <2>v, <3>1, <3>2, <3>3
    <2>1. DurableTypeOK'
      BY <2>a DEF DurableTypeOK
    <2>2. Numbered' /\ Flows' /\ Homes'
      BY DEF Numbered, Flows, Homes
    <2>5. Early'
      BY DEF Early
    <2>7. Leaving'
      <3>1. \A i \in DOMAIN line : i # 1 /\ row[line[i].who].state = "cancelled" =>
                line[i].who \in withdrawing \union unsure \union missed
        BY DEF Leaving
      <3>2. \A j \in DOMAIN line' \ {1} : line'[j].who = o /\ row[o].state = "cancelled" => o \in missed'
        <4>1. ASSUME NEW j \in DOMAIN line' \ {1}, line'[j].who = o,
                     row[o].state = "cancelled"
              PROVE  o \in missed'
          <5>1. PICK k \in DOMAIN line \ {1} : line'[j] = line[k]
            BY <2>a
          <5>2. o \in places
            BY <4>1, <5>1, UnplacedRan
          <5>3. QED
            BY <2>a, <4>1, <5>2
        <4>2. QED
          BY <4>1
      <3>3. \A p \in withdrawing \union unsure \union missed :
                p = o \/ p \in withdrawing' \union unsure' \union missed'
        OBVIOUS
      <3>4. QED
        BY <2>a, <3>1, <3>2, <3>3 DEF Leaving
    <2>8. QED
      BY <2>a, <2>1, <2>2, <2>5, <2>7
  <1>9. ASSUME NEW o \in Queued, CancelPlace(o) PROVE DurableInv'
    <2> USE <1>9 DEF CancelPlace
    <2>u. /\ UNCHANGED <<stored, phase, turns, swept, unsure, dispatching, workflows,
                         callers, others>>
          /\ withdrawing' = withdrawing \ {o} /\ o \in Ops /\ places' = StillPlaced(line')
      OBVIOUS
    <2>v. \/ line' = line /\ o \notin places
          \/ Withdraw(o)
      OBVIOUS
    <2> HIDE <1>9
    <2> USE <2>u
    <2>a. /\ line' \in Seq(LinePlaces) /\ places' \subseteq Queued
          /\ Placed' /\ Single'
          /\ line' = <<>> <=> line = <<>>
          /\ line # <<>> => Head(line') = Head(line)
          /\ \A j \in DOMAIN line' \ {1} :
                 /\ \E k \in DOMAIN line \ {1} : line'[j] = line[k]
                 /\ o \in places => line'[j].who # o
      <3>2. CASE line' = line /\ o \notin places
        <4>1. /\ places' \subseteq places
              /\ \A j \in DOMAIN line : line[j].who \in places => line[j].who \in places'
          BY <3>2 DEF StillPlaced
        <4>2. Placed'
          BY <3>2, <4>1 DEF Placed
        <4>3. Single'
          BY <3>2, <4>1 DEF Single
        <4>4. QED
          BY <3>2, <4>1, <4>2, <4>3 DEF DurableTypeOK
      <3>3. CASE Withdraw(o)
        BY <3>3, WithdrawKeeps
      <3>4. QED
        BY <2>v, <3>2, <3>3
    <2>p. places' \subseteq places
      BY DEF StillPlaced
    <2>1. DurableTypeOK'
      BY <2>a DEF DurableTypeOK
    <2>2. Numbered' /\ Flows' /\ Homes'
      BY DEF Numbered, Flows, Homes
    <2>5. Early'
      <3>1. \A j \in DOMAIN line' : \E k \in DOMAIN line : line'[j] = line[k]
        <4>1. ASSUME NEW j \in DOMAIN line' PROVE \E k \in DOMAIN line : line'[j] = line[k]
          <5>1. CASE j = 1
            <6>1. line' # <<>> /\ Head(line') = line'[1]
              BY <2>a, <5>1
            <6>2. line # <<>> /\ Head(line) = line[1] /\ 1 \in DOMAIN line
              BY <2>a, <6>1 DEF DurableTypeOK
            <6>3. QED
              BY <2>a, <5>1, <6>1, <6>2
          <5>2. CASE j # 1
            BY <2>a, <5>2
          <5>3. QED
            BY <5>1, <5>2
        <4>2. QED
          BY <4>1
      <3>2. QED
        BY <2>p, <3>1 DEF Early
    <2>7. Leaving'
      <3>1. \A i \in DOMAIN line : i # 1 /\ row[line[i].who].state = "cancelled" =>
                line[i].who \in withdrawing \union unsure \union missed
        BY DEF Leaving
      <3>2. \A j \in DOMAIN line' \ {1} : line'[j].who = o /\ row[o].state = "cancelled" => FALSE
        <4>1. ASSUME NEW j \in DOMAIN line' \ {1}, line'[j].who = o,
                     row[o].state = "cancelled"
              PROVE  FALSE
          <5>1. PICK k \in DOMAIN line \ {1} : line'[j] = line[k]
            BY <2>a
          <5>2. o \in places
            BY <4>1, <5>1, UnplacedRan
          <5>3. QED
            BY <2>a, <4>1, <5>2
        <4>2. QED
          BY <4>1
      <3>3. \A p \in withdrawing \union unsure \union missed :
                p = o \/ p \in withdrawing' \union unsure' \union missed'
        OBVIOUS
      <3>4. QED
        BY <2>a, <3>1, <3>2, <3>3 DEF Leaving
    <2>8. QED
      BY <2>a, <2>1, <2>2, <2>5, <2>7
  <1>10. ASSUME NEW o \in Queued, CancelRow(o) PROVE DurableInv'
    <2> USE <1>10 DEF CancelRow, Answered, MayLose
    <2>a. /\ row' \in [Ops -> Rows]
          /\ row'[o].state = "cancelled" /\ row'[o].asks = row[o].asks
          /\ \A p \in Ops \ {o} : row'[p] = row[p]
      BY StateSet
    <2>u. /\ UNCHANGED <<flow, did, phase, line, places, turns, swept, unsure,
                         dispatching, workflows, callers, ready, unheard, crashes>>
          /\ faults' \in 0..MaxFaults /\ withdrawing' \subseteq Queued
          /\ missed' \subseteq Queued
          /\ o \in withdrawing' \union missed'
          /\ withdrawing \subseteq withdrawing' /\ missed \subseteq missed'
          /\ row[o].state = "waiting"
      BY DEF DurableTypeOK
    <2>t. \A i \in DOMAIN line : line[i].who \in Ops /\ line[i].op \in Ops
      BY PlacesTyped DEF DurableTypeOK
    <2>1. DurableTypeOK'
      <3> HIDE <1>10
      <3>1. QED
        BY <2>a, <2>u DEF DurableTypeOK
    <2>2. Numbered'
      <3> HIDE <1>10
      <3>1. o \notin Starters /\ o \in Ops
        BY DEF Queued
      <3>2. \A p \in Ops : row'[p].state = "absent" <=> row[p].state = "absent"
        BY <2>a, <2>u, <3>1
      <3>3. \A p \in Ops : row'[p].state = "absent" => row'[p] = row[p]
        BY <2>a, <2>u, <3>1
      <3>4. \A p \in Starters : row'[p] = row[p]
        BY <2>a, <3>1
      <3>5. QED
        BY <3>2, <3>3, <3>4 DEF Numbered
    <2>3. Flows'
      BY DEF DurableTypeOK, Flows
    <2>4. Homes'
      BY DEF DurableTypeOK, Homes
    <2>5. Early'
      BY DEF DurableTypeOK, Early
    <2>6. Placed' /\ Single'
      BY DEF DurableTypeOK, Placed, Single
    <2>7. Leaving'
      <3> HIDE <1>10
      <3>1. QED
        BY <2>a, <2>t, <2>u DEF Leaving
    <2>8. QED
      BY <2>1, <2>2, <2>3, <2>4, <2>5, <2>6, <2>7
  <1>11. ASSUME NEW o \in Queued, CheckReady(o) PROVE DurableInv'
    <2> USE <1>11 DEF CheckReady, Granted
    <2>u. /\ UNCHANGED <<stored, phase, turns, swept, unsure, withdrawing, dispatching,
                         workflows, callers, others>>
          /\ line # <<>> /\ Head(line).who = o /\ Head(line).at = "turn"
          /\ \/ line' = [line EXCEPT ![1].at = "start"] /\ places' = places
             \/ Leave
      OBVIOUS
    <2> HIDE <1>11
    <2> USE <2>u
    <2>h. 1 \in DOMAIN line /\ Head(line) = line[1] /\ line # <<>>
      BY DEF DurableTypeOK
    <2>e. phase \notin {"closed", "held"}
      BY <2>h DEF Early
    <2>a. /\ line' \in Seq(LinePlaces) /\ places' \subseteq Queued
          /\ Placed' /\ Single'
          /\ \A j \in DOMAIN line' \ {1} :
                 \E k \in DOMAIN line \ {1} : line'[j] = line[k]
      <3>1. CASE line' = [line EXCEPT ![1].at = "start"] /\ places' = places
        <4> DEFINE l == [line EXCEPT ![1].at = "start"]
        <4>1. /\ l \in Seq(LinePlaces) /\ DOMAIN l = DOMAIN line
              /\ l[1] = Place(line[1].who, line[1].op, "start")
              /\ \A i \in DOMAIN line \ {1} : l[i] = line[i]
          <5>1. line \in Seq(LinePlaces)
            BY DEF DurableTypeOK
          <5>2. QED
            BY <2>h, <5>1, FirstMoves
        <4>2. line' = l
          BY <3>1
        <4> HIDE DEF l
        <4>3. /\ \A i \in DOMAIN line : l[i].who = line[i].who /\ l[i].op = line[i].op
              /\ l[1].at = "start"
          BY <4>1 DEF Place
        <4>4. Placed'
          BY <2>h, <3>1, <4>1, <4>2, <4>3 DEF Placed
        <4>5. Single'
          BY <3>1, <4>1, <4>2, <4>3 DEF Single
        <4>6. QED
          BY <3>1, <4>1, <4>2, <4>4, <4>5 DEF DurableTypeOK
      <3>2. CASE Leave
        <4>1. /\ line' \in Seq(LinePlaces) /\ places' \subseteq Queued
              /\ Placed' /\ Single'
              /\ \A j \in DOMAIN line' : j + 1 \in DOMAIN line /\ line'[j] = line[j + 1]
                                           /\ j \in Nat \ {0}
          BY <3>2, <2>h, LeaveKeeps
        <4>2. \A j \in DOMAIN line' : j + 1 \in DOMAIN line \ {1} /\ line'[j] = line[j + 1]
          BY <4>1
        <4>3. QED
          BY <4>1, <4>2
      <3>3. QED
        BY <3>1, <3>2
    <2>1. DurableTypeOK'
      BY <2>a DEF DurableTypeOK
    <2>2. Numbered' /\ Flows' /\ Homes'
      BY DEF Numbered, Flows, Homes
    <2>5. Early'
      BY <2>e DEF Early
    <2>7. Leaving'
      BY <2>a DEF Leaving
    <2>8. QED
      BY <2>a, <2>1, <2>2, <2>5, <2>7
  <1>12. ASSUME NEW o \in Queued, StartWaiting(o) PROVE DurableInv'
    <2> USE <1>12 DEF StartWaiting, Granted, Answered, MayLose
    <2>u. /\ UNCHANGED <<flow, did, phase, turns, swept, unsure, withdrawing, loaded,
                         executed, workflows, callers, ready, missed, crashes>>
          /\ line # <<>> /\ Head(line).who = o /\ Head(line).at = "start"
          /\ faults' \in 0..MaxFaults /\ asked' \subseteq Ops /\ o \in Ops
          /\ unheard' \subseteq Ops
      BY DEF DurableTypeOK
    <2>v. \/ /\ row[o].state = "waiting" /\ row' = [row EXCEPT ![o].state = "running"]
             /\ line' = [line EXCEPT ![1].at = "hold"] /\ places' = places
          \/ /\ row[o].state = "waiting" /\ row' = [row EXCEPT ![o].state = "running"]
             /\ line' = line /\ places' = places
          \/ Leave /\ row' = row
      OBVIOUS
    <2> HIDE <1>12
    <2> USE <2>u
    <2>h. 1 \in DOMAIN line /\ Head(line) = line[1] /\ line # <<>>
      BY DEF DurableTypeOK
    <2>e. phase \notin {"closed", "held"}
      BY <2>h DEF Early
    <2>l. \A i \in DOMAIN line : line[i].who \in Ops /\ line[i].op \in Ops
      BY PlacesTyped DEF DurableTypeOK
    <2>a. /\ line' \in Seq(LinePlaces) /\ places' \subseteq Queued
          /\ Placed' /\ Single'
          /\ \A j \in DOMAIN line' \ {1} :
                 \E k \in DOMAIN line \ {1} : line'[j] = line[k]
          /\ \/ /\ row' \in [Ops -> Rows] /\ row[o].state = "waiting"
                /\ row'[o].state = "running" /\ row'[o].asks = row[o].asks
                /\ \A p \in Ops \ {o} : row'[p] = row[p]
             \/ row' = row
      <3>1. CASE /\ row[o].state = "waiting" /\ row' = [row EXCEPT ![o].state = "running"]
                 /\ line' = [line EXCEPT ![1].at = "hold"] /\ places' = places
        <4>r. /\ row' \in [Ops -> Rows]
              /\ row'[o].state = "running" /\ row'[o].asks = row[o].asks
              /\ \A p \in Ops \ {o} : row'[p] = row[p]
          BY <3>1, StateSet
        <4> DEFINE l == [line EXCEPT ![1].at = "hold"]
        <4>1. /\ l \in Seq(LinePlaces) /\ DOMAIN l = DOMAIN line
              /\ l[1] = Place(line[1].who, line[1].op, "hold")
              /\ l # <<>> /\ Head(l) = l[1]
              /\ \A i \in DOMAIN line \ {1} : l[i] = line[i]
          <5>1. line \in Seq(LinePlaces)
            BY DEF DurableTypeOK
          <5>2. QED
            BY <2>h, <5>1, FirstMoves
        <4>2. line' = l
          BY <3>1
        <4> HIDE DEF l
        <4>3. /\ \A i \in DOMAIN line : l[i].who = line[i].who /\ l[i].op = line[i].op
              /\ l[1].at = "hold" /\ l[1].who = o /\ l[1].op = o
          BY <2>h, <4>1 DEF Place, Placed
        <4>4. \A i \in DOMAIN line : line[i].op \in Ops
          BY PlacesTyped DEF DurableTypeOK
        <4>5. Placed'
          BY <2>h, <3>1, <4>1, <4>2, <4>3, <4>4, <4>r DEF Placed
        <4>6. Single'
          BY <2>h, <3>1, <4>1, <4>2, <4>3 DEF Single
        <4>7. QED
          BY <3>1, <4>1, <4>2, <4>5, <4>6, <4>r DEF DurableTypeOK
      <3>2. CASE /\ row[o].state = "waiting" /\ row' = [row EXCEPT ![o].state = "running"]
                 /\ line' = line /\ places' = places
        <4>r. /\ row' \in [Ops -> Rows]
              /\ row'[o].state = "running" /\ row'[o].asks = row[o].asks
              /\ \A p \in Ops \ {o} : row'[p] = row[p]
          BY <3>2, StateSet
        <4>1. Placed'
          BY <2>l, <3>2, <4>r DEF Placed
        <4>2. Single'
          BY <3>2 DEF Single
        <4>3. QED
          BY <3>2, <4>r, <4>1, <4>2 DEF DurableTypeOK
      <3>3. CASE Leave /\ row' = row
        <4>1. /\ line' \in Seq(LinePlaces) /\ places' \subseteq Queued
              /\ Placed' /\ Single'
              /\ \A j \in DOMAIN line' : j + 1 \in DOMAIN line /\ line'[j] = line[j + 1]
                                           /\ j \in Nat \ {0}
          BY <3>3, <2>h, LeaveKeeps
        <4>2. \A j \in DOMAIN line' : j + 1 \in DOMAIN line \ {1} /\ line'[j] = line[j + 1]
          BY <4>1
        <4>3. QED
          BY <3>3, <4>1, <4>2
      <3>4. QED
        BY <2>v, <3>1, <3>2, <3>3
    <2>1. DurableTypeOK'
      BY <2>a DEF DurableTypeOK
    <2>2. Numbered'
      <3>1. CASE row' = row
        BY <3>1 DEF Numbered
      <3>2. CASE /\ row'[o].state = "running" /\ row[o].state = "waiting"
                 /\ \A p \in Ops \ {o} : row'[p] = row[p]
        <4>1. o \notin Starters
          BY DEF Queued
        <4>2. \A p \in Ops : row'[p].state = "absent" <=> row[p].state = "absent"
          BY <3>2
        <4>3. \A p \in Ops : row'[p].state = "absent" => row'[p] = row[p]
          BY <3>2
        <4>4. \A p \in Starters : row'[p] = row[p]
          BY <3>2, <4>1
        <4>5. QED
          BY <4>2, <4>3, <4>4 DEF Numbered
      <3>3. QED
        BY <2>a, <3>1, <3>2
    <2>3. Flows'
      <3>1. /\ UNCHANGED <<flow, did, loaded, executed, run, took>>
            /\ flow \in [Ops -> {"none", "started", "acted", "done"}]
        BY DEF DurableTypeOK
      <3>2. \/ row' = row
            \/ /\ row'[o].state = "running" /\ row[o].state = "waiting"
               /\ \A p \in Ops \ {o} : row'[p] = row[p]
        BY <2>a
      <3>3. QED
        BY <3>1, <3>2 DEF Flows
    <2>4. Homes'
      BY <2>a DEF DurableTypeOK, Homes
    <2>5. Early'
      BY <2>e DEF Early
    <2>7. Leaving'
      BY <2>a, <2>l DEF Leaving
    <2>8. QED
      BY <2>a, <2>1, <2>2, <2>3, <2>4, <2>5, <2>7
  <1>13. ASSUME NEW o \in Ops, EndHold(o) PROVE DurableInv'
    <2> USE <1>13 DEF EndHold, Granted
    <2>u. /\ UNCHANGED <<stored, phase, turns, swept, unsure, withdrawing, dispatching,
                         workflows, callers, others>>
          /\ line # <<>> /\ Leave /\ row[Head(line).op].state # "running"
      OBVIOUS
    <2> HIDE <1>13
    <2> USE <2>u
    <2>a. /\ line' \in Seq(LinePlaces) /\ places' \subseteq Queued
          /\ Placed' /\ Single' /\ places' \subseteq places
          /\ \A j \in DOMAIN line' \ {1} :
                 \E k \in DOMAIN line \ {1} : line'[j] = line[k]
          /\ \A j \in DOMAIN line' : \E k \in DOMAIN line : line'[j] = line[k]
      <3>1. /\ line' \in Seq(LinePlaces) /\ places' \subseteq Queued
            /\ Placed' /\ Single'
            /\ \A j \in DOMAIN line' : j + 1 \in DOMAIN line /\ line'[j] = line[j + 1]
                                         /\ j \in Nat \ {0}
        BY LeaveKeeps
      <3>2. \A j \in DOMAIN line' : j + 1 \in DOMAIN line \ {1} /\ line'[j] = line[j + 1]
        BY <3>1
      <3>3. places' \subseteq places
        BY DEF Leave
      <3>4. QED
        BY <3>1, <3>2, <3>3
    <2>1. DurableTypeOK'
      BY <2>a DEF DurableTypeOK
    <2>2. Numbered' /\ Flows' /\ Homes'
      BY DEF Numbered, Flows, Homes
    <2>5. Early'
      BY <2>a DEF Early
    <2>7. Leaving'
      BY <2>a DEF Leaving
    <2>8. QED
      BY <2>a, <2>1, <2>2, <2>5, <2>7
  <1>14. ASSUME NEW s \in Starters, Find(s) PROVE DurableInv'
    <2> USE <1>14 DEF Find
    <2>1. DurableTypeOK'
      BY DEF DurableTypeOK
    <2>2. Numbered'
      BY DEF DurableTypeOK, Numbered, NoRow
    <2>3. Flows'
      BY DEF DurableTypeOK, Flows
    <2>4. Homes'
      BY DEF DurableTypeOK, Homes
    <2>5. Early'
      BY DEF DurableTypeOK, Early
    <2>6. Placed' /\ Single'
      BY DEF DurableTypeOK, Placed, Single
    <2>7. Leaving'
      BY DEF DurableTypeOK, Leaving
    <2>8. QED
      BY <2>1, <2>2, <2>3, <2>4, <2>5, <2>6, <2>7
  <1>15. ASSUME NEW s \in Starters, Admit(s) PROVE DurableInv'
    <2> USE <1>15 DEF Admit
    <2>u. /\ UNCHANGED <<stored, phase, places, turns, swept, unsure, withdrawing,
                         dispatching, workflows, ask, home, others>>
          /\ phase = "open" /\ s \in Ops
          /\ start' = [start EXCEPT ![s] = "refused"] \/ start' = [start EXCEPT ![s] = "lined"]
      OBVIOUS
    <2>v. \/ line' = line
          \/ line' = Append(line, Place(s, s, IF line = <<>> THEN "record" ELSE "again"))
      OBVIOUS
    <2>w. s \notin places \union turns \union swept \union Queued
      BY DEF DurableTypeOK, Queued
    <2> HIDE <1>15
    <2> USE <2>u
    <2>a. /\ line' \in Seq(LinePlaces) /\ Placed' /\ Single'
          /\ line # <<>> => line' # <<>> /\ Head(line') = Head(line)
          /\ \A j \in DOMAIN line' :
                 line'[j].who = s \/ (j \in DOMAIN line /\ line'[j] = line[j])
      <3>1. CASE line' = line
        BY <3>1 DEF DurableTypeOK, Placed, Single
      <3>2. CASE line' = Append(line, Place(s, s, IF line = <<>> THEN "record" ELSE "again"))
        <4> DEFINE e == Place(s, s, IF line = <<>> THEN "record" ELSE "again")
        <4>1. e \in LinePlaces /\ e.who = s /\ e.op = s /\ e.at \in {"record", "again"}
          BY DEF LinePlaces, Place
        <4>2. line \in Seq(LinePlaces) /\ line' = Append(line, e)
          BY <3>2 DEF DurableTypeOK
        <4> HIDE DEF e
        <4>3. /\ line' \in Seq(LinePlaces) /\ line' # <<>>
              /\ DOMAIN line' = DOMAIN line \cup {Len(line) + 1}
              /\ \A i \in DOMAIN line : line'[i] = line[i]
              /\ line'[Len(line) + 1] = e
              /\ line # <<>> => Head(line') = Head(line)
          BY <4>1, <4>2, Appended
        <4>4. Placed'
          BY <4>1, <4>3 DEF Placed
        <4>5. Single'
          <5>1. ASSUME NEW i \in DOMAIN line', NEW j \in DOMAIN line', i # j,
                       line'[i].who = line'[j].who
                PROVE  line'[i].who \notin places
            BY <2>w, <4>1, <4>3, <5>1 DEF Single
          <5>2. ASSUME NEW i \in DOMAIN line', line'[i].who \notin places
                PROVE  line'[i].who \notin turns \union swept
            BY <2>w, <4>1, <4>3, <5>2 DEF Single
          <5>3. QED
            BY <5>1, <5>2 DEF Single
        <4>6. QED
          BY <4>1, <4>3, <4>4, <4>5
      <3>3. QED
        BY <2>v, <3>1, <3>2
    <2>1. DurableTypeOK'
      BY <2>a DEF DurableTypeOK
    <2>2. Numbered' /\ Flows' /\ Homes'
      BY DEF Numbered, Flows, Homes
    <2>5. Early'
      BY DEF Early
    <2>7. Leaving'
      <3>1. row[s].state # "cancelled"
        BY DEF Numbered
      <3>2. QED
        BY <2>a, <3>1 DEF Leaving
    <2>8. QED
      BY <2>a, <2>1, <2>2, <2>5, <2>7
  <1>16. ASSUME NEW s \in Starters, GiveUp(s) PROVE DurableInv'
    <2> USE <1>16 DEF GiveUp
    <2>u. /\ UNCHANGED <<stored, phase, places, turns, swept, unsure, withdrawing,
                         dispatching, workflows, ask, home, others>>
          /\ start' = [start EXCEPT ![s] = "refused"] /\ s \in Ops
          /\ line' = line \/ Withdraw(s)
      OBVIOUS
    <2>v. s \notin places
      BY DEF DurableTypeOK, Queued
    <2> HIDE <1>16
    <2> USE <2>u
    <2>a. /\ line' \in Seq(LinePlaces) /\ Placed' /\ Single'
          /\ line' = <<>> <=> line = <<>>
          /\ line # <<>> => Head(line') = Head(line)
          /\ \A j \in DOMAIN line' \ {1} :
                 \E k \in DOMAIN line \ {1} : line'[j] = line[k]
      <3>1. CASE line' = line
        BY <3>1 DEF DurableTypeOK, Placed, Single
      <3>2. CASE Withdraw(s)
        BY <2>v, <3>2, WithdrawKeeps
      <3>3. QED
        BY <3>1, <3>2
    <2>1. DurableTypeOK'
      BY <2>a DEF DurableTypeOK
    <2>2. Numbered' /\ Flows' /\ Homes'
      BY DEF Numbered, Flows, Homes
    <2>5. Early'
      <3>1. \A j \in DOMAIN line' : \E k \in DOMAIN line : line'[j] = line[k]
        <4>1. ASSUME NEW j \in DOMAIN line' PROVE \E k \in DOMAIN line : line'[j] = line[k]
          <5>1. CASE j = 1
            <6>1. line' # <<>> /\ Head(line') = line'[1]
              BY <2>a, <5>1
            <6>2. line # <<>> /\ Head(line) = line[1] /\ 1 \in DOMAIN line
              BY <2>a, <6>1 DEF DurableTypeOK
            <6>3. QED
              BY <2>a, <5>1, <6>1, <6>2
          <5>2. CASE j # 1
            BY <2>a, <5>2
          <5>3. QED
            BY <5>1, <5>2
        <4>2. QED
          BY <4>1
      <3>2. QED
        BY <3>1 DEF Early
    <2>7. Leaving'
      BY <2>a DEF Leaving
    <2>8. QED
      BY <2>a, <2>1, <2>2, <2>5, <2>7
  <1>17. ASSUME NEW s \in Starters, Record(s) PROVE DurableInv'
    <2> USE <1>17 DEF Record, Granted
    <2>u. /\ UNCHANGED <<flow, did, phase, places, turns, swept, unsure, withdrawing,
                         loaded, executed, workflows, ask, home, others>>
          /\ line # <<>> /\ Head(line).who = s /\ Head(line).at \in {"record", "again"}
          /\ start' = [start EXCEPT ![s] = "answered"]
          /\ asked' \subseteq Ops /\ s \in Ops
      BY DEF DurableTypeOK
    <2>v. \/ /\ Recorded = {} /\ row' = [row EXCEPT ![s].state = "running"]
             /\ line' = [line EXCEPT ![1].at = "hold"]
          \/ /\ row' = row
             /\ \E found \in Recorded : line' = [line EXCEPT ![1] = Place(s, found, "hold")]
      OBVIOUS
    <2> HIDE <1>17
    <2> USE <2>u
    <2>h. 1 \in DOMAIN line /\ Head(line) = line[1] /\ line # <<>>
      BY DEF DurableTypeOK
    <2>e. phase \notin {"closed", "held"}
      BY <2>h DEF Early
    <2>l. \A i \in DOMAIN line : line[i].who \in Ops /\ line[i].op \in Ops
      BY PlacesTyped DEF DurableTypeOK
    <2>a. /\ line' \in Seq(LinePlaces) /\ places' \subseteq Queued
          /\ Placed' /\ Single'
          /\ \A j \in DOMAIN line' \ {1} :
                 \E k \in DOMAIN line \ {1} : line'[j] = line[k]
          /\ \/ /\ row' \in [Ops -> Rows] /\ row[s].state = "absent"
                /\ row'[s].state = "running" /\ row'[s].asks = row[s].asks
                /\ \A p \in Ops \ {s} : row'[p] = row[p]
             \/ row' = row
      <3>1. CASE /\ Recorded = {} /\ row' = [row EXCEPT ![s].state = "running"]
                 /\ line' = [line EXCEPT ![1].at = "hold"]
        <4>r. /\ row' \in [Ops -> Rows] /\ row[s].state = "absent"
              /\ row'[s].state = "running" /\ row'[s].asks = row[s].asks
              /\ \A p \in Ops \ {s} : row'[p] = row[p]
          BY <3>1, StateSet DEF Recorded
        <4> DEFINE l == [line EXCEPT ![1].at = "hold"]
        <4>1. /\ l \in Seq(LinePlaces) /\ DOMAIN l = DOMAIN line
              /\ l[1] = Place(line[1].who, line[1].op, "hold")
              /\ l # <<>> /\ Head(l) = l[1]
              /\ \A i \in DOMAIN line \ {1} : l[i] = line[i]
          <5>1. line \in Seq(LinePlaces)
            BY DEF DurableTypeOK
          <5>2. QED
            BY <2>h, <5>1, FirstMoves
        <4>2. line' = l
          BY <3>1
        <4> HIDE DEF l
        <4>3. /\ \A i \in DOMAIN line : l[i].who = line[i].who /\ l[i].op = line[i].op
              /\ l[1].at = "hold" /\ l[1].who = s /\ l[1].op = s
          BY <2>h, <4>1 DEF Place, Placed
        <4>4. \A i \in DOMAIN line : line[i].op \in Ops
          BY PlacesTyped DEF DurableTypeOK
        <4>5. Placed'
          BY <2>h, <3>1, <4>1, <4>2, <4>3, <4>4, <4>r DEF Placed
        <4>6. Single'
          BY <2>h, <3>1, <4>1, <4>2, <4>3 DEF Single
        <4>7. QED
          BY <3>1, <4>1, <4>2, <4>5, <4>6, <4>r DEF DurableTypeOK
      <3>2. CASE /\ row' = row
                 /\ \E found \in Recorded : line' = [line EXCEPT ![1] = Place(s, found, "hold")]
        <4>1. PICK found \in Recorded : line' = [line EXCEPT ![1] = Place(s, found, "hold")]
          BY <3>2
        <4>2. /\ found \in Ops /\ s \notin Queued
              /\ row[found].state \in {"running", "ended"}
          BY DEF Recorded, DurableTypeOK, Rows, Numbered, Queued
        <4> DEFINE e == Place(s, found, "hold")
        <4>3. e \in LinePlaces /\ e.who = s /\ e.op = found /\ e.at = "hold"
          BY <4>2 DEF LinePlaces, Place
        <4>4. line' = [line EXCEPT ![1] = e]
          BY <4>1
        <4> HIDE DEF e
        <4>5. /\ line' \in Seq(LinePlaces) /\ DOMAIN line' = DOMAIN line
              /\ line'[1] = e /\ \A i \in DOMAIN line \ {1} : line'[i] = line[i]
          <5>1. line \in Seq(LinePlaces) /\ 1 \in 1..Len(line)
            BY DEF DurableTypeOK
          <5>2. QED
            BY <2>h, <4>3, <4>4, <5>1, ExceptSeq
        <4>6. Placed'
          BY <3>2, <4>2, <4>3, <4>5 DEF Placed
        <4>7. \A i \in DOMAIN line : line'[i].who = line[i].who
          BY <2>h, <4>3, <4>5
        <4>8. Single'
          BY <4>5, <4>7 DEF Single
        <4>9. QED
          BY <3>2, <4>5, <4>6, <4>8 DEF DurableTypeOK
      <3>3. QED
        BY <2>v, <3>1, <3>2
    <2>1. DurableTypeOK'
      BY <2>a DEF DurableTypeOK
    <2>2. Numbered'
      <3>1. CASE row' = row
        BY <3>1 DEF Numbered
      <3>2. CASE /\ row'[s].state = "running" /\ row[s].state = "absent"
                 /\ \A p \in Ops \ {s} : row'[p] = row[p]
        <4>1. s \notin Queued
          BY DEF Queued
        <4>2. \A p \in Queued : row'[p] = row[p]
          BY <3>2, <4>1
        <4>3. \A p \in Ops : row'[p].state = "absent" => row'[p] = row[p]
          BY <3>2
        <4>4. \A p \in Starters : row'[p].state \notin {"waiting", "cancelled"}
          BY <3>2 DEF Numbered
        <4>5. QED
          BY <4>2, <4>3, <4>4 DEF Numbered
      <3>3. QED
        BY <2>a, <3>1, <3>2
    <2>3. Flows'
      <3>1. /\ UNCHANGED <<flow, did, loaded, executed, run, took>>
            /\ flow \in [Ops -> {"none", "started", "acted", "done"}]
        BY DEF DurableTypeOK
      <3>2. \/ row' = row
            \/ /\ row'[s].state = "running" /\ row[s].state = "absent"
               /\ \A p \in Ops \ {s} : row'[p] = row[p]
        BY <2>a
      <3>3. QED
        BY <3>1, <3>2 DEF Flows
    <2>4. Homes'
      BY <2>a DEF DurableTypeOK, Homes
    <2>5. Early'
      BY <2>e DEF Early
    <2>7. Leaving'
      BY <2>a, <2>l DEF Leaving
    <2>8. QED
      BY <2>a, <2>1, <2>2, <2>3, <2>4, <2>5, <2>7
  <1>18. ASSUME NEW s \in Starters, RecordFails(s) PROVE DurableInv'
    <2> USE <1>18 DEF RecordFails, Granted, Answered, MayFail, MayLose
    <2>u. /\ UNCHANGED <<flow, did, phase, turns, swept, unsure, withdrawing,
                         dispatching, workflows, ask, home, ready, missed, crashes>>
          /\ line # <<>> /\ Head(line).who = s /\ Head(line).at \in {"record", "again"}
          /\ start' = [start EXCEPT ![s] = "refused"] /\ Leave
          /\ faults' \in 0..MaxFaults /\ s \in Ops /\ unheard' \subseteq Ops
      BY DEF DurableTypeOK
    <2>v. \/ row' = row
          \/ /\ Recorded = {} /\ row' = [row EXCEPT ![s].state = "running"]
      OBVIOUS
    <2> HIDE <1>18
    <2> USE <2>u
    <2>h. 1 \in DOMAIN line /\ Head(line) = line[1] /\ line # <<>>
      BY DEF DurableTypeOK
    <2>e. phase \notin {"closed", "held"}
      BY <2>h DEF Early
    <2>l. \A i \in DOMAIN line : line[i].who \in Ops /\ line[i].op \in Ops
      BY PlacesTyped DEF DurableTypeOK
    <2>r. \/ row' = row
          \/ /\ row' \in [Ops -> Rows] /\ row[s].state = "absent"
             /\ row'[s].state = "running" /\ row'[s].asks = row[s].asks
             /\ \A p \in Ops \ {s} : row'[p] = row[p]
      <3>1. CASE Recorded = {} /\ row' = [row EXCEPT ![s].state = "running"]
        BY <3>1, StateSet DEF Recorded
      <3>2. QED
        BY <2>v, <3>1
    <2>a. /\ line' \in Seq(LinePlaces) /\ places' \subseteq Queued
          /\ Placed' /\ Single'
          /\ \A j \in DOMAIN line' \ {1} :
                 \E k \in DOMAIN line \ {1} : line'[j] = line[k]
          /\ row' \in [Ops -> Rows]
      <3>1. /\ \A o \in Ops : row[o].state \in {"running", "ended"} =>
                                row'[o].state \in {"running", "ended"}
            /\ row' \in [Ops -> Rows]
        BY <2>r DEF DurableTypeOK
      <3>2. CASE Leave
        <4>1. /\ line' \in Seq(LinePlaces) /\ places' \subseteq Queued
              /\ Placed' /\ Single'
              /\ \A j \in DOMAIN line' : j + 1 \in DOMAIN line /\ line'[j] = line[j + 1]
                                           /\ j \in Nat \ {0}
          BY <3>1, <3>2, <2>h, LeaveKeeps
        <4>2. \A j \in DOMAIN line' : j + 1 \in DOMAIN line \ {1} /\ line'[j] = line[j + 1]
          BY <4>1
        <4>3. QED
          BY <3>1, <4>1, <4>2
      <3>3. QED
        BY <3>2
    <2>1. DurableTypeOK'
      <3>1. start' \in [Starters -> {"idle", "opening", "lined", "answered", "refused"}]
        BY DEF DurableTypeOK
      <3>2. QED
        BY <2>a, <3>1 DEF DurableTypeOK
    <2>2. Numbered'
      <3>1. CASE row' = row
        BY <3>1 DEF Numbered
      <3>2. CASE /\ row'[s].state = "running" /\ row[s].state = "absent"
                 /\ \A p \in Ops \ {s} : row'[p] = row[p]
        <4>1. s \notin Queued
          BY DEF Queued
        <4>2. \A p \in Queued : row'[p] = row[p]
          BY <3>2, <4>1
        <4>3. \A p \in Ops : row'[p].state = "absent" => row'[p] = row[p]
          BY <3>2
        <4>4. \A p \in Starters : row'[p].state \notin {"waiting", "cancelled"}
          BY <3>2 DEF Numbered
        <4>5. QED
          BY <4>2, <4>3, <4>4 DEF Numbered
      <3>3. QED
        BY <2>r, <3>1, <3>2
    <2>3. Flows'
      <3>1. /\ UNCHANGED <<flow, did, loaded, executed, run, took>>
            /\ flow \in [Ops -> {"none", "started", "acted", "done"}]
        BY DEF DurableTypeOK
      <3>2. \/ row' = row
            \/ /\ row'[s].state = "running" /\ row[s].state = "absent"
               /\ \A p \in Ops \ {s} : row'[p] = row[p]
        BY <2>r
      <3>3. QED
        BY <3>1, <3>2 DEF Flows
    <2>4. Homes'
      BY <2>r DEF DurableTypeOK, Homes
    <2>5. Early'
      BY <2>e DEF Early
    <2>7. Leaving'
      <3>1. \A p \in Ops : row'[p].state = "cancelled" => row[p].state = "cancelled"
        BY <2>r
      <3>2. QED
        BY <2>a, <2>l, <3>1 DEF Leaving
    <2>8. QED
      BY <2>a, <2>1, <2>2, <2>3, <2>4, <2>5, <2>7
  <1>19. ASSUME NEW o \in Ops, DispatchLoads(o) PROVE DurableInv'
    <2> USE <1>19 DEF DispatchLoads, Answered, MayFail
    <2>1. DurableTypeOK'
      BY DEF DurableTypeOK
    <2>2. Numbered'
      BY DEF DurableTypeOK, Numbered, NoRow
    <2>3. Flows'
      BY DEF DurableTypeOK, Flows
    <2>4. Homes'
      BY DEF DurableTypeOK, Homes
    <2>5. Early'
      BY DEF DurableTypeOK, Early
    <2>6. Placed' /\ Single'
      BY DEF DurableTypeOK, Placed, Single
    <2>7. Leaving'
      BY DEF DurableTypeOK, Leaving
    <2>8. QED
      BY <2>1, <2>2, <2>3, <2>4, <2>5, <2>6, <2>7
  <1>20. ASSUME NEW o \in Ops, DispatchExecutes(o) PROVE DurableInv'
    <2> USE <1>20 DEF DispatchExecutes
    <2>1. DurableTypeOK'
      BY DEF DurableTypeOK
    <2>2. Numbered'
      BY DEF DurableTypeOK, Numbered, NoRow
    <2>3. Flows'
      BY DEF DurableTypeOK, Flows
    <2>4. Homes'
      BY DEF DurableTypeOK, Homes
    <2>5. Early'
      BY DEF DurableTypeOK, Early
    <2>6. Placed' /\ Single'
      BY DEF DurableTypeOK, Placed, Single
    <2>7. Leaving'
      BY DEF DurableTypeOK, Leaving
    <2>8. QED
      BY <2>1, <2>2, <2>3, <2>4, <2>5, <2>6, <2>7
  <1>21. ASSUME NEW o \in Ops, RecordExecution(o) PROVE DurableInv'
    <2> USE <1>21 DEF RecordExecution, Answered, MayFail, MayLose
    <2>a. /\ row' \in [Ops -> Rows] /\ faults' \in 0..MaxFaults
          /\ \A p \in Ops : row'[p].state = row[p].state /\ row'[p].asks = row[p].asks
          /\ \/ row' = row
             \/ \A p \in Ops \ {o} : row'[p] = row[p]
      <3>1. faults' \in 0..MaxFaults
        BY DEF DurableTypeOK
      <3>2. CASE row' = [row EXCEPT ![o].sent = TRUE]
        <4>1. row[o] \in Rows /\ row \in [Ops -> Rows]
          BY DEF DurableTypeOK
        <4> DEFINE r == [row[o] EXCEPT !.sent = TRUE]
        <4>2. r \in Rows /\ r.state = row[o].state /\ r.asks = row[o].asks
          BY <4>1 DEF Rows
        <4>3. row' = [row EXCEPT ![o] = r]
          BY <3>2
        <4> HIDE DEF r
        <4>4. QED
          BY <3>1, <4>1, <4>2, <4>3
      <3>3. QED
        BY <3>1, <3>2 DEF DurableTypeOK
    <2>u. /\ UNCHANGED <<flow, did, lanes, asked, loaded, workflows, callers, ready, history, crashes>>
          /\ executed' = executed \ {o} /\ o \in executed
      OBVIOUS
    <2> HIDE <1>21
    <2> USE <2>a, <2>u
    <2>l. \A i \in DOMAIN line : line[i].who \in Ops /\ line[i].op \in Ops
      BY PlacesTyped DEF DurableTypeOK
    <2>1. DurableTypeOK'
      BY DEF DurableTypeOK
    <2>2. Numbered'
      <3>1. row[o].state # "absent"
        BY DEF Flows
      <3>2. QED
        BY <3>1 DEF Numbered, NoRow
    <2>3. Flows'
      BY DEF DurableTypeOK, Flows
    <2>4. Homes'
      BY DEF DurableTypeOK, Homes
    <2>5. Early'
      BY DEF DurableTypeOK, Early
    <2>6. Placed' /\ Single'
      BY <2>l DEF DurableTypeOK, Placed, Single
    <2>7. Leaving'
      BY <2>l DEF DurableTypeOK, Leaving
    <2>8. QED
      BY <2>1, <2>2, <2>3, <2>4, <2>5, <2>6, <2>7
  <1>22. ASSUME NEW o \in Ops, Begin(o) PROVE DurableInv'
    <2> USE <1>22 DEF Begin
    <2>1. DurableTypeOK'
      <3>1. row[o].asks \subseteq Asks
        BY DEF DurableTypeOK, Rows
      <3>2. /\ took' \in [Ops -> SUBSET Asks]
            /\ run' \in [Ops -> {"off", "acting", "finishing", "closing"}]
        BY <3>1 DEF DurableTypeOK
      <3>3. QED
        BY <3>2 DEF DurableTypeOK
    <2>2. Numbered'
      BY DEF DurableTypeOK, Numbered, NoRow
    <2>3. Flows'
      BY DEF DurableTypeOK, Flows
    <2>4. Homes'
      BY DEF DurableTypeOK, Homes
    <2>5. Early'
      BY DEF DurableTypeOK, Early
    <2>6. Placed' /\ Single'
      BY DEF DurableTypeOK, Placed, Single
    <2>7. Leaving'
      BY DEF DurableTypeOK, Leaving
    <2>8. QED
      BY <2>1, <2>2, <2>3, <2>4, <2>5, <2>6, <2>7
  <1>23. ASSUME NEW o \in Ops, Act(o) PROVE DurableInv'
    <2> USE <1>23 DEF Act
    <2>1. DurableTypeOK'
      BY DEF DurableTypeOK
    <2>2. Numbered'
      BY DEF DurableTypeOK, Numbered, NoRow
    <2>3. Flows'
      BY DEF DurableTypeOK, Flows
    <2>4. Homes'
      BY DEF DurableTypeOK, Homes
    <2>5. Early'
      BY DEF DurableTypeOK, Early
    <2>6. Placed' /\ Single'
      BY DEF DurableTypeOK, Placed, Single
    <2>7. Leaving'
      BY DEF DurableTypeOK, Leaving
    <2>8. QED
      BY <2>1, <2>2, <2>3, <2>4, <2>5, <2>6, <2>7
  <1>24. ASSUME NEW o \in Ops, Finish(o) PROVE DurableInv'
    <2> USE <1>24 DEF Finish, Answered, MayLose
    <2>u. /\ UNCHANGED <<flow, did, lanes, dispatching, engine, took, callers, ready,
                         history, crashes>>
          /\ faults' \in 0..MaxFaults
          /\ run' = [run EXCEPT ![o] = "closing"] \/ run' = run
          /\ run[o] = "finishing"
      BY DEF DurableTypeOK
    <2>s. row[o].state \in {"running", "ended"} /\ row[o].asks \subseteq did[o]
          /\ flow[o] = "acted"
      BY DEF Flows
    <2>r. /\ row' \in [Ops -> Rows]
          /\ row'[o].state = "ended" /\ row'[o].asks = row[o].asks
          /\ \A p \in Ops \ {o} : row'[p] = row[p]
      <3>1. CASE row[o].state = "running"
        <4>1. row' = [row EXCEPT ![o].state = "ended"]
          BY <3>1
        <4>2. QED
          BY <4>1, StateSet
      <3>2. CASE row[o].state = "ended"
        BY <3>2 DEF DurableTypeOK
      <3>3. QED
        BY <2>s, <3>1, <3>2
    <2> HIDE <1>24
    <2> USE <2>u, <2>s, <2>r
    <2>l. \A i \in DOMAIN line : line[i].who \in Ops /\ line[i].op \in Ops
      BY PlacesTyped DEF DurableTypeOK
    <2>1. DurableTypeOK'
      BY DEF DurableTypeOK
    <2>2. Numbered'
      BY DEF DurableTypeOK, Numbered, NoRow
    <2>3. Flows'
      BY DEF DurableTypeOK, Flows
    <2>4. Homes'
      BY DEF DurableTypeOK, Homes
    <2>5. Early'
      BY DEF DurableTypeOK, Early
    <2>6. Placed' /\ Single'
      BY <2>l DEF DurableTypeOK, Placed, Single
    <2>7. Leaving'
      BY <2>l DEF DurableTypeOK, Leaving
    <2>8. QED
      BY <2>1, <2>2, <2>3, <2>4, <2>5, <2>6, <2>7
  <1>25. ASSUME NEW o \in Ops, Close(o) PROVE DurableInv'
    <2> USE <1>25 DEF Close
    <2>1. DurableTypeOK'
      BY DEF DurableTypeOK
    <2>2. Numbered'
      BY DEF DurableTypeOK, Numbered, NoRow
    <2>3. Flows'
      BY DEF DurableTypeOK, Flows
    <2>4. Homes'
      BY DEF DurableTypeOK, Homes
    <2>5. Early'
      BY DEF DurableTypeOK, Early
    <2>6. Placed' /\ Single'
      BY DEF DurableTypeOK, Placed, Single
    <2>7. Leaving'
      BY DEF DurableTypeOK, Leaving
    <2>8. QED
      BY <2>1, <2>2, <2>3, <2>4, <2>5, <2>6, <2>7
  <1>26. ASSUME RestoreRunning PROVE DurableInv'
    <2> USE <1>26 DEF RestoreRunning
    <2>u. /\ UNCHANGED <<stored, places, turns, swept, unsure, withdrawing, dispatching,
                         workflows, callers, others>>
          /\ phase = "closed" /\ phase' = "held"
      OBVIOUS
    <2> DEFINE S == {Place(o, o, "hold") : o \in With("running")}
               t == SetToSeq(S)
    <2>v. line' = line \o t
      OBVIOUS
    <2> HIDE <1>26
    <2> USE <2>u
    <2>s. /\ S \subseteq LinePlaces
          /\ \A e \in S : e.who = e.op /\ e.at = "hold" /\ row[e.op].state = "running"
      BY DEF With, LinePlaces, Place
    <2>i. IsFiniteSet(S)
      <3>1. IsFiniteSet(Ops)
        <4>1. 1 \in Int /\ MaxQueued \in Int
          OBVIOUS
        <4>2. IsFiniteSet(1..MaxQueued)
          BY <4>1, FS_Interval
        <4>3. QED
          BY <4>2, FS_Union DEF Queued
      <3>2. IsFiniteSet(With("running"))
        BY <3>1, FS_Subset DEF With
      <3> DEFINE f == [o \in With("running") |-> Place(o, o, "hold")]
      <3>3. f \in Surjection(With("running"), S)
        BY DEF Surjection
      <3>4. QED
        BY <3>2, <3>3, FS_Surjection
    <2>t. t \in Seq(LinePlaces) /\ \A i \in DOMAIN t : t[i] \in S
      <3>1. t \in Seq(S) /\ \A i \in DOMAIN t : t[i] \in S
        BY <2>i, SetToSeqIs
      <3> HIDE DEF t, S
      <3>2. QED
        BY <2>s, <3>1
    <2> HIDE DEF t
    <2>l. /\ line' \in Seq(LinePlaces)
          /\ \A i \in DOMAIN line' :
                 (i \in DOMAIN line /\ line'[i] = line[i]) \/ line'[i] \in S
          /\ line # <<>> => line' # <<>> /\ Head(line') = Head(line)
      <3>1. line \in Seq(LinePlaces)
        BY DEF DurableTypeOK
      <3> HIDE DEF S
      <3>2. /\ line' \in Seq(LinePlaces) /\ Len(line') = Len(line) + Len(t)
            /\ \A i \in 1..(Len(line) + Len(t)) :
                   line'[i] = IF i <= Len(line) THEN line[i] ELSE t[i - Len(line)]
        BY <2>t, <2>v, <3>1, ConcatProperties
      <3>3. /\ Len(line) \in Nat /\ DOMAIN line = 1..Len(line)
            /\ Len(t) \in Nat /\ DOMAIN t = 1..Len(t)
            /\ DOMAIN line' = 1..Len(line')
        BY <2>t, <3>1, <3>2
      <3>4. \A i \in DOMAIN line' :
               (i \in DOMAIN line /\ line'[i] = line[i]) \/ line'[i] \in S
        <4>1. ASSUME NEW i \in DOMAIN line', i \notin DOMAIN line PROVE line'[i] \in S
          <5>1. i - Len(line) \in DOMAIN t /\ ~(i <= Len(line)) /\ i \in 1..(Len(line) + Len(t))
            BY <3>2, <3>3, <4>1
          <5>2. QED
            BY <2>t, <3>2, <5>1
        <4>2. ASSUME NEW i \in DOMAIN line', i \in DOMAIN line PROVE line'[i] = line[i]
          BY <3>2, <3>3, <4>2
        <4>3. QED
          BY <4>1, <4>2
      <3>5. line # <<>> => line' # <<>> /\ Head(line') = Head(line)
        <4>1. ASSUME line # <<>> PROVE 1 \in DOMAIN line /\ Head(line) = line[1] /\ 1 <= Len(line)
          BY <3>1, <4>1
        <4>2. ASSUME line # <<>> PROVE line'[1] = line[1] /\ 1 \in DOMAIN line'
          BY <3>2, <3>3, <4>1, <4>2
        <4>3. ASSUME 1 \in DOMAIN line' PROVE line' # <<>> /\ Head(line') = line'[1]
          BY <3>2, <4>3
        <4>4. QED
          BY <4>1, <4>2, <4>3
      <3>6. QED
        BY <3>2, <3>4, <3>5
    <2> HIDE DEF S
    <2> USE <2>l
    <2>e. /\ swept = {} /\ places = {} /\ unsure = {}
          /\ \A i \in DOMAIN line : line[i].at = "hold"
          /\ \A o \in turns : row[o].state \in {"waiting", "cancelled"}
      BY DEF Early
    <2>1. DurableTypeOK'
      BY DEF DurableTypeOK
    <2>2. Numbered' /\ Flows' /\ Homes'
      BY DEF Numbered, Flows, Homes
    <2>5. Early'
      BY <2>s DEF Early
    <2>6. Placed' /\ Single'
      <3>1. Placed'
        BY <2>s, <2>e DEF Placed
      <3>2. Single'
        BY <2>s, <2>e DEF Single
      <3>3. QED
        BY <3>1, <3>2
    <2>7. Leaving'
      <3>1. \A i \in DOMAIN line' : line'[i] \in S => row[line'[i].who].state # "cancelled"
        BY <2>s
      <3>2. QED
        BY <3>1 DEF Leaving
    <2>8. QED
      BY <2>1, <2>2, <2>5, <2>6, <2>7
  <1>27. ASSUME RestoreWaiting PROVE DurableInv'
    <2> USE <1>27 DEF RestoreWaiting, Answered, MayFail
    <2>w. With("waiting") \subseteq Queued
      BY DEF With, Numbered
    <2>x. \A i \in DOMAIN line : line[i].who \notin places => line[i].who \notin With("waiting")
      <3>1. ASSUME NEW i \in DOMAIN line, line[i].who \notin places,
                   line[i].who \in With("waiting")
            PROVE  FALSE
        <4>1. line[i].who \in Queued /\ row[line[i].who].state = "waiting"
          BY <2>w, <3>1 DEF With
        <4>2. QED
          BY <3>1, <4>1, UnplacedRan
      <3>2. QED
        BY <3>1
    <2>1. DurableTypeOK'
      BY <2>w DEF DurableTypeOK
    <2>2. Numbered'
      BY <2>w DEF DurableTypeOK, Numbered, NoRow
    <2>3. Flows'
      BY <2>w DEF DurableTypeOK, Flows
    <2>4. Homes'
      BY <2>w DEF DurableTypeOK, Homes
    <2>5. Early'
      BY <2>w DEF DurableTypeOK, Early
    <2>6. Placed' /\ Single'
      BY <2>x DEF DurableTypeOK, Placed, Single
    <2>7. Leaving'
      BY DEF DurableTypeOK, Leaving
    <2>8. QED
      BY <2>1, <2>2, <2>3, <2>4, <2>5, <2>6, <2>7
  <1>28. ASSUME Open PROVE DurableInv'
    <2> USE <1>28 DEF Open
    <2>1. DurableTypeOK'
      BY DEF DurableTypeOK
    <2>2. Numbered'
      BY DEF DurableTypeOK, Numbered, NoRow
    <2>3. Flows'
      BY DEF DurableTypeOK, Flows
    <2>4. Homes'
      BY DEF DurableTypeOK, Homes
    <2>5. Early'
      BY DEF DurableTypeOK, Early
    <2>6. Placed' /\ Single'
      BY DEF DurableTypeOK, Placed, Single
    <2>7. Leaving'
      BY DEF DurableTypeOK, Leaving
    <2>8. QED
      BY <2>1, <2>2, <2>3, <2>4, <2>5, <2>6, <2>7
  <1>29. ASSUME NEW o \in Queued, SweepTakes(o) PROVE DurableInv'
    <2> USE <1>29 DEF SweepTakes, SweepNext
    <2>a. /\ line' \in Seq(LinePlaces) /\ places' \subseteq Queued
          /\ unsure' \subseteq Queued
          /\ Placed' /\ Single'
          /\ line # <<>> => line' # <<>> /\ Head(line') = Head(line)
          /\ \A j \in DOMAIN line' :
                 \/ j \in DOMAIN line /\ line'[j] = line[j]
                 \/ line'[j].who \in unsure'
          /\ unsure \subseteq unsure'
      <3>1. o \in turns \union swept /\ turns' \subseteq turns /\ swept' \subseteq swept
        OBVIOUS
      <3>2. QED
        BY <3>1, ReserveKeeps
    <2>1. DurableTypeOK'
      BY <2>a DEF DurableTypeOK
    <2>2. Numbered' /\ Flows' /\ Homes'
      BY DEF Numbered, Flows, Homes
    <2>5. Early'
      BY DEF Early
    <2>7. Leaving'
      BY <2>a DEF Leaving
    <2>8. QED
      BY <2>a, <2>1, <2>2, <2>5, <2>7
  <1>30. ASSUME SweepWaiting PROVE DurableInv'
    <2> USE <1>30 DEF SweepWaiting
    <2>w. With("waiting") \subseteq Queued
      BY DEF With, Numbered
    <2>x. \A i \in DOMAIN line : line[i].who \notin places => line[i].who \notin With("waiting")
      <3>1. ASSUME NEW i \in DOMAIN line, line[i].who \notin places,
                   line[i].who \in With("waiting")
            PROVE  FALSE
        <4>1. line[i].who \in Queued /\ row[line[i].who].state = "waiting"
          BY <2>w, <3>1 DEF With
        <4>2. QED
          BY <3>1, <4>1, UnplacedRan
      <3>2. QED
        BY <3>1
    <2>1. DurableTypeOK'
      BY <2>w DEF DurableTypeOK
    <2>2. Numbered'
      BY <2>w DEF DurableTypeOK, Numbered, NoRow
    <2>3. Flows'
      BY <2>w DEF DurableTypeOK, Flows
    <2>4. Homes'
      BY <2>w DEF DurableTypeOK, Homes
    <2>5. Early'
      BY <2>w DEF DurableTypeOK, Early
    <2>6. Placed' /\ Single'
      BY <2>x DEF DurableTypeOK, Placed, Single
    <2>7. Leaving'
      BY DEF DurableTypeOK, Leaving
    <2>8. QED
      BY <2>1, <2>2, <2>3, <2>4, <2>5, <2>6, <2>7
  <1>31. ASSUME SweepUndispatched PROVE DurableInv'
    <2> USE <1>31 DEF SweepUndispatched, With
    <2>1. DurableTypeOK'
      BY DEF DurableTypeOK
    <2>2. Numbered'
      BY DEF DurableTypeOK, Numbered, NoRow
    <2>3. Flows'
      BY DEF DurableTypeOK, Flows
    <2>4. Homes'
      BY DEF DurableTypeOK, Homes
    <2>5. Early'
      BY DEF DurableTypeOK, Early
    <2>6. Placed' /\ Single'
      BY DEF DurableTypeOK, Placed, Single
    <2>7. Leaving'
      BY DEF DurableTypeOK, Leaving
    <2>8. QED
      BY <2>1, <2>2, <2>3, <2>4, <2>5, <2>6, <2>7
  <1>32. ASSUME BecomeReady PROVE DurableInv'
    <2> USE <1>32 DEF BecomeReady
    <2>1. DurableTypeOK'
      BY DEF DurableTypeOK
    <2>2. Numbered'
      BY DEF DurableTypeOK, Numbered, NoRow
    <2>3. Flows'
      BY DEF DurableTypeOK, Flows
    <2>4. Homes'
      BY DEF DurableTypeOK, Homes
    <2>5. Early'
      BY DEF DurableTypeOK, Early
    <2>6. Placed' /\ Single'
      BY DEF DurableTypeOK, Placed, Single
    <2>7. Leaving'
      BY DEF DurableTypeOK, Leaving
    <2>8. QED
      BY <2>1, <2>2, <2>3, <2>4, <2>5, <2>6, <2>7
  <1>33. ASSUME Crash PROVE DurableInv'
    <2> USE <1>33 DEF Crash
    <2>1. DurableTypeOK'
      <3>1. /\ ask' \in [Asks -> {"idle", "inserting", "joining", "answered", "failed"}]
            /\ start' \in [Starters -> {"idle", "opening", "lined", "answered", "refused"}]
        BY DEF DurableTypeOK
      <3>2. run' \in [Ops -> {"off", "acting", "finishing", "closing"}] /\ took' \in [Ops -> SUBSET Asks]
        OBVIOUS
      <3>3. crashes' \in 0..MaxCrashes
        BY DEF DurableTypeOK
      <3>4. line' \in Seq(LinePlaces)
        OBVIOUS
      <3>5. {places', turns', swept', unsure', withdrawing'} \subseteq SUBSET Queued
        OBVIOUS
      <3>6. {asked', loaded', executed'} \subseteq SUBSET Ops
        OBVIOUS
      <3>7. QED
        BY <3>1, <3>2, <3>3, <3>4, <3>5, <3>6 DEF DurableTypeOK
    <2>2. Numbered'
      BY DEF DurableTypeOK, Numbered, NoRow
    <2>3. Flows'
      BY DEF DurableTypeOK, Flows
    <2>4. Homes'
      BY DEF DurableTypeOK, Homes
    <2>5. Early'
      BY DEF DurableTypeOK, Early
    <2>6. Placed' /\ Single'
      BY DEF DurableTypeOK, Placed, Single
    <2>7. Leaving'
      BY DEF DurableTypeOK, Leaving
    <2>8. QED
      BY <2>1, <2>2, <2>3, <2>4, <2>5, <2>6, <2>7
  <1>34. CASE UNCHANGED vars
    BY <1>34 DEF vars, DurableTypeOK, Numbered, Flows, Homes, Early, Placed, Single,
       Leaving, With
  <1>35. QED
    BY <1>1, <1>2, <1>3, <1>4, <1>5, <1>6, <1>7, <1>8, <1>9, <1>10,
       <1>11, <1>12, <1>13, <1>14, <1>15, <1>16, <1>17, <1>18, <1>19,
       <1>20, <1>21, <1>22, <1>23, <1>24, <1>25, <1>26, <1>27, <1>28,
       <1>29, <1>30, <1>31, <1>32, <1>33, <1>34
       DEF Next, QueueSteps, TurnSteps, HolderSteps, StartSteps, WorkflowSteps, Startup

-----------------------------------------------------------------------------
(***************************************************************************)
(* Who the lanes are held for.                                             *)
(***************************************************************************)

\* Nobody holds the lanes while the first in line hasn't started.
LEMMA NobodyHolds ==
    ASSUME DurableInv, Held, line # <<>>, Head(line).at # "hold"
    PROVE  With("running") \ unheard = {}
  <1>1. /\ 1 \in DOMAIN line /\ Head(line) = line[1]
        /\ \A i \in DOMAIN line : i = 1 \/ 1 < i
    BY DEF DurableInv, DurableTypeOK
  <1>2. ASSUME NEW o \in With("running") \ unheard PROVE FALSE
    <2>1. PICK i \in DOMAIN line :
              /\ line[i].op = o /\ line[i].at = "hold"
              /\ \A j \in DOMAIN line : j < i => line[j].op \in unheard /\ line[j].at = "hold"
      BY DEF Held, Heads
    <2>2. QED
      BY <1>1, <2>1
  <1>3. QED
    BY <1>2

\* A line that keeps whoever holds the lanes, with nobody new ahead.
LEMMA PlacesKept ==
    ASSUME Held, unheard' = unheard,
           \A o \in With("running")' : o \in With("running"),
           phase' # "closed" \/ line' # <<>> => phase # "closed" \/ line # <<>>,
           \A i \in DOMAIN line :
               line[i].at = "hold" /\ line[i].op \in With("running") \ unheard =>
                   \E k \in DOMAIN line' :
                       /\ line'[k] = line[i]
                       /\ \A m \in DOMAIN line' : m < k =>
                              \E j \in DOMAIN line : j < i /\ line'[m] = line[j]
    PROVE  Held'
  <1>1. \A o, p \in (With("running") \ unheard)' : o = p
    BY DEF Held
  <1>2. ASSUME phase' # "closed" \/ line' # <<>>, NEW o \in (With("running") \ unheard)'
        PROVE  Heads(o)'
    <2>1. o \in With("running") \ unheard
      OBVIOUS
    <2>2. PICK i \in DOMAIN line :
              /\ line[i].op = o /\ line[i].at = "hold"
              /\ \A j \in DOMAIN line : j < i => line[j].op \in unheard /\ line[j].at = "hold"
      BY <1>2, <2>1 DEF Held, Heads
    <2>3. PICK k \in DOMAIN line' :
              /\ line'[k] = line[i]
              /\ \A m \in DOMAIN line' : m < k =>
                     \E j \in DOMAIN line : j < i /\ line'[m] = line[j]
      BY <2>1, <2>2
    <2>4. \A m \in DOMAIN line' : m < k => line'[m].op \in unheard' /\ line'[m].at = "hold"
      BY <2>2, <2>3
    <2>5. QED
      BY <2>2, <2>3, <2>4 DEF Heads
  <1>3. QED
    BY <1>1, <1>2 DEF Held

\* Rows move on, and the line doesn't.
LEMMA RowsMove ==
    ASSUME DurableInv, HolderInv, UNCHANGED <<line, unheard, unsure>>,
           phase' # "closed" => phase # "closed",
           \A o \in With("running")' : o \in With("running"),
           Unstarted'
    PROVE  HolderInv'
  <1>1. Held'
    <2>1. \A i \in DOMAIN line : \A m \in DOMAIN line' : m < i =>
              \E j \in DOMAIN line : j < i /\ line'[m] = line[j]
      OBVIOUS
    <2>2. Held
      BY DEF HolderInv
    <2>3. QED
      BY <2>1, <2>2, PlacesKept
  <1>2. Restored'
    BY DEF HolderInv, Restored
  <1>3. QED
    BY <1>1, <1>2 DEF HolderInv

\* More places behind those in line.
LEMMA LineGrows ==
    ASSUME DurableInv, HolderInv, row' = row, unheard' = unheard,
           phase' # "closed" \/ line' # <<>> => phase # "closed" \/ line # <<>>,
           \A i \in DOMAIN line : i \in DOMAIN line' /\ line'[i] = line[i],
           \A i \in DOMAIN line' \ DOMAIN line : \A j \in DOMAIN line : ~(i < j)
    PROVE  Held'
  <1>1. With("running")' = With("running")
    BY DEF With
  <1>2. \A i \in DOMAIN line : \A m \in DOMAIN line' : m < i =>
            \E j \in DOMAIN line : j < i /\ line'[m] = line[j]
    OBVIOUS
  <1>3. Held
    BY DEF HolderInv
  <1>4. QED
    BY <1>1, <1>2, <1>3, PlacesKept

\* A queued operation that takes its place.
LEMMA ReserveHolds ==
    ASSUME DurableInv, HolderInv, NEW o \in turns \union swept, Reserve(o),
           phase # "closed", UNCHANGED <<row, phase, start, withdrawing, unheard>>
    PROVE  HolderInv'
  <1>1. Unstarted'
    BY DEF HolderInv, Unstarted, With
  <1>2. CASE o \in places
    <2>1. UNCHANGED <<line, unsure>> /\ With("running")' = With("running")
      BY <1>2 DEF Reserve, With
    <2>2. QED
      BY <1>1, <2>1, RowsMove
  <1>3. CASE o \notin places
    <2>1. line \in Seq(LinePlaces) /\ o \in Ops
      BY DEF DurableInv, DurableTypeOK, Ops
    <2> DEFINE e == Place(o, o, "turn")
    <2>2. e \in LinePlaces /\ e.at = "turn"
      BY <2>1 DEF LinePlaces, Place
    <2>3. line' = Append(line, e) /\ unsure' = unsure \union {o}
      BY <1>3 DEF Reserve
    <2> HIDE DEF e
    <2>4. /\ DOMAIN line' = DOMAIN line \union {Len(line) + 1}
          /\ \A i \in DOMAIN line : line'[i] = line[i]
          /\ line'[Len(line) + 1] = e
          /\ \A j \in DOMAIN line : ~(Len(line) + 1 < j)
      <3>1. \A j \in DOMAIN line : ~(Len(line) + 1 < j)
        BY <2>1
      <3>2. QED
        BY <2>1, <2>2, <2>3, <3>1, Appended
    <2>5. Held'
      BY <2>4, LineGrows
    <2>6. \A i \in DOMAIN line : line[i].who # o
      BY <1>3 DEF DurableInv, Single
    <2>7. Restored'
      BY <2>2, <2>3, <2>4, <2>6 DEF HolderInv, Restored
    <2>8. QED
      BY <1>1, <2>5, <2>7 DEF HolderInv
  <1>4. QED
    BY <1>2, <1>3

\* One that isn't running, or whose row was to be re-read, withdraws.
LEMMA WithdrawHolds ==
    ASSUME DurableInv, HolderInv, NEW w \in Ops, Withdraw(w) \/ line' = line,
           w \in unsure \/ row[w].state # "running",
           UNCHANGED <<row, phase, unheard>>, unsure' \subseteq unsure, Unstarted'
    PROVE  HolderInv'
  <1>1. line \in Seq(LinePlaces) /\ Len(line) \in Nat /\ DOMAIN line = 1..Len(line)
    BY DEF DurableInv, DurableTypeOK
  <1>2. With("running")' = With("running")
    BY DEF With
  <1>3. CASE line' = line
    <2>1. Held'
      BY <1>3, <1>1, LineGrows
    <2>2. Restored'
      BY <1>3 DEF HolderInv, Restored
    <2>3. QED
      BY <2>1, <2>2 DEF HolderInv
  <1>4. CASE \E i \in 2..Len(line) : line[i].who = w /\ line' = RemoveAt(line, i)
    <2>1. PICK i \in 2..Len(line) : line[i].who = w /\ line' = RemoveAt(line, i)
      BY <1>4
    <2>2. /\ line' # <<>> /\ DOMAIN line' = 1..(Len(line) - 1)
          /\ \A j \in DOMAIN line' : line'[j] = line[IF j < i THEN j ELSE j + 1]
      BY <1>1, <2>1, Removed
    <2>3. i \in Nat /\ i >= 2 /\ i <= Len(line) /\ i \in DOMAIN line \ {1} /\ line # <<>>
      BY <1>1, <2>1
    <2>4. line[i].at = "hold" => line[i].op \notin With("running")
      BY <2>1, <2>3 DEF HolderInv, Restored, With
    <2>5. ASSUME NEW k \in DOMAIN line, line[k].at = "hold", line[k].op \in With("running")
          PROVE  \E n \in DOMAIN line' :
                     /\ line'[n] = line[k]
                     /\ \A m \in DOMAIN line' : m < n =>
                            \E j \in DOMAIN line : j < k /\ line'[m] = line[j]
      <3>1. k # i /\ k \in 1..Len(line)
        BY <1>1, <2>4, <2>5
      <3> DEFINE n == IF k < i THEN k ELSE k - 1
      <3> HIDE <2>1
      <3>a. /\ Len(line) \in Nat /\ DOMAIN line = 1..Len(line)
            /\ DOMAIN line' = 1..(Len(line) - 1) /\ i \in 2..Len(line)
        BY <1>1, <2>2, <2>3
      <3>b. n \in DOMAIN line' /\ (IF n < i THEN n ELSE n + 1) = k
        BY <3>a, <3>1
      <3>c. ASSUME NEW m \in DOMAIN line', m < n
            PROVE  /\ (IF m < i THEN m ELSE m + 1) \in DOMAIN line
                   /\ (IF m < i THEN m ELSE m + 1) < k
        BY <3>a, <3>1, <3>c
      <3>2. /\ n \in DOMAIN line' /\ (IF n < i THEN n ELSE n + 1) = k
            /\ \A m \in DOMAIN line' : m < n =>
                   /\ (IF m < i THEN m ELSE m + 1) \in DOMAIN line
                   /\ (IF m < i THEN m ELSE m + 1) < k
        BY <3>b, <3>c
      <3> HIDE DEF n
      <3>3. QED
        BY <2>2, <3>2
    <2>6. Held'
      <3>1. Held
        BY DEF HolderInv
      <3>2. QED
        BY <1>2, <2>3, <2>5, <3>1, PlacesKept
    <2>7. \A j \in DOMAIN line' \ {1} : \E k \in DOMAIN line \ {1} : line'[j] = line[k]
      <3>1. \A j \in DOMAIN line' \ {1} : (IF j < i THEN j ELSE j + 1) \in DOMAIN line \ {1}
        <4> HIDE <2>1
        <4> QED
          BY <1>1, <2>2, <2>3
      <3>2. QED
        BY <2>2, <3>1
    <2>8. Restored'
      BY <2>7 DEF HolderInv, Restored
    <2>9. QED
      BY <2>6, <2>8 DEF HolderInv
  <1>5. QED
    BY <1>3, <1>4 DEF Withdraw

\* The first in line leaves, whose operation no longer runs, or before
\* anything ran.
LEMMA LeaveHolds ==
    ASSUME DurableInv, HolderInv, line # <<>>, Leave, UNCHANGED <<phase, unsure>>,
           Unstarted',
           \/ row[Head(line).op].state # "running" /\ UNCHANGED <<row, unheard>>
           \/ (With("running") \ unheard)' = {}
    PROVE  HolderInv'
  <1>1. line \in Seq(LinePlaces)
    BY DEF DurableInv, DurableTypeOK
  <1>2. /\ 1 \in DOMAIN line /\ Head(line) = line[1] /\ DOMAIN line = 1..Len(line)
        /\ Len(line) \in Nat
        /\ line' = Tail(line) /\ DOMAIN line' = 1..(Len(line) - 1)
        /\ \A j \in DOMAIN line' : line'[j] = line[j + 1]
    BY <1>1 DEF Leave
  <1>3. Restored'
    <2>1. \A j \in DOMAIN line' \ {1} : j + 1 \in DOMAIN line \ {1}
      BY <1>2
    <2>2. QED
      BY <1>2, <2>1 DEF HolderInv, Restored
  <1>4. CASE (With("running") \ unheard)' = {}
    <2>1. Held'
      BY <1>4 DEF Held
    <2>2. QED
      BY <1>3, <2>1 DEF HolderInv
  <1>5. CASE row[Head(line).op].state # "running" /\ UNCHANGED <<row, unheard>>
    <2>1. With("running")' = With("running")
      BY <1>5 DEF With
    <2>2. ASSUME NEW k \in DOMAIN line, line[k].op \in With("running")
          PROVE  \E n \in DOMAIN line' :
                     /\ line'[n] = line[k]
                     /\ \A m \in DOMAIN line' : m < n =>
                            \E j \in DOMAIN line : j < k /\ line'[m] = line[j]
      <3>1. k # 1
        BY <1>2, <1>5, <2>2 DEF With
      <3>2. /\ k - 1 \in DOMAIN line' /\ k - 1 + 1 = k
            /\ \A m \in DOMAIN line' : m < k - 1 => m + 1 \in DOMAIN line /\ m + 1 < k
        BY <1>2, <3>1
      <3>3. QED
        BY <1>2, <3>2
    <2>3. Held'
      <3>1. Held
        BY DEF HolderInv
      <3>2. QED
        BY <1>5, <2>1, <2>2, <3>1, PlacesKept
    <2>4. QED
      BY <1>3, <2>3 DEF HolderInv
  <1>6. QED
    BY <1>4, <1>5

\* The first in line is recorded running, or awaits what is; nothing else ran
\* whose start was answered.
LEMMA StartHolds ==
    ASSUME DurableInv, HolderInv, line # <<>>, Head(line).at # "hold",
           NEW e \in LinePlaces, line' = [line EXCEPT ![1] = e], e.at = "hold",
           UNCHANGED <<unheard, unsure>>, Unstarted',
           \A o \in With("running")' : o = e.op \/ o \in With("running")
    PROVE  HolderInv'
  <1>1. line \in Seq(LinePlaces) /\ 1 \in DOMAIN line /\ DOMAIN line = 1..Len(line)
    BY DEF DurableInv, DurableTypeOK
  <1>2. /\ DOMAIN line' = DOMAIN line /\ line'[1] = e
        /\ \A i \in DOMAIN line \ {1} : line'[i] = line[i]
        /\ \A i \in DOMAIN line : ~(i < 1)
    BY <1>1
  <1>3. With("running") \ unheard = {}
    BY NobodyHolds DEF HolderInv
  <1>4. \A o \in (With("running") \ unheard)' : o = e.op
    BY <1>3
  <1>5. Held'
    BY <1>1, <1>2, <1>4 DEF Held, Heads
  <1>6. Restored'
    BY <1>2 DEF HolderInv, Restored
  <1>7. QED
    BY <1>5, <1>6 DEF HolderInv

\* What takes its locks back at a restart is a finite number of operations.
LEMMA RunningPlacesFinite == IsFiniteSet({Place(o, o, "hold") : o \in With("running")})
  <1> DEFINE S == {Place(o, o, "hold") : o \in With("running")}
             f == [o \in With("running") |-> Place(o, o, "hold")]
  <1>1. 1 \in Int /\ MaxQueued \in Int
    BY DurableConstants
  <1>2. IsFiniteSet(Ops)
    BY <1>1, FS_Interval, FS_Union, DurableConstants DEF Ops, Queued
  <1>3. IsFiniteSet(With("running"))
    BY <1>2, FS_Subset DEF With
  <1>4. f \in Surjection(With("running"), S)
    BY DEF Surjection
  <1>5. QED
    BY <1>3, <1>4, FS_Surjection

\* Nobody holds the lanes before anything is asked.
LEMMA InitHolderInv == Init => HolderInv
  <1> SUFFICES ASSUME Init PROVE HolderInv
    OBVIOUS
  <1>1. With("running") = {} /\ line = <<>> /\ withdrawing = {}
    BY DEF Init, With, NoRow
  <1>2. \A s \in Starters : row[s].state = "absent"
    BY DEF Init, NoRow, Ops
  <1>3. QED
    BY <1>1, <1>2 DEF HolderInv, Held, Restored, Unstarted

\* Every step keeps the lanes held for the one that runs.
LEMMA StepHolderInv == DurableInv /\ DurableInv' /\ HolderInv /\ [Next]_vars => HolderInv'
  <1> SUFFICES ASSUME DurableInv, DurableInv', HolderInv, [Next]_vars PROVE HolderInv'
    OBVIOUS
  <1> USE DurableConstants
      DEF Ops, stored, lanes, dispatching, workflows, callers, others, history
  <1>u. Unstarted /\ Held
    BY DEF HolderInv
  <1>t. /\ row \in [Ops -> Rows] /\ line \in Seq(LinePlaces)
        /\ {places, turns, swept, unsure, withdrawing} \subseteq SUBSET Queued
        /\ start \in [Starters -> {"idle", "opening", "lined", "answered", "refused"}]
    BY DEF DurableInv, DurableTypeOK
  <1>1. ASSUME NEW a \in Asks, Ask(a) PROVE HolderInv'
    <2>1. UNCHANGED <<row, line, unheard, unsure, start, withdrawing, phase>>
      BY <1>1 DEF Ask
    <2>2. With("running")' = With("running") /\ With("cancelled")' = With("cancelled")
      BY <2>1 DEF With
    <2>3. QED
      BY <1>u, <2>1, <2>2, RowsMove DEF Unstarted
  <1>2. ASSUME NEW a \in Asks, InsertWaiting(a) PROVE HolderInv'
    <2>1. /\ NextId \in Queued /\ row[NextId].state = "absent"
          /\ NextId \in Ops /\ NextId \notin Starters
      BY <1>2, NextIdIsFresh DEF InsertWaiting, DurableInv, Queued
    <2>2. /\ row'[NextId].state = "waiting"
          /\ \A p \in Ops \ {NextId} : row'[p] = row[p]
          /\ UNCHANGED <<line, unheard, unsure, start, withdrawing, phase>>
      BY <1>2, <1>t, <2>1 DEF InsertWaiting
    <2>3. \A o \in With("running")' : o \in With("running")
      BY <2>2 DEF With
    <2>4. Unstarted'
      <3>1. NextId \notin With("cancelled")
        BY <2>1 DEF With
      <3>2. withdrawing \subseteq With("cancelled")'
        BY <1>u, <2>2, <3>1 DEF Unstarted, With
      <3>3. \A s \in Starters : row'[s] = row[s]
        BY <2>1, <2>2
      <3>4. QED
        BY <1>u, <2>2, <3>2, <3>3 DEF Unstarted
    <2>5. QED
      BY <2>2, <2>3, <2>4, RowsMove
  <1>3. ASSUME NEW a \in Asks, InsertIgnored(a) PROVE HolderInv'
    <2>1. UNCHANGED <<row, line, unheard, unsure, start, withdrawing, phase>>
      BY <1>3 DEF InsertIgnored
    <2>2. With("running")' = With("running") /\ With("cancelled")' = With("cancelled")
      BY <2>1 DEF With
    <2>3. QED
      BY <1>u, <2>1, <2>2, RowsMove DEF Unstarted
  <1>4. ASSUME NEW a \in Asks, Join(a) PROVE HolderInv'
    <2>1. /\ \A p \in Ops : row'[p].state = row[p].state
          /\ UNCHANGED <<line, unheard, unsure, start, withdrawing, phase>>
      BY <1>4, <1>t DEF Join, WaitingUnder
    <2>2. With("running")' = With("running") /\ With("cancelled")' = With("cancelled")
      BY <2>1 DEF With
    <2>3. Unstarted'
      BY <1>u, <2>1, <2>2 DEF Unstarted
    <2>4. QED
      BY <2>1, <2>2, <2>3, RowsMove
  <1>5. ASSUME NEW a \in Asks, JoinNone(a) PROVE HolderInv'
    <2>1. UNCHANGED <<row, line, unheard, unsure, start, withdrawing, phase>>
      BY <1>5 DEF JoinNone
    <2>2. With("running")' = With("running") /\ With("cancelled")' = With("cancelled")
      BY <2>1 DEF With
    <2>3. QED
      BY <1>u, <2>1, <2>2, RowsMove DEF Unstarted
  <1>6. ASSUME NEW a \in Asks, AskFails(a) PROVE HolderInv'
    <2>1. UNCHANGED <<row, line, unheard, unsure, start, withdrawing, phase>>
      BY <1>6 DEF AskFails
    <2>2. With("running")' = With("running") /\ With("cancelled")' = With("cancelled")
      BY <2>1 DEF With
    <2>3. QED
      BY <1>u, <2>1, <2>2, RowsMove DEF Unstarted
  <1>7. ASSUME NEW o \in Queued, TakeTurn(o) PROVE HolderInv'
    <2>1. /\ o \in turns \union swept /\ Reserve(o) /\ phase # "closed"
          /\ UNCHANGED <<row, phase, start, withdrawing, unheard>>
      BY <1>7 DEF TakeTurn
    <2>2. QED
      BY <2>1, ReserveHolds
  <1>8. ASSUME NEW o \in Queued, Recheck(o) PROVE HolderInv'
    <2>1. /\ o \in unsure /\ unsure' \subseteq unsure /\ o \in Ops
          /\ Withdraw(o) \/ line' = line
          /\ UNCHANGED <<row, phase, start, withdrawing, unheard>>
      BY <1>8 DEF Recheck
    <2>2. Unstarted'
      BY <1>u, <2>1 DEF Unstarted, With
    <2>3. QED
      BY <2>1, <2>2, WithdrawHolds
  <1>9. ASSUME NEW o \in Queued, CancelPlace(o) PROVE HolderInv'
    <2>1. /\ o \in withdrawing /\ withdrawing' \subseteq withdrawing /\ o \in Ops
          /\ Withdraw(o) \/ line' = line
          /\ UNCHANGED <<row, phase, start, unsure, unheard>>
      BY <1>9 DEF CancelPlace
    <2>2. Unstarted' /\ row[o].state # "running"
      BY <1>u, <2>1 DEF Unstarted, With
    <2>3. QED
      BY <2>1, <2>2, WithdrawHolds
  <1>10. ASSUME NEW o \in Queued, CancelRow(o) PROVE HolderInv'
    <2>1. o \in Ops /\ o \notin Starters /\ row[o].state = "waiting"
      BY <1>10 DEF CancelRow, Queued
    <2>2. /\ row'[o].state = "cancelled" /\ \A p \in Ops \ {o} : row'[p] = row[p]
          /\ withdrawing' \subseteq withdrawing \union {o}
          /\ UNCHANGED <<line, unheard, unsure, start, phase>>
      BY <1>10, <1>t, <2>1 DEF CancelRow
    <2>3. \A q \in With("running")' : q \in With("running")
      BY <2>2 DEF With
    <2>4. Unstarted'
      <3>1. withdrawing' \subseteq With("cancelled")'
        BY <1>u, <2>1, <2>2 DEF Unstarted, With
      <3>2. \A s \in Starters : row'[s] = row[s]
        BY <2>1, <2>2
      <3>3. QED
        BY <1>u, <2>2, <3>1, <3>2 DEF Unstarted
    <2>5. QED
      BY <2>2, <2>3, <2>4, RowsMove
  <1>11. ASSUME NEW o \in Queued, CheckReady(o) PROVE HolderInv'
    <2>1. /\ line # <<>> /\ Head(line).at = "turn"
          /\ UNCHANGED <<row, phase, start, withdrawing, unsure, unheard>>
      BY <1>11 DEF CheckReady, Granted
    <2>2. With("running") \ unheard = {} /\ With("running")' = With("running")
      BY <1>u, <2>1, NobodyHolds DEF With
    <2>3. Unstarted'
      BY <1>u, <2>1 DEF Unstarted, With
    <2>4. CASE line' = [line EXCEPT ![1].at = "start"]
      <3>1. \A i \in DOMAIN line' \ {1} : i \in DOMAIN line \ {1} /\ line'[i] = line[i]
        BY <1>t, <2>1, <2>4, FirstMoves
      <3>2. Held'
        BY <2>1, <2>2 DEF Held
      <3>3. Restored'
        BY <2>1, <3>1 DEF HolderInv, Restored
      <3>4. QED
        BY <2>3, <3>2, <3>3 DEF HolderInv
    <2>5. CASE Leave
      BY <2>1, <2>2, <2>3, <2>5, LeaveHolds
    <2>6. QED
      BY <1>11, <2>4, <2>5 DEF CheckReady
  <1>12. ASSUME NEW o \in Queued, StartWaiting(o) PROVE HolderInv'
    <2>1. /\ line # <<>> /\ Head(line).who = o /\ Head(line).at = "start"
          /\ o \in Ops /\ o \notin Starters
          /\ UNCHANGED <<phase, start, withdrawing, unsure>>
      BY <1>12 DEF StartWaiting, Granted, Queued
    <2>2. With("running") \ unheard = {}
      BY <1>u, <2>1, NobodyHolds
    <2>3. 1 \in DOMAIN line /\ Head(line) = line[1] /\ Head(line).op = o
      BY <1>t, <2>1 DEF DurableInv, Placed
    <2>4. CASE row[o].state = "waiting"
      <3>a. row' = [row EXCEPT ![o].state = "running"]
        BY <1>12, <2>4 DEF StartWaiting
      <3>1. row'[o].state = "running" /\ \A p \in Ops \ {o} : row'[p] = row[p]
        BY <2>1, <3>a, StateSet DEF DurableInv
      <3>2. \A p \in With("running")' : p = o \/ p \in With("running")
        BY <3>1 DEF With
      <3>3. Unstarted'
        <4>1. o \notin With("cancelled") /\ \A s \in Starters : row'[s] = row[s]
          BY <2>1, <2>4, <3>1 DEF With
        <4>2. withdrawing \subseteq With("cancelled")'
          BY <1>u, <3>1, <4>1 DEF Unstarted, With
        <4>3. QED
          BY <1>u, <2>1, <4>1, <4>2 DEF Unstarted
      <3>4. CASE line' = [line EXCEPT ![1].at = "hold"] /\ unheard' = unheard
        <4> DEFINE e == Place(o, o, "hold")
        <4>1. e \in LinePlaces /\ e.at = "hold" /\ e.op = o
          BY <2>1 DEF LinePlaces, Place
        <4>2. line' = [line EXCEPT ![1] = e]
          <5>1. line[1] \in LinePlaces
            BY <1>t, <2>3
          <5>2. [line[1] EXCEPT !.at = "hold"] = e
            BY <2>1, <2>3, <5>1 DEF LinePlaces, Place
          <5>3. QED
            BY <3>4, <5>2
        <4> HIDE DEF e
        <4>3. QED
          BY <2>1, <3>2, <3>3, <3>4, <4>1, <4>2, StartHolds
      <3>5. CASE line' = line /\ unheard' = unheard \union {o}
        <4>1. (With("running") \ unheard)' = {}
          BY <2>2, <3>2, <3>5
        <4>2. Held'
          BY <4>1 DEF Held
        <4>3. Restored'
          BY <2>1, <3>5 DEF HolderInv, Restored
        <4>4. QED
          BY <3>3, <4>2, <4>3 DEF HolderInv
      <3>6. QED
        BY <1>12, <2>4, <3>4, <3>5 DEF StartWaiting, Answered, MayLose
    <2>5. CASE row[o].state # "waiting"
      <3>1. Leave /\ UNCHANGED <<row, unheard>>
        BY <1>12, <2>5 DEF StartWaiting
      <3>2. Unstarted' /\ With("running")' = With("running")
        BY <1>u, <2>1, <3>1 DEF Unstarted, With
      <3>3. QED
        BY <2>1, <2>2, <3>1, <3>2, LeaveHolds
    <2>6. QED
      BY <2>4, <2>5
  <1>13. ASSUME NEW o \in Ops, EndHold(o) PROVE HolderInv'
    <2>1. /\ line # <<>> /\ Leave /\ row[Head(line).op].state # "running"
          /\ UNCHANGED <<row, phase, start, withdrawing, unsure, unheard>>
      BY <1>13 DEF EndHold, Granted
    <2>2. Unstarted'
      BY <1>u, <2>1 DEF Unstarted, With
    <2>3. QED
      BY <2>1, <2>2, LeaveHolds
  <1>14. ASSUME NEW s \in Starters, Find(s) PROVE HolderInv'
    <2>1. /\ start[s] = "idle"
          /\ \A p \in Starters \ {s} : start'[p] = start[p]
          /\ UNCHANGED <<row, line, unheard, unsure, withdrawing, phase>>
      BY <1>14, <1>t DEF Find
    <2>2. With("running")' = With("running") /\ With("cancelled")' = With("cancelled")
      BY <2>1 DEF With
    <2>3. Unstarted'
      BY <1>u, <2>1, <2>2 DEF Unstarted
    <2>4. QED
      BY <2>1, <2>2, <2>3, RowsMove
  <1>15. ASSUME NEW s \in Starters, Admit(s) PROVE HolderInv'
    <2>1. /\ start[s] = "opening" /\ phase = "open"
          /\ \A p \in Starters \ {s} : start'[p] = start[p]
          /\ UNCHANGED <<row, phase, withdrawing, unsure, unheard>>
          /\ s \in Ops
      BY <1>15, <1>t DEF Admit
    <2>2. Unstarted' /\ With("running")' = With("running")
      BY <1>u, <2>1 DEF Unstarted, With
    <2>3. CASE line' = line
      BY <2>1, <2>2, <2>3, RowsMove
    <2>4. CASE line' = Append(line, Place(s, s, IF line = <<>> THEN "record" ELSE "again"))
      <3> DEFINE e == Place(s, s, IF line = <<>> THEN "record" ELSE "again")
      <3>1. e \in LinePlaces /\ e.at # "hold"
        BY <2>1 DEF LinePlaces, Place
      <3>2. line' = Append(line, e)
        BY <2>4
      <3> HIDE DEF e
      <3>3. /\ DOMAIN line' = DOMAIN line \union {Len(line) + 1}
            /\ \A i \in DOMAIN line : line'[i] = line[i]
            /\ line'[Len(line) + 1] = e
            /\ \A j \in DOMAIN line : ~(Len(line) + 1 < j)
        <4>1. \A j \in DOMAIN line : ~(Len(line) + 1 < j)
          BY <1>t
        <4>2. QED
          BY <1>t, <3>1, <3>2, <4>1, Appended
      <3>4. Held'
        BY <2>1, <3>3, LineGrows
      <3>5. Restored'
        BY <2>1, <3>1, <3>3 DEF HolderInv, Restored
      <3>6. QED
        BY <2>2, <3>4, <3>5 DEF HolderInv
    <2>5. QED
      BY <1>15, <2>3, <2>4 DEF Admit
  <1>16. ASSUME NEW s \in Starters, GiveUp(s) PROVE HolderInv'
    <2>1. /\ start[s] \in {"opening", "lined"}
          /\ start' = [start EXCEPT ![s] = "refused"]
          /\ Withdraw(s) \/ line' = line
          /\ UNCHANGED <<row, phase, withdrawing, unsure, unheard>>
          /\ s \in Ops
      BY <1>16 DEF GiveUp
    <2>2. row[s].state # "running"
      BY <1>u, <2>1 DEF Unstarted
    <2>3. Unstarted'
      BY <1>u, <1>t, <2>1 DEF Unstarted, With
    <2>4. QED
      BY <2>1, <2>2, <2>3, WithdrawHolds
  <1>17. ASSUME NEW s \in Starters, Record(s) PROVE HolderInv'
    <2>1. /\ line # <<>> /\ Head(line).who = s /\ Head(line).at \in {"record", "again"}
          /\ start' = [start EXCEPT ![s] = "answered"] /\ s \in Ops
          /\ UNCHANGED <<phase, withdrawing, unsure, unheard>>
      BY <1>17 DEF Record, Granted
    <2>2. /\ 1 \in DOMAIN line /\ Head(line) = line[1] /\ Head(line).op = s
          /\ line[1] \in LinePlaces
      BY <1>t, <2>1 DEF DurableInv, Placed
    <2>3. CASE Recorded = {}
      <3>1. /\ row[s].state = "absent" /\ row'[s].state = "running"
            /\ \A p \in Ops \ {s} : row'[p] = row[p]
        <4>1. row' = [row EXCEPT ![s].state = "running"]
          BY <1>17, <2>3 DEF Record
        <4>2. QED
          BY <2>1, <2>3, <4>1, StateSet DEF DurableInv, Recorded
      <3>2. \A p \in With("running")' : p = s \/ p \in With("running")
        BY <3>1 DEF With
      <3>3. Unstarted'
        <4>1. s \notin With("cancelled")
          BY <3>1 DEF With
        <4>2. withdrawing \subseteq With("cancelled")'
          BY <1>u, <3>1, <4>1 DEF Unstarted, With
        <4>3. QED
          BY <1>u, <1>t, <2>1, <3>1, <4>2 DEF Unstarted
      <3> DEFINE e == Place(s, s, "hold")
      <3>4. e \in LinePlaces /\ e.at = "hold" /\ e.op = s
        BY <2>1 DEF LinePlaces, Place
      <3>5. line' = [line EXCEPT ![1] = e]
        <4>1. [line[1] EXCEPT !.at = "hold"] = e
          BY <2>1, <2>2 DEF LinePlaces, Place
        <4>2. QED
          BY <1>17, <2>3, <4>1 DEF Record
      <3> HIDE DEF e
      <3>6. QED
        BY <2>1, <3>2, <3>3, <3>4, <3>5, StartHolds
    <2>4. CASE Recorded # {}
      <3>1. PICK found \in Recorded : line' = [line EXCEPT ![1] = Place(s, found, "hold")]
        BY <1>17, <2>4 DEF Record
      <3>2. row' = row
        BY <1>17, <2>4 DEF Record
      <3>3. Unstarted' /\ With("running")' = With("running")
        BY <1>u, <1>t, <2>1, <3>2 DEF Unstarted, With
      <3> DEFINE e == Place(s, found, "hold")
      <3>4. e \in LinePlaces /\ e.at = "hold"
        BY <2>1 DEF LinePlaces, Place, Recorded
      <3>5. line' = [line EXCEPT ![1] = e]
        BY <3>1
      <3> HIDE DEF e
      <3>6. QED
        BY <2>1, <3>3, <3>4, <3>5, StartHolds
    <2>5. QED
      BY <2>3, <2>4
  <1>18. ASSUME NEW s \in Starters, RecordFails(s) PROVE HolderInv'
    <2>1. /\ line # <<>> /\ Head(line).who = s /\ Head(line).at \in {"record", "again"}
          /\ start' = [start EXCEPT ![s] = "refused"] /\ s \in Ops /\ Leave
          /\ UNCHANGED <<phase, withdrawing, unsure>>
      BY <1>18 DEF RecordFails, Granted
    <2>2. With("running") \ unheard = {}
      BY <1>u, <2>1, NobodyHolds
    <2>3. \/ UNCHANGED <<row, unheard>>
          \/ /\ row[s].state = "absent"
             /\ \A p \in Ops \ {s} : row'[p] = row[p]
             /\ row'[s].state = "running" /\ unheard' = unheard \union {s}
      <3>1. \/ UNCHANGED <<row, unheard>>
            \/ /\ Recorded = {} /\ row' = [row EXCEPT ![s].state = "running"]
               /\ unheard' = unheard \union {s}
        BY <1>18 DEF RecordFails
      <3>2. QED
        BY <2>1, <3>1, StateSet DEF DurableInv, Recorded
    <2>4. (With("running") \ unheard)' = {}
      BY <2>2, <2>3 DEF With
    <2>5. Unstarted'
      <3>1. withdrawing \subseteq With("cancelled")'
        BY <1>u, <2>3 DEF Unstarted, With
      <3>2. QED
        BY <1>u, <1>t, <2>1, <2>3, <3>1 DEF Unstarted
    <2>6. QED
      BY <2>1, <2>4, <2>5, LeaveHolds
  <1>19. ASSUME NEW o \in Ops, DispatchLoads(o) PROVE HolderInv'
    <2>1. UNCHANGED <<row, line, unheard, unsure, start, withdrawing, phase>>
      BY <1>19 DEF DispatchLoads
    <2>2. With("running")' = With("running") /\ With("cancelled")' = With("cancelled")
      BY <2>1 DEF With
    <2>3. QED
      BY <1>u, <2>1, <2>2, RowsMove DEF Unstarted
  <1>20. ASSUME NEW o \in Ops, DispatchExecutes(o) PROVE HolderInv'
    <2>1. UNCHANGED <<row, line, unheard, unsure, start, withdrawing, phase>>
      BY <1>20 DEF DispatchExecutes
    <2>2. With("running")' = With("running") /\ With("cancelled")' = With("cancelled")
      BY <2>1 DEF With
    <2>3. QED
      BY <1>u, <2>1, <2>2, RowsMove DEF Unstarted
  <1>21. ASSUME NEW o \in Ops, RecordExecution(o) PROVE HolderInv'
    <2>1. /\ \A p \in Ops : row'[p].state = row[p].state
          /\ UNCHANGED <<line, unheard, unsure, start, withdrawing, phase>>
      <3>1. row' = row \/ row' = [row EXCEPT ![o].sent = TRUE]
        BY <1>21 DEF RecordExecution
      <3>2. row[o] \in Rows
        BY <1>t
      <3>3. [row[o] EXCEPT !.sent = TRUE].state = row[o].state
        BY <3>2 DEF Rows
      <3>4. \A p \in Ops : row'[p].state = row[p].state
        BY <1>t, <3>1, <3>3
      <3>5. QED
        BY <1>21, <3>4 DEF RecordExecution
    <2>2. With("running")' = With("running") /\ With("cancelled")' = With("cancelled")
      BY <2>1 DEF With
    <2>3. Unstarted'
      BY <1>u, <2>1, <2>2 DEF Unstarted
    <2>4. QED
      BY <2>1, <2>2, <2>3, RowsMove
  <1>22. ASSUME NEW o \in Ops, Begin(o) PROVE HolderInv'
    <2>1. UNCHANGED <<row, line, unheard, unsure, start, withdrawing, phase>>
      BY <1>22 DEF Begin
    <2>2. With("running")' = With("running") /\ With("cancelled")' = With("cancelled")
      BY <2>1 DEF With
    <2>3. QED
      BY <1>u, <2>1, <2>2, RowsMove DEF Unstarted
  <1>23. ASSUME NEW o \in Ops, Act(o) PROVE HolderInv'
    <2>1. UNCHANGED <<row, line, unheard, unsure, start, withdrawing, phase>>
      BY <1>23 DEF Act
    <2>2. With("running")' = With("running") /\ With("cancelled")' = With("cancelled")
      BY <2>1 DEF With
    <2>3. QED
      BY <1>u, <2>1, <2>2, RowsMove DEF Unstarted
  <1>24. ASSUME NEW o \in Ops, Finish(o) PROVE HolderInv'
    <2>1. row[o].state \in {"running", "ended"}
      BY <1>24 DEF Finish, DurableInv, Flows
    <2>2. /\ row'[o].state = "ended" /\ \A p \in Ops \ {o} : row'[p] = row[p]
          /\ UNCHANGED <<line, unheard, unsure, start, withdrawing, phase>>
      BY <1>24, <1>t, <2>1 DEF Finish
    <2>3. \A q \in With("running")' : q \in With("running")
      BY <2>2 DEF With
    <2>4. Unstarted'
      <3>1. withdrawing \subseteq With("cancelled")'
        BY <1>u, <2>1, <2>2 DEF Unstarted, With
      <3>2. QED
        BY <1>u, <2>1, <2>2, <3>1 DEF Unstarted
    <2>5. QED
      BY <2>2, <2>3, <2>4, RowsMove
  <1>25. ASSUME NEW o \in Ops, Close(o) PROVE HolderInv'
    <2>1. UNCHANGED <<row, line, unheard, unsure, start, withdrawing, phase>>
      BY <1>25 DEF Close
    <2>2. With("running")' = With("running") /\ With("cancelled")' = With("cancelled")
      BY <2>1 DEF With
    <2>3. QED
      BY <1>u, <2>1, <2>2, RowsMove DEF Unstarted
  <1>26. ASSUME RestoreRunning PROVE HolderInv'
    <2> DEFINE S == {Place(o, o, "hold") : o \in With("running")}
               t == SetToSeq(S)
    <2>1. /\ phase = "closed" /\ line' = line \o t
          /\ UNCHANGED <<row, unsure, start, withdrawing, unheard>>
      BY <1>26 DEF RestoreRunning
    <2>2. Unstarted' /\ With("running")' = With("running")
      BY <1>u, <2>1 DEF Unstarted, With
    <2>3. unsure = {} /\ \A i \in DOMAIN line : line[i].at = "hold"
      BY <2>1 DEF DurableInv, Early
    <2>4. /\ S \subseteq LinePlaces
          /\ \A e \in S : e.who = e.op /\ e.at = "hold" /\ e.op \in With("running")
          /\ \A e, f \in S : e.op = f.op => e = f
          /\ \A o \in With("running") : \E e \in S : e.op = o
      <3>1. \A o \in With("running") :
                /\ Place(o, o, "hold") \in LinePlaces
                /\ Place(o, o, "hold").who = o /\ Place(o, o, "hold").op = o
                /\ Place(o, o, "hold").at = "hold"
        BY DEF With, LinePlaces, Place
      <3>2. \A e \in S : \E o \in With("running") : e = Place(o, o, "hold")
        OBVIOUS
      <3>3. \A o \in With("running") : Place(o, o, "hold") \in S
        OBVIOUS
      <3> HIDE DEF t, S
      <3>4. \A e \in S : e = Place(e.op, e.op, "hold")
        BY <3>1, <3>2
      <3>5. QED
        BY <3>1, <3>2, <3>3, <3>4
    <2>5. IsFiniteSet(S)
      BY RunningPlacesFinite
    <2>6. /\ t \in Seq(S)
          /\ \A i \in DOMAIN t : t[i] \in S
          /\ \A i, j \in DOMAIN t : t[i] = t[j] => i = j
          /\ \A e \in S : \E i \in DOMAIN t : t[i] = e
      BY <2>5, SetToSeqIs
    <2> HIDE DEF t, S
    <2>7. t \in Seq(LinePlaces)
      BY <2>4, <2>6
    <2>8. /\ Len(line') = Len(line) + Len(t) /\ DOMAIN line' = 1..(Len(line) + Len(t))
          /\ \A i \in 1..(Len(line) + Len(t)) :
                 line'[i] = IF i <= Len(line) THEN line[i] ELSE t[i - Len(line)]
      BY <1>t, <2>1, <2>7, ConcatProperties
    <2>9. /\ Len(line) \in Nat /\ DOMAIN line = 1..Len(line)
          /\ Len(t) \in Nat /\ DOMAIN t = 1..Len(t)
      BY <1>t, <2>7
    <2>10. Restored'
      <3>1. \A i \in DOMAIN line' :
                (i \in DOMAIN line /\ line'[i] = line[i]) \/ line'[i] \in S
        <4>1. ASSUME NEW i \in DOMAIN line', i \notin DOMAIN line PROVE line'[i] \in S
          <5>1. i - Len(line) \in DOMAIN t /\ ~(i <= Len(line)) /\ i \in 1..(Len(line) + Len(t))
            BY <2>8, <2>9, <4>1
          <5>2. QED
            BY <2>6, <2>8, <5>1
        <4>2. ASSUME NEW i \in DOMAIN line', i \in DOMAIN line PROVE line'[i] = line[i]
          BY <2>8, <2>9, <4>2
        <4>3. QED
          BY <4>1, <4>2
      <3>2. QED
        BY <2>1, <2>3, <2>4, <3>1 DEF HolderInv, Restored
    <2>11. CASE line # <<>>
      <3>1. /\ \A i \in DOMAIN line : i \in DOMAIN line' /\ line'[i] = line[i]
            /\ \A i \in DOMAIN line' \ DOMAIN line : \A j \in DOMAIN line : ~(i < j)
        BY <2>8, <2>9
      <3>2. Held'
        BY <2>1, <2>11, <3>1, LineGrows
      <3>3. QED
        BY <2>2, <2>10, <3>2 DEF HolderInv
    <2>12. CASE line = <<>>
      <3>1. line' = t
        BY <2>1, <2>7, <2>12
      <3>2. ASSUME NEW o \in With("running") \ unheard PROVE Heads(o)'
        <4>1. PICK e \in S : e.op = o
          BY <2>4
        <4>2. PICK i \in DOMAIN t : t[i] = e
          BY <2>6
        <4>3. \A p \in With("running") : p = o \/ p \in unheard
          BY <1>u DEF Held
        <4>4. \A j \in DOMAIN t : j < i => t[j].op \in unheard /\ t[j].at = "hold"
          <5>1. ASSUME NEW j \in DOMAIN t, j < i PROVE t[j].op # o
            <6>1. j # i
              BY <2>9, <5>1
            <6>2. QED
              BY <2>4, <2>6, <4>1, <4>2, <6>1
          <5>2. QED
            BY <2>4, <2>6, <4>3, <5>1
        <4>5. QED
          BY <2>1, <2>4, <3>1, <4>1, <4>2, <4>4 DEF Heads
      <3>3. Held'
        BY <1>u, <2>1, <2>2, <3>2 DEF Held
      <3>4. QED
        BY <2>2, <2>10, <3>3 DEF HolderInv
    <2>13. QED
      BY <2>11, <2>12
  <1>27. ASSUME RestoreWaiting PROVE HolderInv'
    <2>1. /\ UNCHANGED <<row, line, unheard, unsure, start, withdrawing>>
          /\ phase # "closed"
      BY <1>27 DEF RestoreWaiting
    <2>2. With("running")' = With("running") /\ With("cancelled")' = With("cancelled")
      BY <2>1 DEF With
    <2>3. QED
      BY <1>u, <2>1, <2>2, RowsMove DEF Unstarted
  <1>28. ASSUME Open PROVE HolderInv'
    <2>1. /\ UNCHANGED <<row, line, unheard, unsure, start, withdrawing>>
          /\ phase # "closed"
      BY <1>28 DEF Open
    <2>2. With("running")' = With("running") /\ With("cancelled")' = With("cancelled")
      BY <2>1 DEF With
    <2>3. QED
      BY <1>u, <2>1, <2>2, RowsMove DEF Unstarted
  <1>29. ASSUME NEW o \in Queued, SweepTakes(o) PROVE HolderInv'
    <2>1. /\ o \in turns \union swept /\ Reserve(o)
          /\ UNCHANGED <<row, phase, start, withdrawing, unheard>>
      BY <1>29 DEF SweepTakes, SweepNext
    <2>2. phase # "closed"
      BY <1>29 DEF SweepTakes, SweepNext, DurableInv, Early
    <2>3. QED
      BY <2>1, <2>2, ReserveHolds
  <1>30. ASSUME SweepWaiting PROVE HolderInv'
    <2>1. UNCHANGED <<row, line, unheard, unsure, start, withdrawing, phase>>
      BY <1>30 DEF SweepWaiting
    <2>2. With("running")' = With("running") /\ With("cancelled")' = With("cancelled")
      BY <2>1 DEF With
    <2>3. QED
      BY <1>u, <2>1, <2>2, RowsMove DEF Unstarted
  <1>31. ASSUME SweepUndispatched PROVE HolderInv'
    <2>1. UNCHANGED <<row, line, unheard, unsure, start, withdrawing, phase>>
      BY <1>31 DEF SweepUndispatched
    <2>2. With("running")' = With("running") /\ With("cancelled")' = With("cancelled")
      BY <2>1 DEF With
    <2>3. QED
      BY <1>u, <2>1, <2>2, RowsMove DEF Unstarted
  <1>32. ASSUME BecomeReady PROVE HolderInv'
    <2>1. UNCHANGED <<row, line, unheard, unsure, start, withdrawing, phase>>
      BY <1>32 DEF BecomeReady
    <2>2. With("running")' = With("running") /\ With("cancelled")' = With("cancelled")
      BY <2>1 DEF With
    <2>3. QED
      BY <1>u, <2>1, <2>2, RowsMove DEF Unstarted
  <1>33. ASSUME Crash PROVE HolderInv'
    <2>1. /\ row' = row /\ line' = <<>> /\ phase' = "closed" /\ withdrawing' = {}
          /\ unheard' = {o \in unheard : With("running") # {o}}
          /\ start' = [s \in Starters |-> IF start[s] \in {"opening", "lined"} THEN "refused" ELSE start[s]]
      BY <1>33 DEF Crash
    <2>2. With("running")' = With("running")
      BY <2>1 DEF With
    <2>3. \A o, p \in (With("running") \ unheard)' : o = p
      BY <1>u, <2>1, <2>2 DEF Held
    <2>4. Held'
      BY <2>1, <2>3 DEF Held
    <2>5. Restored'
      BY <2>1 DEF Restored
    <2>6. Unstarted'
      BY <1>u, <1>t, <2>1 DEF Unstarted
    <2>7. QED
      BY <2>4, <2>5, <2>6 DEF HolderInv
  <1>34. CASE UNCHANGED vars
    <2>1. UNCHANGED <<row, line, unheard, unsure, start, withdrawing, phase>>
      BY <1>34 DEF vars
    <2>2. With("running")' = With("running") /\ With("cancelled")' = With("cancelled")
      BY <2>1 DEF With
    <2>3. QED
      BY <1>u, <2>1, <2>2, RowsMove DEF Unstarted
  <1>35. QED
    BY <1>1, <1>2, <1>3, <1>4, <1>5, <1>6, <1>7, <1>8, <1>9, <1>10,
       <1>11, <1>12, <1>13, <1>14, <1>15, <1>16, <1>17, <1>18, <1>19, <1>20,
       <1>21, <1>22, <1>23, <1>24, <1>25, <1>26, <1>27, <1>28, <1>29, <1>30,
       <1>31, <1>32, <1>33, <1>34
       DEF Next, QueueSteps, TurnSteps, HolderSteps, StartSteps, WorkflowSteps, Startup

-----------------------------------------------------------------------------
(***************************************************************************)
(* Theorems.                                                               *)
(***************************************************************************)

\* The inductive invariant of durable operations: rows, workflows, answers
\* and the line agree.
THEOREM DurableInvariant == Spec => []DurableInv
  <1>1. Init => DurableInv
    BY InitDurableInv
  <1>2. DurableInv /\ [Next]_vars => DurableInv'
    BY StepDurableInv
  <1>3. QED
    BY <1>1, <1>2, PTL DEF Spec

\* The state is what maps, rows and workflows can hold.
THEOREM DurableTypes == Spec => []DurableTypeOK
  <1>1. DurableInv => DurableTypeOK
    BY DEF DurableInv
  <1>2. QED
    BY <1>1, DurableInvariant, PTL

\* What was asked is never dropped, whatever fails or restarts (queueOperation,
\* and the input a workflow reads from its row).
THEOREM AsksAreRun == Spec => []AskIsRun
  <1>1. DurableInv => AskIsRun
    BY DEF DurableInv, Homes, Flows, AskIsRun, Ops
  <1>2. QED
    BY <1>1, DurableInvariant, PTL

\* The lanes are held for the one that runs: the invariant of the holders.
THEOREM HoldersInvariant == Spec => []HolderInv
  <1>1. Init => HolderInv
    BY InitHolderInv
  <1>2. DurableInv /\ DurableInv' /\ HolderInv /\ [Next]_vars => HolderInv'
    BY StepHolderInv
  <1>3. QED
    BY <1>1, <1>2, DurableInvariant, PTL DEF Spec

\* A workflow at work holds the lanes alone, across restarts, unless no
\* answer to its start was heard (takeTurn, startDurableOperation,
\* restoreLockingOperations).
THEOREM WorksAlone == Spec => []ActsAlone
  <1>1. DurableInv /\ HolderInv => ActsAlone
    <2> SUFFICES ASSUME DurableInv, HolderInv, NEW o \in Ops \ unheard, run[o] = "acting"
                 PROVE  /\ line # <<>> /\ Head(line).op \in {o} \union unheard
                        /\ \A p \in Ops \ unheard : run[p] = "acting" => p = o
      BY DEF ActsAlone
    <2>1. phase # "closed" /\ \A p \in Ops : run[p] = "acting" => p \in With("running")
      BY DEF DurableInv, Flows, Early, With
    <2>2. PICK i \in DOMAIN line :
              /\ line[i].op = o /\ line[i].at = "hold"
              /\ \A j \in DOMAIN line : j < i => line[j].op \in unheard /\ line[j].at = "hold"
      BY <2>1 DEF HolderInv, Held, Heads
    <2>3. /\ i \in Nat /\ i >= 1 /\ line # <<>> /\ Head(line) = line[1] /\ 1 \in DOMAIN line
          /\ i = 1 \/ 1 < i
      BY DEF DurableInv, DurableTypeOK
    <2>4. line # <<>> /\ Head(line).op \in {o} \union unheard
      BY <2>2, <2>3
    <2>5. \A p \in Ops \ unheard : run[p] = "acting" => p = o
      BY <2>1 DEF HolderInv, Held
    <2>6. QED
      BY <2>4, <2>5
  <1>2. QED
    BY <1>1, DurableInvariant, HoldersInvariant, PTL

\* A cancelled operation never starts and leaves its place, unless nothing
\* answered the cancel or the re-read (cancelQueuedOperation and the re-read
\* of takeTurn).
THEOREM CancelsLeave == Spec => []CancelledLeaves
  <1>1. DurableInv => CancelledLeaves
    <2> SUFFICES ASSUME DurableInv, NEW o \in With("cancelled")
                 PROVE  /\ flow[o] = "none"
                        /\ \A i \in 2..Len(line) : line[i].who = o =>
                               o \in withdrawing \union unsure \union missed
      BY DEF CancelledLeaves
    <2>1. o \in Ops /\ row[o].state = "cancelled"
      BY DEF With
    <2>2. flow[o] = "none"
      BY <2>1 DEF DurableInv, DurableTypeOK, Flows
    <2>3. \A i \in 2..Len(line) : i \in DOMAIN line /\ i # 1
      BY DEF DurableInv, DurableTypeOK
    <2>4. QED
      BY <2>1, <2>2, <2>3 DEF DurableInv, Leaving
  <1>2. QED
    BY <1>1, DurableInvariant, PTL
=============================================================================
