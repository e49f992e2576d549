------------------------ MODULE QuotaAdmissionProofs ------------------------
(***************************************************************************)
(* Proofs about QuotaAdmission for any set of projects, any policy and any *)
(* length of the window: its type correctness, the bound on the overshoot, *)
(* and that selection by rank makes room for every admitted run.           *)
(*                                                                         *)
(* Below them, proofs about ProviderCycle, the runs that the quota admits, *)
(* for any lease longer than the job, any retry budget and any number of   *)
(* repetitions, faults and crashes: its sessions are accounted for, its    *)
(* retries are bounded, and checkpoint and project status agree.  Its      *)
(* invariant keeps two balances.  Sessions: those there are, and those     *)
(* that a run may still create, are one more at most than the faults,      *)
(* crashes and overtaken dispatches.  Retries: those made are at most      *)
(* those that the checkpoint has counted, one budget per overtaken         *)
(* dispatch, and one per crash.                                            *)
(***************************************************************************)
EXTENDS QuotaAdmission, ProviderCycle, FiniteSetTheorems, SequenceTheorems, TLAPS

USE DEF PolicyAssumption

\* The first n naturals are n.
LEMMA FirstNaturals ==
    \A n \in Nat : IsFiniteSet(1 .. n) /\ Cardinality(1 .. n) = n
<1> TAKE n \in Nat
<1>1. /\ IsFiniteSet(1 .. n)
      /\ Cardinality(1 .. n) = IF 1 > n THEN 0 ELSE n - 1 + 1
  BY FS_Interval
<1> QED
  BY <1>1

-----------------------------------------------------------------------------
\* The window.

\* Sessions are listed oldest first.
Ordered ==
    \A i, j \in DOMAIN recent : i <= j => recent[i].age >= recent[j].age

\* The sessions that the next tick drops, and those of project p.
Gone == {i \in DOMAIN recent : Outdated(recent[i].age + 1)}
Own(p) == {i \in DOMAIN recent : recent[i].owner = p}

\* What is listed is a session with an age within the window.
LEMMA Listed ==
    ASSUME TypeOK
    PROVE  /\ Len(recent) \in Nat
           /\ DOMAIN recent = 1 .. Len(recent)
           /\ \A i \in 1 .. Len(recent) :
                 /\ recent[i] \in Session
                 /\ recent[i].age \in 0 .. Window
                 /\ recent[i].owner \in Project \cup {Nobody}
<1>1. Len(recent) \in Nat /\ DOMAIN recent = 1 .. Len(recent)
  BY DEF TypeOK
<1>2. \A i \in 1 .. Len(recent) : recent[i] \in Session
  BY DEF TypeOK
<1> QED
  BY <1>1, <1>2 DEF Session

\* Every project's usage is a number: its sessions are a part of the window.
LEMMA UsedType ==
    ASSUME TypeOK, NEW p
    PROVE  Used(p) \in Nat /\ IsFiniteSet(Own(p)) /\ Used(p) = Cardinality(Own(p))
<1>1. IsFiniteSet(1 .. Len(recent))
  BY FirstNaturals DEF TypeOK
<1>2. Own(p) \subseteq 1 .. Len(recent)
  BY DEF Own, TypeOK
<1>3. IsFiniteSet(Own(p))
  BY <1>1, <1>2, FS_Subset
<1> QED
  BY <1>3, FS_CardinalityType DEF Used, Own

\* Usage is a number,
LEMMA UsageIsNat == TypeOK => \A p \in Project : Used(p) \in Nat
  BY UsedType

\* and so it is in the next state.
LEMMA NextUsageIsNat == TypeOK' => \A p \in Project : Used(p)' \in Nat
<1> SUFFICES ASSUME TypeOK', NEW p \in Project
             PROVE  Used(p)' \in Nat
  OBVIOUS
<1>1. Own(p)' \subseteq 1 .. Len(recent') /\ IsFiniteSet(1 .. Len(recent'))
  BY FirstNaturals DEF Own, TypeOK
<1>2. IsFiniteSet(Own(p)')
  BY <1>1, FS_Subset
<1> QED
  BY <1>2, FS_CardinalityType DEF Used, Own

\* What leaves the window is an initial segment of the list, and the rest
\* moves up; nobody's sessions become more, and only the owners of what left
\* have fewer.
LEMMA GoneIsPrefix ==
    ASSUME TypeOK, Ordered
    PROVE  /\ IsFiniteSet(Gone)
           /\ Cardinality(Gone) \in 0 .. Len(recent)
           /\ Gone = 1 .. Cardinality(Gone)
<1> DEFINE n == Len(recent)
           k == Cardinality(Gone)
<1>0. n \in Nat /\ DOMAIN recent = 1 .. n
  BY DEF TypeOK
<1>1. IsFiniteSet(1 .. n) /\ Cardinality(1 .. n) = n
  BY <1>0, FirstNaturals
<1>2. IsFiniteSet(Gone) /\ k <= n
  BY <1>0, <1>1, FS_Subset DEF Gone
<1>3. k \in Nat
  BY <1>2, FS_CardinalityType
<1>4. ASSUME NEW i \in Gone
      PROVE  i <= k
  <2>1. i \in 1 .. n /\ recent[i].age \in 0 .. Window
    BY <1>0, <1>4, Listed DEF Gone
  <2>2. 1 .. i \subseteq Gone
    <3> SUFFICES ASSUME NEW j \in 1 .. i
                 PROVE  j \in Gone
      OBVIOUS
    <3>1. j \in 1 .. n /\ j <= i
      BY <2>1
    <3>2. recent[j].age \in 0 .. Window /\ recent[j].age >= recent[i].age
      BY <1>0, <2>1, <3>1, Listed DEF Ordered
    <3>3. recent[i].age + 1 > Window
      BY <1>4 DEF Gone, Outdated
    <3> QED
      BY <1>0, <2>1, <3>1, <3>2, <3>3, QuotaAssumption DEF Gone, Outdated
  <2>3. Cardinality(1 .. i) = i
    BY <2>1, FirstNaturals
  <2>4. Cardinality(1 .. i) <= k
    BY <1>2, <2>2, FS_Subset
  <2> QED
    BY <2>3, <2>4
<1>5. Gone \subseteq 1 .. k
  BY <1>0, <1>3, <1>4 DEF Gone
<1>6. IsFiniteSet(1 .. k) /\ Cardinality(1 .. k) = k
  BY <1>3, FirstNaturals
<1>7. Gone = 1 .. k
  BY <1>5, <1>6, FS_Subset
<1> QED
  BY <1>2, <1>3, <1>7, <1>0

\* What leaves the window is a prefix of the sessions; the others move up.
LEMMA TickMovesUp ==
    ASSUME TypeOK, Ordered, Tick
    PROVE  LET k == Cardinality(Gone)
           IN  /\ k \in 0 .. Len(recent)
               /\ recent' \in Seq(Session)
               /\ Len(recent') = Len(recent) - k
               /\ DOMAIN recent' = 1 .. Len(recent')
               /\ \A i \in 1 .. Len(recent') :
                     /\ i + k \in 1 .. Len(recent)
                     /\ recent'[i].owner = recent[i + k].owner
                     /\ recent'[i].age = recent[i + k].age + 1
<1> DEFINE n == Len(recent)
           k == Cardinality(Gone)
<1>1. k \in 0 .. n /\ n \in Nat /\ Gone = 1 .. k
  BY GoneIsPrefix, Listed
<1>2. recent' = [i \in 1 .. (n - k) |-> [recent[i + k] EXCEPT !.age = @ + 1]]
  BY DEF Tick, Gone
<1>3. n - k \in Nat
  BY <1>1
<1>4. ASSUME NEW i \in 1 .. (n - k)
      PROVE  /\ i + k \in 1 .. n
             /\ recent'[i] = [recent[i + k] EXCEPT !.age = @ + 1]
             /\ recent'[i] \in Session
             /\ recent'[i].owner = recent[i + k].owner
             /\ recent'[i].age = recent[i + k].age + 1
  <2>1. i + k \in 1 .. n /\ i + k \notin Gone
    BY <1>1, <1>4
  <2>2. recent'[i] = [recent[i + k] EXCEPT !.age = @ + 1]
    BY <1>2
  <2>3. recent[i + k] \in Session /\ recent[i + k].age \in 0 .. Window
    BY <2>1, Listed
  <2>4. recent[i + k].age + 1 \in 0 .. Window
    BY <2>1, <2>3, Listed, QuotaAssumption DEF Gone, Outdated
  <2> QED
    BY <2>1, <2>2, <2>3, <2>4 DEF Session
<1>5. DOMAIN recent' = 1 .. (n - k)
  BY <1>2
<1>6. recent' \in Seq(Session) /\ Len(recent') = n - k
  <2>1. recent' \in [1 .. (n - k) -> Session]
    BY <1>2, <1>4
  <2> QED
    BY <1>3, <2>1
<1> QED
  BY <1>1, <1>4, <1>5, <1>6

\* A tick never raises a usage, and lowers only those of the owners of what
\* left the window, who are not more than the sessions that left.
Leavers == {recent[i].owner : i \in Gone}

\* Time lowers the usage of the projects whose sessions left, and of no other.
LEMMA TickUsage ==
    ASSUME TypeOK, TypeOK', Ordered, Tick
    PROVE  /\ \A p \in Project : Used(p)' <= Used(p)
           /\ \A p \in Project \ Leavers : Used(p)' = Used(p)
           /\ IsFiniteSet(Leavers)
           /\ Cardinality(Leavers) <= Cardinality(Gone)
<1> DEFINE k == Cardinality(Gone)
           up(p) == [i \in Own(p)' |-> i + k]
<1>1. /\ k \in 0 .. Len(recent) /\ DOMAIN recent = 1 .. Len(recent)
      /\ Gone = 1 .. k /\ IsFiniteSet(Gone) /\ Len(recent) \in Nat
  BY GoneIsPrefix, Listed
<1>2. /\ Len(recent') = Len(recent) - k
      /\ DOMAIN recent' = 1 .. Len(recent')
      /\ \A i \in 1 .. Len(recent') : /\ i + k \in 1 .. Len(recent)
                                      /\ recent'[i].owner = recent[i + k].owner
  BY TickMovesUp
<1>3. ASSUME NEW p \in Project
      PROVE  /\ Own(p)' = {i \in 1 .. Len(recent') : recent[i + k].owner = p}
             /\ \A j \in Own(p) : j > k => j - k \in Own(p)'
  <2>1. Own(p)' = {i \in 1 .. Len(recent') : recent[i + k].owner = p}
    BY <1>2 DEF Own
  <2>2. ASSUME NEW j \in Own(p), j > k
        PROVE  j - k \in Own(p)'
    <3>1. j \in 1 .. Len(recent) /\ recent[j].owner = p
      BY <1>1 DEF Own
    <3>2. j - k \in 1 .. Len(recent') /\ (j - k) + k = j
      BY <1>1, <1>2, <2>2, <3>1
    <3> QED
      BY <2>1, <3>1, <3>2
  <2> QED
    BY <2>1, <2>2
<1>4. ASSUME NEW p \in Project
      PROVE  up(p) \in Injection(Own(p)', Own(p))
  <2>1. \A i \in Own(p)' : i \in Int /\ i + k \in Own(p)
    BY <1>1, <1>2, <1>3 DEF Own
  <2>2. up(p) \in [Own(p)' -> Own(p)]
    BY <2>1
  <2>3. \A i, j \in Own(p)' : up(p)[i] = up(p)[j] => i = j
    BY <1>1, <2>1
  <2> QED
    BY <2>2, <2>3 DEF Injection, IsInjective
<1>5. ASSUME NEW p \in Project
      PROVE  Used(p)' <= Used(p)
  <2>1. IsFiniteSet(Own(p)) /\ Used(p) = Cardinality(Own(p))
    BY UsedType
  <2>2. Used(p)' = Cardinality(Own(p)')
    BY DEF Used, Own
  <2>3. Cardinality(Own(p)') <= Cardinality(Own(p))
    BY <1>4, <2>1, FS_Injection
  <2> QED
    BY <2>1, <2>2, <2>3
<1>6. ASSUME NEW p \in Project \ Leavers
      PROVE  Used(p)' = Used(p)
  <2>1. IsFiniteSet(Own(p)) /\ Used(p) = Cardinality(Own(p))
    BY UsedType
  <2>2. Used(p)' = Cardinality(Own(p)')
    BY DEF Used, Own
  <2>3. \A j \in Own(p) : j \in 1 .. Len(recent) /\ j > k
    BY <1>1 DEF Own, Leavers
  <2>4. ASSUME NEW j \in Own(p)
        PROVE  \E i \in Own(p)' : up(p)[i] = j
    <3>1. j - k \in Own(p)' /\ (j - k) + k = j
      BY <1>1, <1>3, <2>3
    <3>2. up(p)[j - k] = (j - k) + k
      BY <3>1
    <3> QED
      BY <3>1, <3>2
  <2>5. up(p) \in Surjection(Own(p)', Own(p))
    BY <1>4, <2>4 DEF Injection, Surjection
  <2>6. Cardinality(Own(p)') = Cardinality(Own(p))
    BY <1>4, <2>1, <2>5, FS_Injection
  <2> QED
    BY <2>1, <2>2, <2>6
<1>7. IsFiniteSet(Leavers) /\ Cardinality(Leavers) <= k
  <2> DEFINE f == [i \in Gone |-> recent[i].owner]
  <2>1. f \in [Gone -> Leavers]
    BY DEF Leavers
  <2>2. \A x \in Leavers : \E i \in Gone : f[i] = x
    BY DEF Leavers
  <2>3. f \in Surjection(Gone, Leavers)
    BY <2>1, <2>2 DEF Surjection
  <2> QED
    BY <1>1, <2>3, FS_Surjection
<1> QED
  BY <1>5, <1>6, <1>7

\* A new session is the last of the list and raises its owner's usage by one.
LEMMA AppendUsage ==
    ASSUME TypeOK, NEW o \in Project \cup {Nobody},
           recent' = Append(recent, [owner |-> o, age |-> 0])
    PROVE  /\ recent' \in Seq(Session)
           /\ Len(recent') = Len(recent) + 1
           /\ DOMAIN recent' = 1 .. (Len(recent) + 1)
           /\ \A i \in 1 .. Len(recent) : recent'[i] = recent[i]
           /\ recent'[Len(recent) + 1] = [owner |-> o, age |-> 0]
           /\ \A p \in Project :
                 Used(p)' = IF p = o THEN Used(p) + 1 ELSE Used(p)
<1> DEFINE n == Len(recent)
           s == [owner |-> o, age |-> 0]
<1>1. n \in Nat /\ DOMAIN recent = 1 .. n
  BY Listed
<1>2. s \in Session
  BY QuotaAssumption DEF Session
<1>3. recent \in Seq(Session)
  BY DEF TypeOK
<1>4. /\ recent' \in Seq(Session)
      /\ Len(recent') = n + 1
      /\ \A i \in 1 .. n : recent'[i] = recent[i]
      /\ recent'[n + 1] = s
  BY <1>2, <1>3, AppendProperties
<1>5. DOMAIN recent' = 1 .. (n + 1)
  BY <1>4
<1>6. ASSUME NEW p \in Project
      PROVE  Used(p)' = IF p = o THEN Used(p) + 1 ELSE Used(p)
  <2>1. IsFiniteSet(Own(p)) /\ Used(p) = Cardinality(Own(p)) /\ Used(p)' = Cardinality(Own(p)')
    BY UsedType DEF Used, Own
  <2>2. n + 1 \notin Own(p)
    BY <1>1 DEF Own
  <2>3. CASE p = o
    <3>1. Own(p)' = Own(p) \cup {n + 1}
      BY <1>1, <1>4, <1>5, <2>3 DEF Own
    <3> QED
      BY <2>1, <2>2, <2>3, <3>1, FS_AddElement
  <2>4. CASE p # o
    <3>1. Own(p)' = Own(p)
      BY <1>1, <1>4, <1>5, <2>4 DEF Own
    <3> QED
      BY <2>1, <2>4, <3>1
  <2> QED
    BY <2>3, <2>4
<1> QED
  BY <1>4, <1>5, <1>6

-----------------------------------------------------------------------------
\* Type correctness.

\* The start is typed and in order.
LEMMA InitTyped == Init => TypeOK /\ Ordered
<1> SUFFICES ASSUME Init
             PROVE  TypeOK /\ Ordered
  OBVIOUS
<1> USE QuotaAssumption
<1>1. recent \in Seq(Session) /\ DOMAIN recent = {}
  BY DEF Init
<1>2. phase \in [Project -> Phase] /\ overtaken \subseteq Reading \cup InFlight
  BY DEF Init, Phase
<1>3. wait \in [Project -> 0 .. (Window + Grace + RetryDelay)]
  BY DEF Init
<1> QED
  BY <1>1, <1>2, <1>3 DEF Init, TypeOK, Ordered

\* The steps that leave the window alone keep its order.
LEMMA OrderKept == Ordered /\ UNCHANGED recent => Ordered'
  BY DEF Ordered

\* A session that is appended keeps the order.
LEMMA OrderAppended ==
    ASSUME TypeOK, Ordered, NEW o \in Project \cup {Nobody},
           recent' = Append(recent, [owner |-> o, age |-> 0])
    PROVE  Ordered'
<1> SUFFICES ASSUME NEW i \in DOMAIN recent', NEW j \in DOMAIN recent', i <= j
             PROVE  recent'[i].age >= recent'[j].age
  BY DEF Ordered
<1>1. /\ Len(recent) \in Nat /\ DOMAIN recent = 1 .. Len(recent)
      /\ \A l \in 1 .. Len(recent) : recent[l].age \in 0 .. Window
  BY Listed
<1>2. /\ DOMAIN recent' = 1 .. (Len(recent) + 1)
      /\ \A l \in 1 .. Len(recent) : recent'[l] = recent[l]
      /\ recent'[Len(recent) + 1].age = 0
  BY AppendUsage
<1>3. recent'[i].age \in 0 .. Window
  BY <1>1, <1>2, QuotaAssumption
<1>4. CASE j = Len(recent) + 1
  BY <1>2, <1>3, <1>4
<1>5. CASE j # Len(recent) + 1
  BY <1>1, <1>2, <1>5 DEF Ordered
<1> QED
  BY <1>4, <1>5

\* A pause lasts no longer than the window, the grace and the retry delay.
LEMMA PauseTyped ==
    ASSUME TypeOK, NEW p \in Project, NEW time,
           time \in 0 .. (Window + Grace + RetryDelay), Pause(p, time)
    PROVE  /\ phase' \in [Project -> Phase] /\ phase' = [phase EXCEPT ![p] = "paused"]
           /\ wait' \in [Project -> 0 .. (Window + Grace + RetryDelay)]
  BY DEF Pause, SetPhase, TypeOK, Phase

\* Every step keeps types and order.
LEMMA NextTyped == TypeOK /\ Ordered /\ [Next]_vars => TypeOK' /\ Ordered'
<1> SUFFICES ASSUME TypeOK, Ordered, [Next]_vars
             PROVE  TypeOK' /\ Ordered'
  OBVIOUS
<1> USE QuotaAssumption DEF Reading, InFlight
<1>1. ASSUME NEW p \in Project, Demand(p)
      PROVE  TypeOK' /\ Ordered'
  <2>1. phase' = [phase EXCEPT ![p] = "ready"] /\ phase[p] = "idle" /\ UNCHANGED recent
    BY <1>1 DEF Demand, SetPhase
  <2>2. foreign' \in 0 .. MaxForeign
    BY <1>1 DEF Demand, TypeOK
  <2>3. overtaken' \subseteq Reading' \cup InFlight'
    BY <1>1, <2>1 DEF Demand, OvertakeAll, TypeOK
  <2> QED
    BY <1>1, <2>1, <2>2, <2>3, OrderKept DEF Demand, TypeOK, Phase
<1>2. ASSUME NEW p \in Project, StartRun(p)
      PROVE  TypeOK' /\ Ordered'
  BY <1>2, OrderKept DEF StartRun, SetPhase, TypeOK, Phase
<1>3. ASSUME NEW p \in Project, NEW q \in Managed, ReadBranch(p, q)
      PROVE  TypeOK' /\ Ordered'
  <2>1. seen' \in [Project -> SUBSET Project]
    <3>1. seen' = seen \/ seen' = [seen EXCEPT ![p] = @ \cup {q}]
      BY <1>3 DEF ReadBranch, Unreadable, HasDemand, TypeOK
    <3> QED
      BY <3>1 DEF TypeOK
  <2>2. unread' \in [Project -> SUBSET Managed]
    BY <1>3 DEF ReadBranch, TypeOK
  <2> QED
    BY <1>3, <2>1, <2>2, OrderKept DEF ReadBranch, TypeOK
<1>4. ASSUME NEW p \in Project, Decide(p)
      PROVE  TypeOK' /\ Ordered'
  <2>1. /\ seen' \in [Project -> SUBSET Project]
        /\ UNCHANGED <<unread, recent, foreign>> /\ phase[p] = "reading"
    BY <1>4 DEF Decide, TypeOK
  <2>2. CASE Admits(p, seen[p])
    <3>1. /\ phase' = [phase EXCEPT ![p] = "create"] /\ UNCHANGED wait
          /\ overtaken' \subseteq overtaken \cup {p}
      BY <1>4, <2>2 DEF Decide, SetPhase
    <3>2. overtaken' \subseteq Reading' \cup InFlight'
      BY <3>1 DEF TypeOK
    <3> QED
      BY <2>1, <3>1, <3>2, OrderKept DEF TypeOK, Phase
  <2>3. CASE ~Admits(p, seen[p])
    <3>1. overtaken' = overtaken \ {p}
      BY <1>4, <2>3 DEF Decide
    <3>2. \E time \in 0 .. (Window + Grace + RetryDelay) : Pause(p, time)
      <4>1. CASE \E i \in Awaited(p) : Pause(p, Window + Grace - recent[i].age)
        <5>1. PICK i \in Awaited(p) : Pause(p, Window + Grace - recent[i].age)
          BY <4>1
        <5>2. recent[i].age \in 0 .. Window
          BY <5>1, Listed DEF Awaited
        <5> QED
          BY <5>1, <5>2
      <4>2. CASE Pause(p, RetryDelay)
        BY <4>2
      <4> QED
        BY <1>4, <2>3, <4>1, <4>2 DEF Decide
    <3>3. /\ phase' \in [Project -> Phase] /\ phase' = [phase EXCEPT ![p] = "paused"]
          /\ wait' \in [Project -> 0 .. (Window + Grace + RetryDelay)]
      BY <3>2, PauseTyped
    <3> QED
      BY <2>1, <3>1, <3>3, OrderKept DEF TypeOK
  <2> QED
    BY <2>2, <2>3
<1>5. ASSUME NEW p \in Project, Create(p)
      PROVE  TypeOK' /\ Ordered'
  <2>0. UNCHANGED <<unread, seen, foreign>> /\ phase[p] = "create"
    BY <1>5 DEF Create
  <2>1. CASE recent' = Append(recent, [owner |-> p, age |-> 0]) /\ SetPhase(p, "running")
              /\ UNCHANGED wait
              /\ overtaken' = (IF p \in overtaken THEN overtaken \cup InFlight
                                                  ELSE overtaken) \ {p}
    <3>1. recent' \in Seq(Session) /\ Ordered'
      BY <2>1, AppendUsage, OrderAppended
    <3>2. phase' = [phase EXCEPT ![p] = "running"]
      BY <2>1 DEF SetPhase
    <3>3. overtaken' \subseteq Reading' \cup InFlight'
      BY <2>1, <3>2 DEF TypeOK
    <3> QED
      BY <2>0, <2>1, <3>1, <3>2, <3>3 DEF TypeOK, Phase
  <2>2. CASE Pause(p, RetryDelay) /\ overtaken' = overtaken \ {p} /\ UNCHANGED recent
    <3>1. /\ phase' \in [Project -> Phase] /\ phase' = [phase EXCEPT ![p] = "paused"]
          /\ wait' \in [Project -> 0 .. (Window + Grace + RetryDelay)]
      BY <2>2, PauseTyped
    <3> QED
      BY <2>0, <2>2, <3>1, OrderKept DEF TypeOK
  <2> QED
    BY <1>5, <2>1, <2>2 DEF Create
<1>6. ASSUME NEW p \in Project, Finish(p)
      PROVE  TypeOK' /\ Ordered'
  BY <1>6, OrderKept DEF Finish, SetPhase, OvertakeAll, TypeOK, Phase
<1>7. CASE UseByHand
  <2>1. recent' \in Seq(Session) /\ Ordered'
    BY <1>7, AppendUsage, OrderAppended DEF UseByHand
  <2>2. foreign' \in 0 .. MaxForeign
    BY <1>7 DEF UseByHand, TypeOK
  <2> QED
    BY <1>7, <2>1, <2>2 DEF UseByHand, TypeOK
<1>8. CASE Tick
  <2>1. recent' \in Seq(Session)
    BY <1>8, TickMovesUp
  <2>2. Ordered'
    <3>1. ASSUME NEW i \in DOMAIN recent', NEW j \in DOMAIN recent', i <= j
          PROVE  recent'[i].age >= recent'[j].age
      <4> DEFINE k == Cardinality(Gone)
      <4>1. /\ k \in Nat /\ i \in Nat /\ j \in Nat
            /\ i + k \in 1 .. Len(recent) /\ recent'[i].age = recent[i + k].age + 1
            /\ j + k \in 1 .. Len(recent) /\ recent'[j].age = recent[j + k].age + 1
        BY <1>8, <3>1, TickMovesUp, Listed
      <4>2. recent[i + k].age \in Int /\ recent[j + k].age \in Int
        BY <4>1, Listed
      <4>3. recent[i + k].age >= recent[j + k].age
        BY <3>1, <4>1, Listed DEF Ordered
      <4> QED
        BY <4>1, <4>2, <4>3
    <3> QED
      BY <3>1 DEF Ordered
  <2>3. wait' \in [Project -> 0 .. (Window + Grace + RetryDelay)]
    BY <1>8 DEF Tick, TypeOK
  <2> QED
    BY <1>8, <2>1, <2>2, <2>3 DEF Tick, TypeOK
<1>9. CASE UNCHANGED vars
  BY <1>9 DEF vars, TypeOK, Ordered
<1> QED
  BY <1>1, <1>2, <1>3, <1>4, <1>5, <1>6, <1>7, <1>8, <1>9 DEF Next

\* Whatever the projects do, every variable has its type, and the sessions
\* listed are those of the window, oldest first.
THEOREM TypeCorrect == Spec => [](TypeOK /\ Ordered)
<1>1. Init => TypeOK /\ Ordered
  BY InitTyped
<1>2. (TypeOK /\ Ordered) /\ [Next]_vars => (TypeOK /\ Ordered)'
  BY NextTyped
<1> QED
  BY <1>1, <1>2, PTL DEF Spec

-----------------------------------------------------------------------------
\* The bound on the overshoot.

\* An admission is given when there is room, so the sessions and those still
\* to be created exceed the limit by no more than the number of projects.
RoomForAdmitted ==
    Len(recent) + Cardinality(InFlight) <= Limit + Cardinality(Project)

\* The runs in flight are finitely many, and at most one for each project.
LEMMA InFlightFinite ==
    /\ IsFiniteSet(Project) /\ Cardinality(Project) \in Nat
    /\ IsFiniteSet(InFlight) /\ Cardinality(InFlight) \in Nat
    /\ Cardinality(InFlight) <= Cardinality(Project)
<1>1. IsFiniteSet(Project) /\ InFlight \subseteq Project
  BY QuotaAssumption DEF InFlight
<1> QED
  BY <1>1, FS_Subset, FS_CardinalityType

\* Every step but an admission and a creation takes the phase of a project
\* that is not in flight to one that is not, if it changes it at all.
LEMMA InFlightSteps ==
    ASSUME TypeOK, [Next]_vars
    PROVE  \/ InFlight' = InFlight
           \/ \E p \in Project : Decide(p) /\ HasCapacity
           \/ \E p \in Project : /\ Create(p) /\ p \in InFlight
                                 /\ InFlight' = InFlight \ {p}
<1> USE DEF InFlight, TypeOK
<1>1. ASSUME NEW p \in Project, Demand(p) \/ StartRun(p) \/ Finish(p)
      PROVE  InFlight' = InFlight
  BY <1>1 DEF Demand, StartRun, Finish, SetPhase
<1>2. ASSUME NEW p \in Project, Decide(p)
      PROVE  InFlight' = InFlight \/ HasCapacity
  BY <1>2 DEF Decide, Admits, Pause, SetPhase
<1>3. ASSUME NEW p \in Project, Create(p)
      PROVE  p \in InFlight /\ InFlight' = InFlight \ {p}
  BY <1>3 DEF Create, Pause, SetPhase
<1>4. ASSUME UNCHANGED phase
      PROVE  InFlight' = InFlight
  BY <1>4
<1>5. ASSUME NEW p \in Project, NEW q \in Managed, ReadBranch(p, q)
      PROVE  UNCHANGED phase
  BY <1>5 DEF ReadBranch
<1>6. UseByHand \/ Tick \/ UNCHANGED vars => UNCHANGED phase
  BY DEF UseByHand, Tick, vars
<1> QED
  BY <1>1, <1>2, <1>3, <1>4, <1>5, <1>6 DEF Next

\* Every step keeps the room.
LEMMA RoomNext ==
    TypeOK /\ Ordered /\ RoomForAdmitted /\ [Next]_vars => RoomForAdmitted'
<1> SUFFICES ASSUME TypeOK, Ordered, RoomForAdmitted, [Next]_vars
             PROVE  RoomForAdmitted'
  OBVIOUS
<1> USE QuotaAssumption, InFlightFinite
<1>0. Len(recent) \in Nat
  BY Listed
<1>1. Cardinality(InFlight') \in Nat /\ Cardinality(InFlight') <= Cardinality(Project)
  <2>1. InFlight' \subseteq Project
    BY DEF InFlight
  <2> QED
    BY <2>1, FS_Subset, FS_CardinalityType
<1>2. ASSUME NEW p \in Project, Decide(p), HasCapacity
      PROVE  RoomForAdmitted'
  BY <1>0, <1>1, <1>2 DEF Decide, HasCapacity, RoomForAdmitted
<1>3. ASSUME NEW p \in Project, Create(p), p \in InFlight, InFlight' = InFlight \ {p}
      PROVE  RoomForAdmitted'
  <2>1. Cardinality(InFlight') = Cardinality(InFlight) - 1
    BY <1>3, FS_RemoveElement
  <2>2. Len(recent') <= Len(recent) + 1 /\ Len(recent') \in Nat
    BY <1>0, <1>3, AppendUsage DEF Create
  <2> QED
    BY <1>0, <2>1, <2>2 DEF RoomForAdmitted
<1>4. ASSUME InFlight' = InFlight
      PROVE  RoomForAdmitted'
  <2>1. CASE UseByHand
    <3>1. Len(recent') = Len(recent) + 1 /\ Len(recent) < Limit
      BY <2>1, AppendUsage DEF UseByHand, HasCapacity
    <3> QED
      BY <1>0, <1>1, <3>1 DEF RoomForAdmitted
  <2>2. CASE Tick
    <3>1. Len(recent') <= Len(recent) /\ Len(recent') \in Nat
      BY <1>0, <2>2, TickMovesUp
    <3> QED
      BY <1>0, <1>4, <3>1 DEF RoomForAdmitted
  <2>3. ASSUME NEW p \in Project, Create(p)
        PROVE  RoomForAdmitted'
    <3>1. p \in InFlight /\ p \notin InFlight'
      BY <2>3 DEF Create, Pause, SetPhase, InFlight, TypeOK
    <3> QED
      BY <1>4, <3>1
  <2>4. CASE UNCHANGED recent
    BY <1>4, <2>4 DEF RoomForAdmitted
  <2>5. ASSUME NEW p \in Project, Demand(p) \/ StartRun(p) \/ Decide(p) \/ Finish(p)
        PROVE  UNCHANGED recent
    BY <2>5 DEF Demand, StartRun, Decide, Finish
  <2>6. ASSUME NEW p \in Project, NEW q \in Managed, ReadBranch(p, q)
        PROVE  UNCHANGED recent
    BY <2>6 DEF ReadBranch
  <2>7. UNCHANGED vars => UNCHANGED recent
    BY DEF vars
  <2> QED
    BY <2>1, <2>2, <2>3, <2>4, <2>5, <2>6, <2>7 DEF Next
<1> QED
  BY <1>2, <1>3, <1>4, InFlightSteps

\* The window never holds more sessions than the limit and one for each
\* project, however the assessments interleave.
THEOREM OvershootBounded == Spec => []OvershootIsBounded
<1>1. Init => RoomForAdmitted
  <2> SUFFICES ASSUME Init
               PROVE  RoomForAdmitted
    OBVIOUS
  <2>1. Len(recent) = 0
    BY DEF Init
  <2> QED
    BY <2>1, InFlightFinite, QuotaAssumption DEF RoomForAdmitted
<1>2. TypeOK /\ RoomForAdmitted => OvershootIsBounded
  <2> SUFFICES ASSUME TypeOK, RoomForAdmitted
               PROVE  OvershootIsBounded
    OBVIOUS
  <2> QED
    BY InFlightFinite, Listed, QuotaAssumption DEF RoomForAdmitted, OvershootIsBounded
<1> QED
  BY <1>1, <1>2, RoomNext, TypeCorrect, PTL DEF Spec

-----------------------------------------------------------------------------
\* The order of the projects by fill ratio.

\* Products keep the order of their factors, and determine it.
LEMMA ProductOrder ==
    /\ \A a, b, z \in Nat : a <= b => a * z <= b * z
    /\ \A a, b, z \in Nat : a * z < b * z => a < b
    /\ \A a, b \in Nat : \A z \in Nat \ {0} : a < b => a * z < b * z
    /\ \A a, b, z \in Nat : a * b \in Nat /\ a * b = b * a /\ (a * b) * z = (a * z) * b
<1>1. \A a, b, z \in Nat : a <= b => a * z <= b * z
  OBVIOUS
<1>2. \A a, b \in Nat : \A z \in Nat \ {0} : a < b => a * z < b * z
  OBVIOUS
<1>3. \A a, b, z \in Nat : a * z < b * z => a < b
  <2> SUFFICES ASSUME NEW a \in Nat, NEW b \in Nat, NEW z \in Nat, a * z < b * z, b <= a
               PROVE  FALSE
    OBVIOUS
  <2>1. b * z <= a * z
    BY <1>1
  <2>2. a * z \in Nat /\ b * z \in Nat
    OBVIOUS
  <2> QED
    BY <2>1, <2>2
<1>4. \A a, b, z \in Nat : a * b \in Nat /\ a * b = b * a /\ (a * b) * z = (a * z) * b
  OBVIOUS
<1> QED
  BY <1>1, <1>2, <1>3, <1>4

\* Comparing fractions by their cross products is transitive.
LEMMA FractionOrder ==
    ASSUME NEW a \in Nat, NEW b \in Nat, NEW c \in Nat,
           NEW x \in Nat \ {0}, NEW y \in Nat \ {0}, NEW z \in Nat \ {0},
           a * y <= b * x, b * z <= c * y
    PROVE  /\ a * z <= c * x
           /\ a * y < b * x \/ b * z < c * y => a * z < c * x
<1>1. /\ (a * y) * z <= (b * x) * z
      /\ (b * z) * x <= (c * y) * x
      /\ a * y < b * x => (a * y) * z < (b * x) * z
      /\ b * z < c * y => (b * z) * x < (c * y) * x
  BY ProductOrder
<1>2. /\ (a * y) * z = (a * z) * y
      /\ (b * x) * z = (b * z) * x
      /\ (c * y) * x = (c * x) * y
  BY ProductOrder
<1>3. /\ a * z \in Nat /\ c * x \in Nat
      /\ (a * z) * y \in Nat /\ (b * x) * z \in Nat /\ (c * x) * y \in Nat
  BY ProductOrder
<1>4. (a * z) * y <= (c * x) * y
  BY <1>1, <1>2, <1>3
<1>5. a * y < b * x \/ b * z < c * y => (a * z) * y < (c * x) * y
  BY <1>1, <1>2, <1>3
<1>6. a * z <= c * x
  BY <1>3, <1>4, ProductOrder
<1>7. (a * z) * y < (c * x) * y => a * z < c * x
  BY <1>3, ProductOrder
<1> QED
  BY <1>5, <1>6, <1>7

\* Ahead is a strict total order of the managed projects.
LEMMA AheadOrder ==
    ASSUME TypeOK
    PROVE  /\ \A p \in Managed : ~Ahead(p, p)
           /\ \A p, q \in Managed : p # q => Ahead(p, q) \/ Ahead(q, p)
           /\ \A p, q, r \in Managed : Ahead(p, q) /\ Ahead(q, r) => Ahead(p, r)
<1>1. \A p \in Managed : /\ Used(p) \in Nat
                         /\ Allocation[p] \in Nat \ {0}
                         /\ Precedence[p] \in Nat
  BY UsedType, QuotaAssumption
<1>2. \A p, q \in Managed : Used(p) * Allocation[q] \in Nat
  BY <1>1, ProductOrder
<1>3. \A p \in Managed : ~Ahead(p, p)
  BY <1>1, <1>2 DEF Ahead
<1>4. \A p, q \in Managed : p # q => Ahead(p, q) \/ Ahead(q, p)
  <2> SUFFICES ASSUME NEW p \in Managed, NEW q \in Managed, p # q
               PROVE  Ahead(p, q) \/ Ahead(q, p)
    OBVIOUS
  <2>1. Precedence[p] # Precedence[q]
    BY QuotaAssumption
  <2> QED
    BY <1>1, <1>2, <2>1 DEF Ahead
<1>5. \A p, q, r \in Managed : Ahead(p, q) /\ Ahead(q, r) => Ahead(p, r)
  <2> SUFFICES ASSUME NEW p \in Managed, NEW q \in Managed, NEW r \in Managed,
                      Ahead(p, q), Ahead(q, r)
               PROVE  Ahead(p, r)
    OBVIOUS
  <2>1. /\ Used(p) * Allocation[q] <= Used(q) * Allocation[p]
        /\ Used(q) * Allocation[r] <= Used(r) * Allocation[q]
    BY <1>2 DEF Ahead
  <2>2. /\ Used(p) * Allocation[r] <= Used(r) * Allocation[p]
        /\ \/ Used(p) * Allocation[q] < Used(q) * Allocation[p]
           \/ Used(q) * Allocation[r] < Used(r) * Allocation[q]
           => Used(p) * Allocation[r] < Used(r) * Allocation[p]
    BY <1>1, <2>1, FractionOrder
  <2> QED
    BY <1>1, <1>2, <2>1, <2>2 DEF Ahead
<1> QED
  BY <1>3, <1>4, <1>5

\* A project that is ahead after a step in which its own usage stayed the same
\* and the other's did not rise was ahead before.
LEMMA AheadBefore ==
    ASSUME TypeOK, TypeOK', NEW p \in Managed, NEW q \in Managed,
           Used(q)' = Used(q), Used(p)' <= Used(p), Ahead(q, p)'
    PROVE  Ahead(q, p)
<1>1. /\ Used(p) \in Nat /\ Used(q) \in Nat /\ Used(p)' \in Nat
      /\ Allocation[p] \in Nat \ {0} /\ Allocation[q] \in Nat \ {0}
      /\ Precedence[p] \in Nat /\ Precedence[q] \in Nat
  BY UsageIsNat, NextUsageIsNat, QuotaAssumption
<1>2. Used(p)' * Allocation[q] <= Used(p) * Allocation[q]
  BY <1>1, ProductOrder
<1>3. /\ Used(p)' * Allocation[q] \in Nat /\ Used(p) * Allocation[q] \in Nat
      /\ Used(q) * Allocation[p] \in Nat
  BY <1>1, ProductOrder
<1> QED
  BY <1>1, <1>2, <1>3 DEF Ahead

-----------------------------------------------------------------------------
\* Selection by rank makes room for every admitted run.

\* The managed projects that may create a session without a new task, the
\* admitted runs that count, and the projects ranked before p.
Pending == {q \in Managed : phase[q] \in {"ready", "reading", "create", "paused"}}

Sound == InFlight \ overtaken

Preceding(p) == {q \in UnderShare(Pending) : Ahead(q, p)}

\* Each of them would be admitted again now, whoever still precedes it.
SoundSelected ==
    \A p \in Sound :
        /\ p \in Managed
        /\ Used(p) < Allocation[p]
        /\ Cardinality(Preceding(p)) < Limit - Len(recent)

\* A run that was not overtaken has found, or will find, all the others.
ReadersKnow ==
    \A p \in Reading \ overtaken : Pending \subseteq unread[p] \cup seen[p]

RankInv == SoundSelected /\ ReadersKnow

\* All these sets are finite.
LEMMA RankFinite ==
    /\ \A S : S \subseteq Project => IsFiniteSet(S) /\ Cardinality(S) \in Nat
    /\ \A p : IsFiniteSet(Preceding(p)) /\ Cardinality(Preceding(p)) \in Nat
    /\ \A S, T : S \subseteq T /\ IsFiniteSet(T) => Cardinality(S) <= Cardinality(T)
<1>1. \A S : S \subseteq Project => IsFiniteSet(S) /\ Cardinality(S) \in Nat
  BY QuotaAssumption, FS_Subset, FS_CardinalityType
<1>2. \A p : Preceding(p) \subseteq Project
  BY QuotaAssumption DEF Preceding, UnderShare, Pending
<1>3. \A S, T : S \subseteq T /\ IsFiniteSet(T) => Cardinality(S) <= Cardinality(T)
  BY FS_Subset
<1> QED
  BY <1>1, <1>2, <1>3

\* Of two sound runs one precedes the other, with all that precede it.
LEMMA RankGrows ==
    ASSUME TypeOK, NEW x \in Managed, NEW y \in Managed, x \in UnderShare(Pending),
           Ahead(x, y)
    PROVE  Cardinality(Preceding(x)) < Cardinality(Preceding(y))
<1>1. x \notin Preceding(x)
  BY AheadOrder DEF Preceding
<1>2. Preceding(x) \cup {x} \subseteq Preceding(y)
  BY AheadOrder DEF Preceding, UnderShare
<1>3. /\ Cardinality(Preceding(x) \cup {x}) = Cardinality(Preceding(x)) + 1
      /\ Cardinality(Preceding(x) \cup {x}) <= Cardinality(Preceding(y))
  BY <1>1, <1>2, RankFinite, FS_AddElement
<1> QED
  BY <1>3, RankFinite

\* Sound selections are under the share.
LEMMA SoundPending == SoundSelected => Sound \subseteq UnderShare(Pending)
  BY DEF SoundSelected, Sound, InFlight, UnderShare, Pending

\* The ranks of the sound runs are different and below the remaining capacity.
LEMMA SoundFits == TypeOK /\ SoundSelected => AdmittedFindRoom
<1> SUFFICES ASSUME TypeOK, SoundSelected, Sound # {}
             PROVE  Len(recent) + Cardinality(Sound) <= Limit
  BY DEF AdmittedFindRoom, Sound
<1> DEFINE room == Limit - Len(recent)
           rank == [p \in Sound |-> Cardinality(Preceding(p)) + 1]
<1>1. \A p \in Sound : /\ p \in Managed /\ p \in UnderShare(Pending)
                       /\ Cardinality(Preceding(p)) \in Nat
                       /\ Cardinality(Preceding(p)) < room
  BY RankFinite, SoundPending DEF SoundSelected
<1>2. room \in Nat
  BY <1>1, Listed, QuotaAssumption
<1>3. rank \in [Sound -> 1 .. room]
  BY <1>1, <1>2
<1>4. ASSUME NEW x \in Sound, NEW y \in Sound, x # y
      PROVE  rank[x] # rank[y]
  <2>1. Ahead(x, y) \/ Ahead(y, x)
    BY <1>1, <1>4, AheadOrder
  <2>2. Cardinality(Preceding(x)) # Cardinality(Preceding(y))
    BY <1>1, <2>1, RankGrows
  <2> QED
    BY <1>1, <2>2
<1>5. rank \in Injection(Sound, 1 .. room)
  BY <1>3, <1>4 DEF Injection, IsInjective
<1>6. IsFiniteSet(1 .. room) /\ Cardinality(1 .. room) <= room
  BY <1>2, FirstNaturals
<1>7. Cardinality(Sound) <= Cardinality(1 .. room) /\ IsFiniteSet(Sound)
  BY <1>5, <1>6, FS_Injection
<1>8. Cardinality(Sound) \in Nat /\ Cardinality(1 .. room) \in Nat
  BY <1>6, <1>7, FS_CardinalityType
<1> QED
  BY <1>2, <1>6, <1>7, <1>8, Listed, QuotaAssumption

\* A step that leaves the window alone, adds no pending project and no sound
\* run keeps the selection.
LEMMA SelectedKept ==
    ASSUME TypeOK, SoundSelected, UNCHANGED recent,
           Pending' \subseteq Pending, Sound' \subseteq Sound
    PROVE  SoundSelected'
<1> SUFFICES ASSUME NEW p \in Sound'
             PROVE  /\ p \in Managed
                    /\ Used(p)' < Allocation[p]
                    /\ Cardinality(Preceding(p)') < Limit - Len(recent')
  BY DEF SoundSelected
<1>1. \A q : Used(q)' = Used(q)
  BY DEF Used
<1>2. Preceding(p)' \subseteq Preceding(p)
  BY <1>1 DEF Preceding, UnderShare, Ahead
<1>3. Cardinality(Preceding(p)') <= Cardinality(Preceding(p))
  BY <1>2, RankFinite
<1>4. /\ p \in Managed /\ Used(p) < Allocation[p]
      /\ Cardinality(Preceding(p)) < Limit - Len(recent)
  BY DEF SoundSelected
<1>5. Cardinality(Preceding(p)') \in Nat
  <2>1. Preceding(p)' \subseteq Project
    BY QuotaAssumption DEF Preceding, UnderShare, Pending
  <2> QED
    BY <2>1, RankFinite
<1>6. Len(recent') = Len(recent) /\ Len(recent) \in Nat
  BY Listed
<1> QED
  BY <1>1, <1>3, <1>4, <1>5, <1>6, RankFinite, QuotaAssumption

\* An admission by rank makes the run sound: what it found active includes all
\* that are pending.
LEMMA AdmittedIsSelected ==
    ASSUME TypeOK, RankInv, NEW p \in Project, Decide(p), p \in Sound'
    PROVE  /\ p \in Managed /\ Used(p) < Allocation[p]
           /\ Cardinality(Preceding(p)) < Limit - Len(recent)
<1>1. phase[p] = "reading" /\ unread[p] = {}
  BY DEF Decide
<1>2. phase'[p] = "create" /\ p \notin overtaken'
  BY DEF Sound, InFlight
<1>3. Admits(p, seen[p])
  BY <1>1, <1>2 DEF Decide, Pause, SetPhase, TypeOK
<1>4. p \in UnderShare(seen[p]) /\ p \notin overtaken
  BY <1>2, <1>3 DEF Decide
<1>5. Pending \subseteq seen[p]
  BY <1>1, <1>4 DEF RankInv, ReadersKnow, Reading
<1>6. Selected(p, seen[p])
  BY <1>3, <1>4 DEF Admits, UnderShare
<1> DEFINE found == {q \in UnderShare(seen[p]) : Ahead(q, p)}
<1>7. Cardinality(found) < Limit - Len(recent)
  BY <1>6 DEF Selected
<1>8. Preceding(p) \subseteq found /\ found \subseteq Project
  BY <1>5, QuotaAssumption DEF Preceding, UnderShare
<1>9. Cardinality(Preceding(p)) <= Cardinality(found) /\ Cardinality(found) \in Nat
  BY <1>8, RankFinite
<1> QED
  BY <1>4, <1>7, <1>9, RankFinite, Listed, QuotaAssumption DEF UnderShare

\* The creation by a sound run takes one slot and one rank from every other
\* sound run: the creator either preceded it, or comes after it.
LEMMA CreationKeepsRank ==
    ASSUME TypeOK, TypeOK', SoundSelected, NEW p \in Sound,
           recent' = Append(recent, [owner |-> p, age |-> 0]),
           Pending' = Pending \ {p}, Sound' = Sound \ {p}
    PROVE  SoundSelected'
<1> SUFFICES ASSUME NEW x \in Sound \ {p}
             PROVE  /\ x \in Managed
                    /\ Used(x)' < Allocation[x]
                    /\ Cardinality(Preceding(x)') < Limit - Len(recent')
  BY DEF SoundSelected
<1>1. /\ p \in Managed /\ p \in UnderShare(Pending)
      /\ x \in Managed /\ x \in UnderShare(Pending) /\ Used(x) < Allocation[x]
      /\ Cardinality(Preceding(p)) < Limit - Len(recent)
      /\ Cardinality(Preceding(x)) < Limit - Len(recent)
  BY SoundPending DEF SoundSelected
<1>2. /\ Len(recent') = Len(recent) + 1
      /\ \A q \in Managed : q # p => Used(q)' = Used(q)
  BY <1>1, AppendUsage, QuotaAssumption
<1>3. Preceding(x)' \subseteq Preceding(x) \ {p}
  BY <1>1, <1>2 DEF Preceding, UnderShare, Ahead
<1>4. /\ Cardinality(Preceding(x)') <= Cardinality(Preceding(x) \ {p})
      /\ IsFiniteSet(Preceding(x) \ {p})
      /\ Cardinality(Preceding(x) \ {p}) \in Nat
      /\ Cardinality(Preceding(x)') \in Nat
  <2>1. IsFiniteSet(Preceding(x) \ {p})
    BY RankFinite, FS_RemoveElement
  <2> QED
    BY <1>3, <2>1, RankFinite, FS_Subset, FS_CardinalityType
<1>5. CASE p \in Preceding(x)
  <2>1. Cardinality(Preceding(x) \ {p}) = Cardinality(Preceding(x)) - 1
    BY <1>5, RankFinite, FS_RemoveElement
  <2> QED
    BY <1>1, <1>2, <1>4, <2>1, RankFinite, Listed, QuotaAssumption
<1>6. CASE p \notin Preceding(x)
  <2>1. Ahead(x, p)
    BY <1>1, <1>6, AheadOrder DEF Preceding
  <2>2. Cardinality(Preceding(x)) < Cardinality(Preceding(p))
    BY <1>1, <2>1, RankGrows
  <2>3. Cardinality(Preceding(x)') <= Cardinality(Preceding(x))
    BY <1>3, RankFinite
  <2> QED
    BY <1>1, <1>2, <1>4, <2>2, <2>3, RankFinite, Listed, QuotaAssumption
<1> QED
  BY <1>1, <1>2, <1>5, <1>6

\* What leaves the window frees at least as many slots as it puts projects
\* ahead of a sound run.
LEMMA TickKeepsRank ==
    ASSUME TypeOK, TypeOK', Ordered, SoundSelected, Tick
    PROVE  SoundSelected'
<1> SUFFICES ASSUME NEW x \in Sound
             PROVE  /\ x \in Managed
                    /\ Used(x)' < Allocation[x]
                    /\ Cardinality(Preceding(x)') < Limit - Len(recent')
  BY DEF SoundSelected, Sound, InFlight, Tick
<1> DEFINE k == Cardinality(Gone)
<1>1. /\ x \in Managed /\ Used(x) < Allocation[x]
      /\ Cardinality(Preceding(x)) < Limit - Len(recent)
      /\ Used(x) \in Nat /\ Used(x)' \in Nat /\ Allocation[x] \in Nat
  BY UsageIsNat, NextUsageIsNat, QuotaAssumption DEF SoundSelected
<1>2. /\ k \in 0 .. Len(recent) /\ Len(recent) \in Nat
      /\ Len(recent') = Len(recent) - k
  BY TickMovesUp, Listed
<1>3. /\ \A q \in Project : Used(q)' <= Used(q)
      /\ \A q \in Project \ Leavers : Used(q)' = Used(q)
      /\ IsFiniteSet(Leavers) /\ Cardinality(Leavers) <= k
  BY TickUsage
<1>4. Preceding(x)' \subseteq Preceding(x) \cup Leavers
  <2> SUFFICES ASSUME NEW q \in Preceding(x)', q \notin Leavers
               PROVE  q \in Preceding(x)
    OBVIOUS
  <2>1. q \in Managed /\ q \in Pending' /\ Used(q)' < Allocation[q] /\ Ahead(q, x)'
    BY DEF Preceding, UnderShare
  <2>2. Pending' = Pending
    BY DEF Pending, Tick
  <2>3. Used(q)' = Used(q) /\ Used(x)' <= Used(x)
    BY <1>1, <1>3, <2>1, QuotaAssumption
  <2>4. Ahead(q, x)
    BY <1>1, <2>1, <2>3, AheadBefore
  <2> QED
    BY <2>1, <2>2, <2>3, <2>4 DEF Preceding, UnderShare
<1>5. /\ IsFiniteSet(Preceding(x) \cup Leavers)
      /\ Cardinality(Preceding(x) \cup Leavers) <= Cardinality(Preceding(x)) + k
  <2>1. /\ IsFiniteSet(Preceding(x) \cap Leavers)
        /\ Cardinality(Preceding(x) \cap Leavers) \in Nat
    BY RankFinite, FS_Intersection, FS_CardinalityType
  <2>2. /\ IsFiniteSet(Preceding(x) \cup Leavers)
        /\ Cardinality(Preceding(x) \cup Leavers)
             = Cardinality(Preceding(x)) + Cardinality(Leavers)
               - Cardinality(Preceding(x) \cap Leavers)
    BY <1>3, RankFinite, FS_Union
  <2>3. Cardinality(Leavers) \in Nat
    BY <1>3, FS_CardinalityType
  <2> QED
    BY <1>2, <1>3, <2>1, <2>2, <2>3, RankFinite
<1>6. /\ Cardinality(Preceding(x)') <= Cardinality(Preceding(x) \cup Leavers)
      /\ Cardinality(Preceding(x) \cup Leavers) \in Nat
      /\ Cardinality(Preceding(x)') \in Nat
  BY <1>4, <1>5, RankFinite, FS_Subset, FS_CardinalityType
<1>7. Used(x)' < Allocation[x]
  BY <1>1, <1>3, QuotaAssumption
<1> QED
  BY <1>1, <1>2, <1>5, <1>6, <1>7, RankFinite, QuotaAssumption

\* A new task of a managed project overtakes every assessment.
LEMMA OvertakenAll ==
    ASSUME TypeOK, InFlight' \subseteq InFlight, Reading' \subseteq Reading,
           OvertakeAll
    PROVE  RankInv'
<1>1. Sound' = {} /\ Reading' \ overtaken' = {}
  BY DEF Sound, OvertakeAll
<1> QED
  BY <1>1 DEF RankInv, SoundSelected, ReadersKnow

\* Every step keeps the rank invariant.
LEMMA RankNext ==
    TypeOK /\ TypeOK' /\ Ordered /\ RankInv /\ [Next]_vars => RankInv'
<1> SUFFICES ASSUME TypeOK, TypeOK', Ordered, RankInv, [Next]_vars
             PROVE  RankInv'
  OBVIOUS
<1> USE QuotaAssumption
<1>0. SoundSelected /\ ReadersKnow
  BY DEF RankInv
<1>1. ASSUME NEW p \in Project, Demand(p)
      PROVE  RankInv'
  <2>1. /\ phase' = [phase EXCEPT ![p] = "ready"] /\ phase[p] = "idle"
        /\ UNCHANGED <<unread, seen, recent>>
    BY <1>1 DEF Demand, SetPhase
  <2>2. InFlight' = InFlight /\ Reading' = Reading
    BY <2>1 DEF InFlight, Reading, TypeOK
  <2>3. CASE p \in Managed
    BY <1>1, <2>2, <2>3, OvertakenAll DEF Demand
  <2>4. CASE p \notin Managed
    <3>1. UNCHANGED overtaken
      BY <1>1, <2>4 DEF Demand
    <3>2. Pending' = Pending
      BY <2>1, <2>4 DEF Pending, TypeOK
    <3>3. SoundSelected'
      BY <1>0, <2>1, <2>2, <3>1, <3>2, SelectedKept DEF Sound
    <3>4. ReadersKnow'
      BY <1>0, <2>1, <2>2, <3>1, <3>2 DEF ReadersKnow
    <3> QED
      BY <3>3, <3>4 DEF RankInv
  <2> QED
    BY <2>3, <2>4
<1>2. ASSUME NEW p \in Project, StartRun(p)
      PROVE  RankInv'
  <2>1. /\ phase' = [phase EXCEPT ![p] = "reading"] /\ phase[p] \in {"ready", "paused"}
        /\ UNCHANGED <<recent, overtaken>>
        /\ unread' = [unread EXCEPT ![p] = Managed \ {p}]
        /\ seen' = [seen EXCEPT ![p] = {p}]
    BY <1>2 DEF StartRun, SetPhase
  <2>2. InFlight' = InFlight /\ Reading' = Reading \cup {p} /\ Pending' = Pending
    BY <2>1 DEF InFlight, Reading, Pending, TypeOK
  <2>3. SoundSelected'
    BY <1>0, <2>1, <2>2, SelectedKept DEF Sound
  <2>4. ReadersKnow'
    <3> SUFFICES ASSUME NEW r \in Reading' \ overtaken'
                 PROVE  Pending' \subseteq unread'[r] \cup seen'[r]
      BY DEF ReadersKnow
    <3>1. CASE r = p
      BY <2>1, <3>1 DEF TypeOK, Pending
    <3>2. CASE r # p
      BY <1>0, <2>1, <2>2, <3>2 DEF ReadersKnow, TypeOK, Reading
    <3> QED
      BY <3>1, <3>2
  <2> QED
    BY <2>3, <2>4 DEF RankInv
<1>3. ASSUME NEW p \in Project, NEW q \in Managed, ReadBranch(p, q)
      PROVE  RankInv'
  <2>1. /\ UNCHANGED <<phase, recent, overtaken>>
        /\ unread' = [unread EXCEPT ![p] = @ \ {q}]
        /\ \/ seen' = [seen EXCEPT ![p] = @ \cup {q}]
           \/ seen' = seen /\ phase[q] = "idle"
    BY <1>3 DEF ReadBranch, Unreadable, HasDemand, TypeOK
  <2>2. Pending' = Pending /\ Sound' = Sound /\ Reading' = Reading
    BY <2>1 DEF Pending, Sound, InFlight, Reading
  <2>3. SoundSelected'
    BY <1>0, <2>1, <2>2, SelectedKept
  <2>4. ReadersKnow'
    <3> SUFFICES ASSUME NEW r \in Reading \ overtaken, NEW z \in Pending
                 PROVE  z \in unread'[r] \cup seen'[r]
      BY <2>1, <2>2 DEF ReadersKnow
    <3>1. r \in Project /\ z \in unread[r] \cup seen[r] /\ phase[z] # "idle"
      BY <1>0 DEF ReadersKnow, Reading, Pending
    <3>2. CASE r # p
      BY <2>1, <3>1, <3>2 DEF TypeOK
    <3>3. CASE r = p /\ z # q
      BY <2>1, <3>1, <3>3 DEF TypeOK
    <3>4. CASE r = p /\ z = q
      BY <2>1, <3>1, <3>4 DEF TypeOK
    <3> QED
      BY <3>2, <3>3, <3>4
  <2> QED
    BY <2>3, <2>4 DEF RankInv
<1>4. ASSUME NEW p \in Project, Decide(p)
      PROVE  RankInv'
  <2>1. /\ phase[p] = "reading" /\ UNCHANGED <<unread, recent>>
        /\ seen' = [seen EXCEPT ![p] = {}]
        /\ \/ phase' = [phase EXCEPT ![p] = "create"]
           \/ phase' = [phase EXCEPT ![p] = "paused"]
        /\ overtaken \ {p} \subseteq overtaken'
    BY <1>4 DEF Decide, Pause, SetPhase
  <2>2. /\ Pending' = Pending /\ Sound' \subseteq Sound \cup {p}
        /\ Reading' = Reading \ {p}
    BY <2>1 DEF Pending, Sound, InFlight, Reading, TypeOK
  <2>3. SoundSelected'
    <3>1. CASE p \in Sound'
      <4>1. /\ p \in Managed /\ Used(p) < Allocation[p]
            /\ Cardinality(Preceding(p)) < Limit - Len(recent)
        BY <1>4, <3>1, AdmittedIsSelected
      <4>2. \A r \in Sound' : /\ r \in Managed /\ Used(r) < Allocation[r]
                              /\ Cardinality(Preceding(r)) < Limit - Len(recent)
        BY <1>0, <2>2, <4>1 DEF SoundSelected
      <4>3. \A r : Used(r)' = Used(r) /\ Preceding(r)' = Preceding(r)
        BY <2>1, <2>2 DEF Used, Preceding, UnderShare, Ahead
      <4> QED
        BY <2>1, <4>2, <4>3 DEF SoundSelected
    <3>2. CASE p \notin Sound'
      BY <1>0, <2>1, <2>2, <3>2, SelectedKept
    <3> QED
      BY <3>1, <3>2
  <2>4. ReadersKnow'
    <3> SUFFICES ASSUME NEW r \in Reading' \ overtaken'
                 PROVE  Pending' \subseteq unread'[r] \cup seen'[r]
      BY DEF ReadersKnow
    <3>1. r \in Reading \ overtaken /\ r # p /\ r \in Project
      BY <2>1, <2>2 DEF Reading
    <3> QED
      BY <1>0, <2>1, <2>2, <3>1 DEF ReadersKnow, TypeOK
  <2> QED
    BY <2>3, <2>4 DEF RankInv
<1>5. ASSUME NEW p \in Project, Create(p)
      PROVE  RankInv'
  <2>1. /\ phase[p] = "create" /\ UNCHANGED <<unread, seen>>
        /\ \/ phase' = [phase EXCEPT ![p] = "running"]
           \/ phase' = [phase EXCEPT ![p] = "paused"]
        /\ overtaken \ {p} \subseteq overtaken'
    BY <1>5 DEF Create, Pause, SetPhase
  <2>2. InFlight' = InFlight \ {p} /\ Reading' = Reading /\ Pending' \subseteq Pending
        /\ p \in InFlight /\ p \notin Reading
    BY <2>1 DEF InFlight, Reading, Pending, TypeOK
  <2>3. ReadersKnow'
    BY <1>0, <2>1, <2>2 DEF ReadersKnow
  <2>4. Sound' \subseteq Sound \ {p}
    BY <2>1, <2>2 DEF Sound
  <2>5. SoundSelected'
    <3>1. CASE UNCHANGED recent
      BY <1>0, <2>2, <2>4, <3>1, SelectedKept
    <3>2. CASE /\ recent' = Append(recent, [owner |-> p, age |-> 0])
               /\ SetPhase(p, "running")
               /\ overtaken' = (IF p \in overtaken THEN overtaken \cup InFlight
                                                   ELSE overtaken) \ {p}
      <4>1. CASE p \in overtaken
        <5>1. Sound' = {}
          BY <2>2, <3>2, <4>1 DEF Sound
        <5> QED
          BY <5>1 DEF SoundSelected
      <4>2. CASE p \notin overtaken
        <5>1. p \in Sound /\ Sound' = Sound \ {p}
          BY <2>2, <3>2, <4>2 DEF Sound
        <5>2. Pending' = Pending \ {p}
          BY <3>2 DEF SetPhase, Pending, TypeOK
        <5> QED
          BY <1>0, <3>2, <5>1, <5>2, CreationKeepsRank
      <4> QED
        BY <4>1, <4>2
    <3> QED
      BY <1>5, <3>1, <3>2 DEF Create
  <2> QED
    BY <2>3, <2>5 DEF RankInv
<1>6. ASSUME NEW p \in Project, Finish(p)
      PROVE  RankInv'
  <2>1. /\ phase[p] = "running" /\ UNCHANGED <<unread, seen, recent>>
        /\ \/ phase' = [phase EXCEPT ![p] = "idle"] /\ UNCHANGED overtaken
           \/ phase' = [phase EXCEPT ![p] = "ready"] /\ OvertakeAll
    BY <1>6 DEF Finish, SetPhase
  <2>2. InFlight' = InFlight /\ Reading' = Reading
    BY <2>1 DEF InFlight, Reading, TypeOK
  <2>3. CASE OvertakeAll
    BY <2>2, <2>3, OvertakenAll
  <2>4. CASE phase' = [phase EXCEPT ![p] = "idle"] /\ UNCHANGED overtaken
    <3>1. Pending' \subseteq Pending
      BY <2>1, <2>4 DEF Pending, TypeOK
    <3>2. SoundSelected'
      BY <1>0, <2>1, <2>2, <2>4, <3>1, SelectedKept DEF Sound
    <3>3. ReadersKnow'
      BY <1>0, <2>1, <2>2, <2>4, <3>1 DEF ReadersKnow
    <3> QED
      BY <3>2, <3>3 DEF RankInv
  <2> QED
    BY <2>1, <2>3, <2>4
<1>7. CASE UseByHand
  <2>1. /\ UNCHANGED <<phase, unread, seen>>
        /\ overtaken' = overtaken \cup InFlight
    BY <1>7 DEF UseByHand
  <2>2. Sound' = {} /\ Pending' = Pending /\ Reading' = Reading
    BY <2>1 DEF Sound, InFlight, Pending, Reading
  <2> QED
    BY <1>0, <2>1, <2>2 DEF RankInv, SoundSelected, ReadersKnow
<1>8. CASE Tick
  <2>1. SoundSelected'
    BY <1>0, <1>8, TickKeepsRank
  <2>2. UNCHANGED <<phase, unread, seen, overtaken>>
    BY <1>8 DEF Tick
  <2>3. ReadersKnow'
    BY <1>0, <2>2 DEF ReadersKnow, Pending, Reading
  <2> QED
    BY <2>1, <2>3 DEF RankInv
<1>9. CASE UNCHANGED vars
  <2>1. Pending' = Pending /\ Sound' = Sound /\ Reading' = Reading
        /\ UNCHANGED <<recent, unread, seen, overtaken>>
    BY <1>9 DEF vars, Pending, Sound, InFlight, Reading
  <2>2. SoundSelected'
    BY <1>0, <2>1, SelectedKept
  <2> QED
    BY <1>0, <2>1, <2>2 DEF RankInv, ReadersKnow
<1> QED
  BY <1>1, <1>2, <1>3, <1>4, <1>5, <1>6, <1>7, <1>8, <1>9 DEF Next

\* All admitted runs that select by rank and were not overtaken find room for
\* their sessions together, for any policy and any number of projects.
THEOREM RankMakesRoom == Spec => []AdmittedFindRoom
<1>1. Init => RankInv
  BY DEF Init, RankInv, SoundSelected, ReadersKnow, Sound, InFlight, Reading
<1>2. TypeOK /\ RankInv => AdmittedFindRoom
  BY SoundFits DEF RankInv
<1> QED
  BY <1>1, <1>2, RankNext, TypeCorrect, PTL DEF Spec

-----------------------------------------------------------------------------
\* The provider cycle and the resume watch.

USE CycleConstants DEF CycleAssumption

\* What the fields of a run say of each other.
RunShape ==
    /\ At("idle") <=> run.kind = "none"
    /\ run.kind # "resume" => ~run.retrying /\ run.attempt = 0
    /\ ~At("idle") /\ run.pc \notin {"write", "status"} => run.catch = "fail"
    /\ At("floor") => run.kind = "resume"
    /\ At("write") => IF run.catch = "idle" THEN run.next = "idle"
                      ELSE run.next \in {"begin", IF run.kind = "resume" THEN "floor" ELSE "idle"}
    /\ At("write") /\ run.next = "begin" => run.cp.state = "RUNNING" /\ run.st = "NONE"
    /\ At("status") => /\ run.st # "NONE"
                       /\ run.next = IF run.kind = "resume" /\ run.catch = "fail"
                                        THEN "floor" ELSE "idle"
                       /\ run.kind = "resume" => run.catch = "fail"
    /\ At("write") /\ run.catch = "idle" /\ (run.kind = "resume" \/ run.cp.state = "FAILED") =>
           run.cp.session = 0 /\ run.st = "NONE"

\* A checkpoint names a session that there is.
NamesSession(cp) ==
    cp.session <= Len(sessions) /\ (cp.state = "RUNNING" => cp.session # 0)

SessionsExist ==
    /\ Len(sessions) <= MaxSession
    /\ run.pc \in {"begin", "monitor"} \/ (At("write") /\ run.next = "begin") =>
           run.session \in DOMAIN sessions
    /\ NamesSession(checkpoint) /\ NamesSession(run.cp)

\* The lease of a dispatched run outlasts it, unless it failed to take it.
LeaseHolds ==
    run.kind = "cycle" /\ ( \/ run.pc \in {"create", "begin", "monitor", "status"}
                            \/ At("write") /\ (run.catch = "fail" \/ run.cp.state # "FAILED") )
        => run.left < leaseLeft

\* The checkpoint lets the resume watch create a session.
Resumable(cp) == Retryable(cp) \/ Rerouted(cp)

\* Some run may still create a session, with no fault, crash or overtaking.
MayCreate ==
    \/ At("idle") /\ current /\ (Resumable(checkpoint) \/ ("cycle" \in pending /\ leaseLeft = 0))
    \/ At("claim") /\ (leaseLeft = 0 \/ (current /\ Resumable(checkpoint)))
    \/ At("create")
    \/ At("fail") /\ current
    \/ At("write") /\ current /\ (run.catch = "idle" \/ Resumable(run.cp))
    \/ At("status") /\ current /\ (run.catch = "idle" \/ Resumable(checkpoint))
    \/ At("floor") /\ current /\ Resumable(checkpoint)

\* A dispatched run waits behind a resume run; it will create one as well.
Overtakes == run.kind = "resume" /\ "cycle" \in pending

Count(b) == IF b THEN 1 ELSE 0

\* What the sessions beyond the first answer for.
Bounds == faults + crashes + overtakings

Accounted == Len(sessions) + Count(MayCreate) + Count(Overtakes) <= 1 + Bounds

\* How far the retries that the checkpoint counts have come.
ToRetry(cp) == cp.state = "FAILED" /\ cp.kind = "PROVIDER_ERROR" /\ cp.session = 0

RetryLevel ==
    IF run.kind = "cycle" \/ (At("idle") /\ current /\ "cycle" \in pending) THEN 0
    ELSE IF run.retrying
    THEN IF run.pc \in {"claim", "create"} THEN run.attempt - 1 ELSE run.attempt
    ELSE IF At("idle") /\ ToRetry(checkpoint) THEN checkpoint.attempt
    ELSE MaxRetries

RetryBalance ==
    retries + (IF Overtakes THEN MaxRetries ELSE 0)
        <= MaxRetries * overtakings + crashes + RetryLevel

\* What the checkpoint says of the attempt of a retry.
RetryRecorded ==
    /\ run.retrying => /\ run.attempt > 0
                       /\ ToRetry(checkpoint) => run.attempt <= checkpoint.attempt + 1
    /\ run.retrying /\ run.pc \in {"claim", "create"} =>
           ToRetry(checkpoint) /\ run.attempt = checkpoint.attempt + 1
    /\ run.kind = "resume" /\ ~run.retrying => ~ToRetry(checkpoint)
    /\ At("write") /\ run.kind = "resume" /\ ToRetry(run.cp) =>
           run.retrying /\ run.cp.attempt = run.attempt

RetriesCounted == RetryBalance /\ RetryRecorded

\* Each overtaking is that of a repetition.
Waits == "cycle" \in pending /\ (run.kind = "cycle" \/ (At("idle") /\ "resume" \in pending))

Explained ==
    /\ overtakings + Count(Waits) <= duplicates
    /\ Overtakes => "resume" \notin pending /\ overtakings > 0

\* The status that goes with a checkpoint.
StatusOf(cp) ==
    CASE cp.state = "NONE" -> "READY"
      [] cp.state \in {"RUNNING", "COMPLETED"} -> "RUNNING"
      [] cp.state = "REPLAN" -> "BLOCKED"
      [] OTHER -> cp.state

\* What a run has still to write makes status and checkpoint agree.
StatusAgrees ==
    current /\ faults = 0 /\ crashes = 0 =>
        /\ run.pc \in {"idle", "claim", "create", "floor"} => status = StatusOf(checkpoint)
        /\ At("monitor") => status = "RUNNING"
        /\ At("write") /\ run.next # "begin" =>
               (IF run.st = "NONE" THEN status ELSE run.st) = StatusOf(run.cp)
        /\ At("status") => run.st = StatusOf(checkpoint)
        /\ ~At("fail")

\* A checkpoint from which a session may be created.
Blank(cp) == cp.session = 0 /\ cp.state \notin StopState

\* What a run may rely on while the runs are undisturbed.
LatestKept ==
    /\ checkpoint.session \in {0} \cup Reusable
    /\ At("write") => run.cp.session \in {0} \cup Reusable
    /\ run.pc \in {"begin", "monitor"} \/ (At("write") /\ run.next = "begin") =>
           run.session \in Reusable

BlankFirst ==
    /\ At("create") => Blank(checkpoint)
    /\ At("claim") /\ (run.kind = "resume" \/ leaseLeft = 0) => Blank(checkpoint)
    /\ At("idle") /\ current /\ "cycle" \in pending /\ leaseLeft = 0 => Blank(checkpoint)

StopKept ==
    run.pc \in {"begin", "monitor"} \/ (At("write") /\ run.cp.state # "FAILED") =>
        checkpoint.state \notin StopState

\* A repetition that failed to take its lease was repeated itself.
RepeatedTwice ==
    /\ At("idle") /\ current /\ "cycle" \in pending /\ ~Blank(checkpoint) => duplicates >= 1
    /\ run.kind = "cycle" /\ (At("claim") \/ leaseLeft <= run.left) /\ ~Blank(checkpoint) =>
           duplicates >= 1 + Count("cycle" \in pending)

InOrder == Undisturbed => LatestKept /\ BlankFirst /\ StopKept /\ RepeatedTwice

\* The inductive invariant.
CycleInv ==
    /\ CycleTypeOK /\ RunShape /\ SessionsExist /\ LeaseHolds /\ Accounted
    /\ RetriesCounted /\ Explained /\ StatusAgrees /\ InOrder

\* The checkpoints that are written have the type.
LEMMA CheckpointTyped ==
    ASSUME NEW st \in {"NONE", "RUNNING", "PAUSED_QUOTA", "FAILED"} \cup StopState,
           NEW s \in 0 .. MaxSession,
           NEW kind \in {"NONE", "PROVIDER_ERROR", "PROVIDER_QUOTA", "HUMAN_INPUT",
                         "CYCLE_FAILED", "CYCLE_TIMEOUT"},
           NEW a \in 0 .. MaxRetries
    PROVE  /\ Checkpoint(st, s, kind) \in CheckpointType
           /\ [Checkpoint(st, s, kind) EXCEPT !.attempt = a] \in CheckpointType
<1>1. 0 \in 0 .. MaxRetries OBVIOUS
<1>2. QED BY <1>1 DEF Checkpoint, CheckpointType

\* What a run does with its own record keeps the record's type,
LEMMA RunTyped ==
    ASSUME run \in RunType,
           NEW pc \in {"idle", "claim", "create", "begin", "monitor", "write", "status",
                       "floor", "fail"},
           NEW cp \in CheckpointType, NEW st \in ProjectStatus \cup {"NONE"},
           NEW next \in {"idle", "begin", "floor"}
    PROVE  /\ IdleRun \in RunType
           /\ EndRun => run' \in RunType
           /\ GoTo(pc) => run' \in RunType
           /\ GoOn(pc) => run' \in RunType
           /\ Persist(cp, st, next) => run' \in RunType
           /\ PersistLast(cp, st) => run' \in RunType
<1>1. NoCheckpoint \in CheckpointType
  BY DEF NoCheckpoint, Checkpoint, CheckpointType
<1>2. IdleRun \in RunType
  BY <1>1 DEF IdleRun, RunType
<1>3. GoTo(pc) => run' \in RunType
  BY <1>2 DEF GoTo, EndRun, RunType
<1>4. GoOn(pc) => run' \in RunType
  BY <1>1, <1>2 DEF GoOn, EndRun, RunType
<1>5. Persist(cp, st, next) => run' \in RunType
  BY DEF Persist, PersistIn, RunType
<1>6. PersistLast(cp, st) => run' \in RunType
  BY DEF PersistLast, PersistIn, RunType
<1>7. QED
  BY <1>2, <1>3, <1>4, <1>5, <1>6 DEF EndRun

\* and so does every step: run stays a record of RunType.
LEMMA StepRunTyped ==
    ASSUME CycleTypeOK, RunShape, SessionsExist, [CycleNext]_cycleVars
    PROVE  run' \in RunType
<1>0. /\ run \in RunType /\ checkpoint \in CheckpointType /\ run.pc # "NONE"
      /\ run.pc \in {"idle", "claim", "create", "begin", "monitor", "write", "status",
            "floor", "fail"}
      /\ run.kind \in {"none", "cycle", "resume"} /\ run.attempt \in 0 .. MaxRetries
      /\ run.retrying \in BOOLEAN /\ run.session \in 0 .. MaxSession /\ run.left \in 0 .. JobTime
      /\ run.cp \in CheckpointType /\ run.st \in ProjectStatus \cup {"NONE"}
      /\ run.next \in {"idle", "begin", "floor"} /\ run.catch \in {"idle", "fail"}
      /\ checkpoint.session \in 0 .. MaxSession /\ checkpoint.attempt \in 0 .. MaxRetries
      /\ Len(sessions) \in 0 .. MaxSession /\ DOMAIN sessions = 1 .. Len(sessions)
  BY DEF CycleTypeOK, RunType, CheckpointType, SessionsExist
<1>00. 0 \in 0 .. MaxSession /\ 0 \in 0 .. MaxRetries
  OBVIOUS
<1>1. CASE StartCycle
  <2>1. IdleRun \in RunType /\ JobTime \in 0 .. JobTime BY <1>0, RunTyped
  <2>2. QED BY <1>1, <2>1 DEF StartCycle, RunType
<1>2. CASE StartResume
  <2>1. IdleRun \in RunType /\ JobTime \in 0 .. JobTime BY <1>0, RunTyped
  <2>2. PICK pc \in {"begin", "claim"}, a \in 0 .. MaxRetries, b \in BOOLEAN,
           s \in 0 .. MaxSession :
            ResumeRun(pc, a, b, s)
    <3>1. CASE Monitored(checkpoint) /\ ResumeRun("begin", checkpoint.attempt, FALSE,
             checkpoint.session)
      BY <1>0, <3>1
    <3>2. CASE Retryable(checkpoint) /\ ResumeRun("claim", checkpoint.attempt + 1, TRUE, 0)
      <4>1. checkpoint.attempt + 1 \in 0 .. MaxRetries /\ 0 \in 0 .. MaxSession
        BY <1>0, <3>2 DEF Retryable
      <4>2. QED BY <3>2, <4>1
    <3>3. CASE Rerouted(checkpoint) /\ ResumeRun("claim", checkpoint.attempt, FALSE, 0)
      <4>1. 0 \in 0 .. MaxSession OBVIOUS
      <4>2. QED BY <1>0, <3>3, <4>1
    <3>4. QED BY <1>2, <3>1, <3>2, <3>3 DEF StartResume
  <2>3. QED BY <2>1, <2>2 DEF ResumeRun, RunType
<1>3. CASE TimePasses
  <2>1. CASE At("idle") BY <1>0, <1>3, <2>1 DEF TimePasses
  <2>2. CASE ~At("idle")
    <3>1. run.left - 1 \in 0 .. JobTime /\ run' = [run EXCEPT !.left = run.left - 1]
      BY <1>0, <1>3, <2>2 DEF TimePasses
    <3>2. QED BY <1>0, <3>1 DEF RunType
  <2>3. QED BY <2>1, <2>2
<1>4. CASE Claim
  <2>1. IdleRun \in RunType BY <1>0, RunTyped
  <2>2. QED BY <1>0, <1>4, <2>1 DEF Claim, EndRun, RunType
<1>5. CASE CreatePaused
  <2>1. Checkpoint("PAUSED_QUOTA", 0, "PROVIDER_QUOTA") \in CheckpointType
    BY <1>00 DEF Checkpoint, CheckpointType
  <2>2. QED BY <1>0, <1>5, <2>1, RunTyped DEF CreatePaused, Returned, ProjectStatus
<1>6. CASE CreateSession
  <2>1. PICK s \in Reusable \cup {Len(sessions) + 1} :
            /\ IF s \in Reusable THEN UNCHANGED sessions ELSE NewSession
            /\ run' = [run EXCEPT !.pc = "write", !.session = s,
                  !.cp = Checkpoint("RUNNING", s, "NONE"),
                               !.st = "NONE", !.next = "begin"]
    BY <1>6 DEF CreateSession
  <2>2. s \in 0 .. MaxSession
    BY <1>0, <2>1 DEF NewSession, Reusable
  <2>3. Checkpoint("RUNNING", s, "NONE") \in CheckpointType
    BY <1>00, <2>2 DEF Checkpoint, CheckpointType
  <2>4. QED BY <1>0, <2>1, <2>2, <2>3 DEF RunType
<1>7. CASE CreateFails
  BY <1>0, <1>7, RunTyped DEF CreateFails, Fault, CountRetry, NewSession, At, ProjectStatus
<1>8. CASE CreateUnauthorized
  <2>1. Checkpoint("HUMAN_WAIT", 0, "HUMAN_INPUT") \in CheckpointType
    BY <1>00 DEF Checkpoint, CheckpointType, StopState
  <2>2. QED BY <1>0, <1>8, <2>1, RunTyped DEF CreateUnauthorized, ProjectStatus
<1>9. CASE BeginMonitor
  BY <1>0, <1>9, RunTyped DEF BeginMonitor, At, ProjectStatus
<1>10. CASE Poll
  <2>1. PICK o \in Outcome(sessions[run.session] = "active") :
            Persist(Checkpoint(o[1], run.session, o[2]), o[3], Returned)
    BY <1>10 DEF Poll
  <2>2. o[3] \in ProjectStatus \cup {"NONE"} /\ Returned \in {"idle", "begin", "floor"}
    BY DEF Outcome, ProjectStatus, Returned
  <2>3. Checkpoint(o[1], run.session, o[2]) \in CheckpointType
    BY <1>0, <1>00 DEF Outcome, Checkpoint, CheckpointType, StopState
  <2>4. QED BY <1>0, <2>1, <2>2, <2>3, RunTyped
<1>11. CASE PollPaused
  BY <1>0, <1>11, RunTyped, CheckpointTyped DEF PollPaused, Returned, At, ProjectStatus, StopState
<1>12. CASE PollUnauthorized
  BY <1>0, <1>12, RunTyped, CheckpointTyped DEF PollUnauthorized, Fault, Returned, At,
     ProjectStatus, StopState
<1>13. CASE PollFails
  BY <1>0, <1>13, RunTyped DEF PollFails, Fault, At, ProjectStatus
<1>14. CASE WriteCheckpoint
  BY <1>0, <1>14, RunTyped DEF WriteCheckpoint, At, ProjectStatus
<1>15. CASE SetStatus
  BY <1>0, <1>15, RunTyped DEF SetStatus, At, ProjectStatus
<1>16. CASE Fail
  BY <1>0, <1>16, RunTyped, CheckpointTyped DEF Fail, At, ProjectStatus, StopState
<1>17. CASE PreserveFloor
  BY <1>0, <1>17, RunTyped DEF PreserveFloor, At, ProjectStatus
<1>18. CASE RequestFails
  BY <1>0, <1>18, RunTyped DEF RequestFails, Fault, LeaseTime, At, ProjectStatus
<1>19. CASE Crash
  BY <1>0, <1>19, RunTyped DEF Crash, At, ProjectStatus
<1>20. CASE UNCHANGED run
  BY <1>0, <1>20
<1>21. QED
  BY <1>1, <1>2, <1>3, <1>4, <1>5, <1>6, <1>7, <1>8, <1>9, <1>10, <1>11, <1>12, <1>13,
     <1>14, <1>15, <1>16, <1>17, <1>18, <1>19, <1>20 DEF CycleNext, RunStep, cycleVars,
        CronArrives, DuplicateArrives, SkipResume,
     SessionEnds, MoveOn

\* The parts of a run's record that most steps keep.
Kept == /\ run'.kind = run.kind /\ run'.attempt = run.attempt /\ run'.retrying = run.retrying
        /\ run'.left = run.left

\* What a run's record holds after each way to change it, field by field:
\* the run is over,
LEMMA Ended ==
    ASSUME EndRun \/ GoTo("idle") \/ GoOn("idle")
    PROVE  /\ run'.pc = "idle" /\ run'.kind = "none" /\ run'.attempt = 0 /\ run'.retrying = FALSE
           /\ run'.session = 0 /\ run'.left = 0 /\ run'.cp = NoCheckpoint /\ run'.st = "NONE"
           /\ run'.next = "idle" /\ run'.catch = "idle"
BY DEF EndRun, IdleRun, GoTo, GoOn

\* it goes on at pc,
LEMMA WentOn ==
    ASSUME run \in RunType, NEW pc, pc # "idle", GoTo(pc) \/ GoOn(pc)
    PROVE  /\ Kept /\ run'.pc = pc /\ run'.session = run.session
           /\ run'.st = run.st /\ run'.next = run.next /\ run'.catch = run.catch
           /\ run'.cp \in {run.cp, NoCheckpoint}
BY DEF GoTo, GoOn, RunType, Kept

\* it begins to write a checkpoint,
LEMMA Persisted ==
    ASSUME run \in RunType, NEW cp, NEW st, NEW next, Persist(cp, st, next)
    PROVE  /\ Kept /\ run'.pc = "write" /\ run'.session = run.session
           /\ run'.cp = cp /\ run'.st = st /\ run'.next = next /\ run'.catch = run.catch
BY DEF Persist, PersistIn, RunType, Kept

\* it does so from an except clause of main,
LEMMA PersistedLast ==
    ASSUME run \in RunType, NEW cp, NEW st, PersistLast(cp, st)
    PROVE  /\ Kept /\ run'.pc = "write" /\ run'.session = run.session
           /\ run'.cp = cp /\ run'.st = st /\ run'.next = "idle" /\ run'.catch = "idle"
<1> DEFINE r == [run EXCEPT !.catch = "idle"]
<1>1. /\ r.kind = run.kind /\ r.attempt = run.attempt /\ r.retrying = run.retrying
      /\ r.session = run.session /\ r.left = run.left /\ r.catch = "idle" /\ r \in RunType
  BY DEF RunType
<1>2. run' = [r EXCEPT !.pc = "write", !.cp = cp, !.st = st, !.next = "idle"]
  BY DEF PersistLast, PersistIn
<1> HIDE DEF r
<1>3. QED BY <1>1, <1>2 DEF RunType, Kept

\* or a resume run begins.
LEMMA Resumed ==
    ASSUME NEW pc, NEW a, NEW b, NEW s, ResumeRun(pc, a, b, s)
    PROVE  /\ run'.pc = pc /\ run'.kind = "resume" /\ run'.attempt = a /\ run'.retrying = b
           /\ run'.session = s /\ run'.left = JobTime /\ run'.cp = NoCheckpoint /\ run'.st = "NONE"
           /\ run'.next = "idle" /\ run'.catch = "fail"
BY DEF ResumeRun, IdleRun

\* A resume run begins with one of three errands.
LEMMA Resumes ==
    ASSUME StartResume
    PROVE  /\ run.pc = "idle" /\ "resume" \in pending /\ current
           /\ pending' = pending \ {"resume"}
           /\ overtakings' = overtakings + Cardinality(pending \ {"resume"})
           /\ UNCHANGED <<checkpoint, leaseLeft, status, current, sessions, duplicates,
                          faults, crashes, retries>>
           /\ run'.kind = "resume" /\ run'.catch = "fail" /\ run'.cp = NoCheckpoint
           /\ run'.left = JobTime
           /\ \/ /\ Monitored(checkpoint) /\ run'.pc = "begin" /\ run'.retrying = FALSE
                 /\ run'.session = checkpoint.session /\ run'.attempt = checkpoint.attempt
              \/ /\ Retryable(checkpoint) /\ run'.pc = "claim" /\ run'.retrying = TRUE
                 /\ run'.session = 0 /\ run'.attempt = checkpoint.attempt + 1
              \/ /\ Rerouted(checkpoint) /\ run'.pc = "claim" /\ run'.retrying = FALSE
                 /\ run'.session = 0 /\ run'.attempt = checkpoint.attempt
<1>1. PICK pc, a, b, s :
          /\ ResumeRun(pc, a, b, s)
          /\ \/ Monitored(checkpoint) /\ pc = "begin" /\ a = checkpoint.attempt /\ b = FALSE
                /\ s = checkpoint.session
             \/ Retryable(checkpoint) /\ pc = "claim" /\ a = checkpoint.attempt + 1 /\ b = TRUE
                /\ s = 0
             \/ Rerouted(checkpoint) /\ pc = "claim" /\ a = checkpoint.attempt /\ b = FALSE
                /\ s = 0
  BY Zenon DEF StartResume
<1>2. QED
  BY <1>1, Resumed DEF StartResume, At

\* A run that creates a session checkpoints it, an old one or a new one.
LEMMA Creates ==
    ASSUME run \in RunType, CreateSession
    PROVE  /\ run.pc = "create" /\ CountRetry
           /\ UNCHANGED <<checkpoint, leaseLeft, status, current, pending, overtakings,
                          duplicates, faults, crashes>>
           /\ Kept /\ run'.pc = "write" /\ run'.st = "NONE"
           /\ run'.next = "begin" /\ run'.catch = run.catch
           /\ run'.cp = Checkpoint("RUNNING", run'.session, "NONE")
           /\ \/ run'.session \in Reusable /\ UNCHANGED sessions
              \/ run'.session = Len(sessions) + 1 /\ NewSession
<1>1. PICK s \in Reusable \cup {Len(sessions) + 1} :
          /\ IF s \in Reusable THEN UNCHANGED sessions ELSE NewSession
          /\ run' = [run EXCEPT !.pc = "write", !.session = s,
                                !.cp = Checkpoint("RUNNING", s, "NONE"), !.st = "NONE",
                                !.next = "begin"]
  BY DEF CreateSession
<1>2. /\ run'.pc = "write" /\ run'.session = s /\ run'.cp = Checkpoint("RUNNING", s, "NONE")
      /\ run'.st = "NONE" /\ run'.next = "begin" /\ run'.catch = run.catch /\ Kept
  BY <1>1 DEF RunType, Kept
<1>3. QED
  BY <1>1, <1>2 DEF CreateSession, At

\* A run has nothing to write at first.
LEMMA NoneNamed ==
    /\ NoCheckpoint.state = "NONE" /\ NoCheckpoint.session = 0
    /\ NoCheckpoint.kind = "NONE" /\ NoCheckpoint.attempt = 0
BY DEF NoCheckpoint, Checkpoint

\* What the types say of the fields that the proofs compute with.
Fields ==
    /\ run \in RunType /\ run' \in RunType /\ checkpoint \in CheckpointType
    /\ run.cp \in CheckpointType /\ run.retrying \in BOOLEAN
    /\ run.catch \in {"idle", "fail"} /\ run.kind \in {"none", "cycle", "resume"}
    /\ run.session \in Nat /\ run.attempt \in Nat /\ run.left \in Nat
    /\ run.cp.session \in Nat /\ run.cp.attempt \in Nat
    /\ checkpoint.session \in Nat /\ checkpoint.attempt \in Nat
    /\ leaseLeft \in Nat /\ Len(sessions) \in Nat /\ DOMAIN sessions = 1 .. Len(sessions)

\* They follow from the invariant.
LEMMA FieldsTyped ==
    ASSUME CycleTypeOK, RunShape, SessionsExist, [CycleNext]_cycleVars
    PROVE  Fields
<1>1. run' \in RunType
  BY StepRunTyped
<1>2. run \in RunType /\ checkpoint \in CheckpointType /\ sessions \in Seq({"active", "stopped"})
      /\ leaseLeft \in Nat
  BY DEF CycleTypeOK
<1>3. /\ run.cp \in CheckpointType /\ run.retrying \in BOOLEAN /\ run.session \in Nat
      /\ run.attempt \in Nat /\ run.left \in Nat /\ run.catch \in {"idle", "fail"}
      /\ run.kind \in {"none", "cycle", "resume"}
  BY <1>2 DEF RunType
<1>4. /\ run.cp.session \in Nat /\ run.cp.attempt \in Nat
      /\ checkpoint.session \in Nat /\ checkpoint.attempt \in Nat
  BY <1>2, <1>3 DEF CheckpointType
<1>5. Len(sessions) \in Nat /\ DOMAIN sessions = 1 .. Len(sessions)
  BY <1>2
<1>6. QED
  BY <1>1, <1>2, <1>3, <1>4, <1>5 DEF Fields

-----------------------------------------------------------------------------
\* The effects of the steps, field by field: what the proofs below need to
\* know of the actions, and no more.

NothingToWrite ==
    run'.cp.state = "NONE" /\ run'.cp.session = 0 /\ run'.cp.kind = "NONE" /\ run'.cp.attempt = 0

\* The run is over.
Over ==
    /\ run'.pc = "idle" /\ run'.kind = "none" /\ run'.attempt = 0 /\ run'.retrying = FALSE
    /\ run'.session = 0 /\ run'.left = 0 /\ run'.st = "NONE"
    /\ run'.next = "idle" /\ run'.catch = "idle" /\ NothingToWrite

\* It goes on at pc, and may forget what it had to write.
Became(pc) ==
    /\ Kept /\ run'.pc = pc /\ run'.session = run.session /\ run'.st = run.st
    /\ run'.next = run.next /\ run'.catch = run.catch
    /\ NothingToWrite \/ run'.cp = run.cp

\* It begins to write a checkpoint.
Writing(state, s, st, next, catch) ==
    /\ Kept /\ run'.pc = "write" /\ run'.st = st /\ run'.next = next /\ run'.catch = catch
    /\ run'.session = run.session
    /\ run'.cp.state = state /\ run'.cp.session = s

\* A run begins.
Started(pc, kind) ==
    /\ run.pc = "idle" /\ current /\ run'.pc = pc /\ run'.kind = kind /\ run'.catch = "fail"
    /\ run'.left = JobTime /\ NothingToWrite
    /\ UNCHANGED <<checkpoint, leaseLeft, status, current, sessions, duplicates, faults,
                   crashes, retries>>

Files == <<checkpoint, leaseLeft, status, current, sessions, pending>>

BeginsCycle ==
    /\ Started("claim", "cycle") /\ "cycle" \in pending /\ pending' = pending \ {"cycle"}
    /\ run'.retrying = FALSE /\ run'.attempt = 0 /\ overtakings' = overtakings

ResumeBegins(pc) ==
    /\ Started(pc, "resume") /\ "resume" \in pending /\ pending' = pending \ {"resume"}
    /\ overtakings' = overtakings + Count("cycle" \in pending)

Remonitors ==
    /\ ResumeBegins("begin") /\ Monitored(checkpoint)
    /\ run'.session = checkpoint.session /\ run'.retrying = FALSE

Retries ==
    /\ ResumeBegins("claim") /\ Retryable(checkpoint)
    /\ run'.retrying = TRUE /\ run'.attempt = checkpoint.attempt + 1

Reroutes ==
    /\ ResumeBegins("claim") /\ Rerouted(checkpoint) /\ run'.retrying = FALSE

\* Time passes between runs, and in one.
TimeOut ==
    /\ run.pc = "idle" /\ ("cycle" \in pending => ~current) /\ run' = run
    /\ leaseLeft' = IF leaseLeft > 0 THEN leaseLeft - 1 ELSE 0
    /\ UNCHANGED <<checkpoint, status, current, sessions, pending, counters>>

TimeIn ==
    /\ run.pc \notin {"idle", "claim"} /\ run.left > 0 /\ run'.left = run.left - 1
    /\ run'.pc = run.pc /\ run'.kind = run.kind /\ run'.attempt = run.attempt
    /\ run'.retrying = run.retrying /\ run'.session = run.session /\ run'.cp = run.cp
    /\ run'.st = run.st /\ run'.next = run.next /\ run'.catch = run.catch
    /\ leaseLeft' = IF leaseLeft > 0 THEN leaseLeft - 1 ELSE 0
    /\ UNCHANGED <<checkpoint, status, current, sessions, pending, counters>>

\* A run finds the lease taken, or takes it.
Yields == run.pc = "claim" /\ leaseLeft > 0 /\ Over /\ UNCHANGED <<Files, counters>>

Takes ==
    /\ run.pc = "claim" /\ leaseLeft = 0 /\ leaseLeft' = TTL /\ Became("create")
    /\ UNCHANGED <<checkpoint, status, current, sessions, pending, counters>>

Pauses ==
    /\ run.pc = "create" /\ Writing("PAUSED_QUOTA", 0, "PAUSED_QUOTA", Returned, run.catch)
    /\ UNCHANGED <<Files, counters>>

NewRetry == retries' = retries + Count(run.retrying)

\* A session is created.
Grown == /\ Len(sessions') = Len(sessions) + 1 /\ Len(sessions') <= MaxSession
         /\ sessions' = Append(sessions, "active")

CreatesWith(s) ==
    /\ run.pc = "create" /\ Kept /\ run'.pc = "write" /\ run'.session = s /\ run'.st = "NONE"
    /\ run'.next = "begin" /\ run'.catch = run.catch
    /\ run'.cp.state = "RUNNING" /\ run'.cp.session = s
    /\ NewRetry
    /\ UNCHANGED <<checkpoint, leaseLeft, status, current, pending, overtakings, duplicates,
                   faults, crashes>>

Reuses == CreatesWith(run'.session) /\ run'.session \in Reusable /\ UNCHANGED sessions

CreatesNew == CreatesWith(Len(sessions) + 1) /\ Grown

CreationFails ==
    /\ run.pc = "create" /\ Became("fail") /\ NewRetry /\ (Grown \/ UNCHANGED sessions)
    /\ faults < MaxFault /\ faults' = faults + 1
    /\ UNCHANGED <<checkpoint, leaseLeft, status, current, pending, overtakings, duplicates,
                   crashes>>

Faulted ==
    /\ faults < MaxFault /\ faults' = faults + 1
    /\ UNCHANGED <<checkpoint, leaseLeft, status, current, sessions, pending, overtakings,
                   duplicates, crashes, retries>>

CycleRefused ==
    /\ run.pc = "create" /\ run.kind = "cycle"
    /\ Writing("HUMAN_WAIT", 0, "HUMAN_WAIT", "idle", "idle") /\ Faulted

ResumeRefused == run.pc = "create" /\ run.kind # "cycle" /\ Over /\ Faulted

\* monitor_existing, and what a poll makes of the session.
MonitorBegins ==
    /\ run.pc = "begin" /\ current /\ status' = "RUNNING" /\ Became("monitor")
    /\ UNCHANGED <<checkpoint, leaseLeft, current, sessions, pending, counters>>

MonitorTooLate ==
    /\ run.pc = "begin" /\ ~current /\ Became("fail") /\ UNCHANGED <<Files, counters>>

Polled(state, st) ==
    /\ run.pc = "monitor" /\ Writing(state, run.session, st, Returned, run.catch)
    /\ UNCHANGED faults \/ (faults < MaxFault /\ faults' = faults + 1)
    /\ UNCHANGED <<Files, overtakings, duplicates, crashes, retries>>

Polls ==
    \/ Polled("RUNNING", "NONE") \/ Polled("COMPLETED", "NONE") \/ Polled("FAILED", "FAILED")
    \/ Polled("HUMAN_WAIT", "HUMAN_WAIT") \/ Polled("REPLAN", "BLOCKED")
    \/ Polled("PAUSED_QUOTA", "PAUSED_QUOTA")

MonitorFails == run.pc = "monitor" /\ Became("fail") /\ Faulted

\* The checkpoint is written, then the status.
Wrote ==
    /\ run.pc = "write" /\ checkpoint' = run.cp
    /\ UNCHANGED <<leaseLeft, status, current, sessions, pending, counters>>

WroteFirst == Wrote /\ run.st # "NONE" /\ Became("status")
WroteLast == Wrote /\ run.st = "NONE" /\ run.next = "idle" /\ Over
WroteOn == Wrote /\ run.st = "NONE" /\ run.next # "idle" /\ Became(run.next)

StatusSet ==
    /\ run.pc = "status" /\ current /\ status' = run.st
    /\ UNCHANGED <<checkpoint, leaseLeft, current, sessions, pending, counters>>

StatusSetOn == StatusSet /\ run.next # "idle" /\ Became(run.next)
StatusSetLast == StatusSet /\ run.next = "idle" /\ Over

StatusTooLate == run.pc = "status" /\ ~current /\ UNCHANGED <<Files, counters>>

StatusFails == StatusTooLate /\ run.catch = "fail" /\ Became("fail")
StatusEnds == StatusTooLate /\ run.catch = "idle" /\ Over

\* The except clause of main.
RecordsFailure ==
    /\ run.pc = "fail" /\ (run.kind = "cycle" \/ run.retrying)
    /\ Writing("FAILED", 0, "NONE", "idle", "idle")
    /\ run'.cp.kind = "PROVIDER_ERROR" /\ run'.cp.attempt = run.attempt
    /\ UNCHANGED <<Files, counters>>

GivesUp ==
    /\ run.pc = "fail" /\ run.kind # "cycle" /\ ~run.retrying /\ Over
    /\ UNCHANGED <<Files, counters>>

Floors ==
    /\ run.pc = "floor" /\ Over
    /\ checkpoint'.state = checkpoint.state /\ checkpoint'.session = checkpoint.session
    /\ checkpoint'.kind = checkpoint.kind
    /\ checkpoint'.attempt = IF checkpoint.attempt < run.attempt THEN run.attempt
                                                               ELSE checkpoint.attempt
    /\ checkpoint' \in CheckpointType
    /\ UNCHANGED <<leaseLeft, status, current, sessions, pending, counters>>

\* A failed request, a killed run, a session that stops.
CallFails ==
    /\ run.pc \in {"claim", "begin", "write", "status", "floor"} /\ run.catch = "fail"
    /\ Became("fail") /\ faults < MaxFault /\ faults' = faults + 1
    /\ UNCHANGED checkpoint \/ (run.pc = "write" /\ checkpoint' = run.cp)
    /\ UNCHANGED leaseLeft \/ (run.pc = "claim" /\ leaseLeft = 0 /\ leaseLeft' = TTL)
    /\ UNCHANGED status \/ (run.pc = "status" /\ status' = run.st)
    /\ UNCHANGED <<current, sessions, pending, overtakings, duplicates, crashes, retries>>

Killed ==
    /\ run.pc # "idle" /\ Over /\ crashes < MaxCrash /\ crashes' = crashes + 1
    /\ UNCHANGED <<Files, overtakings, duplicates, faults, retries>>

SessionStops ==
    /\ Len(sessions') = Len(sessions) /\ sessions' \in Seq({"active", "stopped"})
    /\ Reusable \subseteq Reusable'
    /\ UNCHANGED <<checkpoint, leaseLeft, status, current, pending, run, counters>>

\* Each step is one of these.
Effect ==
    \/ CronArrives \/ DuplicateArrives \/ SkipResume \/ MoveOn \/ SessionStops
    \/ BeginsCycle \/ Remonitors \/ Retries \/ Reroutes \/ TimeOut
    \/ TimeIn \/ Yields \/ Takes \/ Pauses \/ Reuses
    \/ CreatesNew \/ CreationFails \/ CycleRefused \/ ResumeRefused \/ MonitorBegins
    \/ MonitorTooLate \/ Polls \/ MonitorFails \/ WroteFirst \/ WroteLast
    \/ WroteOn \/ StatusSetOn \/ StatusSetLast \/ StatusFails \/ StatusEnds
    \/ RecordsFailure \/ GivesUp \/ Floors \/ CallFails \/ Killed
    \/ UNCHANGED cycleVars

\* At most one dispatched run is overtaken at a time.
LEMMA OneWaits ==
    ASSUME pending \subseteq {"cycle", "resume"}
    PROVE  Cardinality(pending \ {"resume"}) = Count("cycle" \in pending)
<1>1. CASE "cycle" \in pending
  <2>1. pending \ {"resume"} = {"cycle"} BY <1>1
  <2>2. QED BY <1>1, <2>1, FS_Singleton DEF Count
<1>2. CASE "cycle" \notin pending
  <2>1. pending \ {"resume"} = {} BY <1>2
  <2>2. QED BY <1>2, <2>1, FS_EmptySet DEF Count
<1>3. QED BY <1>1, <1>2

\* A new session is the last one,
LEMMA Grows ==
    ASSUME sessions \in Seq({"active", "stopped"}), NewSession
    PROVE  Grown
BY DEF NewSession, Grown

\* and one that stops makes no other one less reusable.
LEMMA Stops ==
    ASSUME sessions \in Seq({"active", "stopped"}), NEW s \in 1 .. Len(sessions), SessionEnds(s)
    PROVE  SessionStops
<1>1. /\ sessions' = [sessions EXCEPT ![s] = "stopped"]
      /\ UNCHANGED <<checkpoint, leaseLeft, status, current, pending, run, counters>>
  BY DEF SessionEnds
<1>2. /\ sessions' \in Seq({"active", "stopped"}) /\ Len(sessions') = Len(sessions)
      /\ DOMAIN sessions' = DOMAIN sessions
      /\ \A t \in DOMAIN sessions : sessions[t] = "stopped" => sessions'[t] = "stopped"
  BY <1>1
<1>3. Reusable \subseteq Reusable'
  BY <1>2 DEF Reusable
<1>4. QED
  BY <1>1, <1>2, <1>3 DEF SessionStops

\* Every step has one of these effects.
LEMMA Effects ==
    ASSUME CycleTypeOK, RunShape, SessionsExist, [CycleNext]_cycleVars
    PROVE  Effect
<1>0. Fields /\ run \in RunType /\ sessions \in Seq({"active", "stopped"})
      /\ pending \subseteq {"cycle", "resume"}
  BY FieldsTyped DEF CycleTypeOK
<1>1. CASE StartCycle
  <2>1. /\ run'.pc = "claim" /\ run'.kind = "cycle" /\ run'.catch = "fail" /\ run'.left = JobTime
        /\ run'.retrying = FALSE /\ run'.attempt = 0 /\ run'.cp = NoCheckpoint
    BY <1>1 DEF StartCycle, IdleRun
  <2>2. BeginsCycle
    BY <1>1, <2>1, NoneNamed DEF StartCycle, BeginsCycle, Started, NothingToWrite, At, counters
  <2>3. QED BY <2>2 DEF Effect
<1>2. CASE StartResume
  <2>1. /\ run.pc = "idle" /\ "resume" \in pending /\ current
        /\ pending' = pending \ {"resume"}
        /\ overtakings' = overtakings + Count("cycle" \in pending)
        /\ UNCHANGED <<checkpoint, leaseLeft, status, current, sessions, duplicates,
                       faults, crashes, retries>>
        /\ run'.kind = "resume" /\ run'.catch = "fail" /\ run'.cp = NoCheckpoint
        /\ run'.left = JobTime
    BY <1>0, <1>2, OneWaits, Resumes
  <2>2. \/ /\ Monitored(checkpoint) /\ run'.pc = "begin" /\ run'.retrying = FALSE
           /\ run'.session = checkpoint.session
        \/ /\ Retryable(checkpoint) /\ run'.pc = "claim" /\ run'.retrying = TRUE
           /\ run'.attempt = checkpoint.attempt + 1
        \/ /\ Rerouted(checkpoint) /\ run'.pc = "claim" /\ run'.retrying = FALSE
    BY <1>2, Resumes
  <2>3. run'.pc = "begin" => ResumeBegins("begin")
    BY <2>1, NoneNamed DEF ResumeBegins, Started, NothingToWrite
  <2>4. run'.pc = "claim" => ResumeBegins("claim")
    BY <2>1, NoneNamed DEF ResumeBegins, Started, NothingToWrite
  <2>5. Remonitors \/ Retries \/ Reroutes
    BY <2>2, <2>3, <2>4 DEF Remonitors, Retries, Reroutes
  <2>6. QED BY <2>5 DEF Effect
<1>3. CASE TimePasses
  <2>1. CASE At("idle")
    <3>1. TimeOut BY <1>3, <2>1 DEF TimePasses, TimeOut, At
    <3>2. QED BY <3>1 DEF Effect
  <2>2. CASE ~At("idle")
    <3>1. /\ run'.left = run.left - 1
          /\ run'.pc = run.pc /\ run'.kind = run.kind /\ run'.attempt = run.attempt
          /\ run'.retrying = run.retrying /\ run'.session = run.session /\ run'.cp = run.cp
          /\ run'.st = run.st /\ run'.next = run.next /\ run'.catch = run.catch
      BY <1>0, <1>3, <2>2 DEF TimePasses, RunType
    <3>2. TimeIn BY <1>3, <2>2, <3>1 DEF TimePasses, TimeIn, At
    <3>3. QED BY <3>2 DEF Effect
  <2>3. QED BY <2>1, <2>2
<1>4. CASE Claim
  <2>1. CASE leaseLeft > 0
    <3>1. Over BY <1>4, <2>1, Ended, NoneNamed DEF Claim, Over, NothingToWrite
    <3>2. Yields BY <1>4, <2>1, <3>1 DEF Claim, Yields, At, Files, counters
    <3>3. QED BY <3>2 DEF Effect
  <2>2. CASE ~(leaseLeft > 0)
    <3>1. GoTo("create") BY <1>4, <2>2 DEF Claim, GoTo
    <3>2. Became("create") BY <1>0, <3>1, WentOn, NoneNamed DEF Became, NothingToWrite
    <3>3. leaseLeft = 0 BY <1>0, <2>2 DEF Fields
    <3>4. Takes BY <1>4, <2>2, <3>2, <3>3 DEF Claim, Takes, LeaseTime, At, counters
    <3>5. QED BY <3>4 DEF Effect
  <2>3. QED BY <2>1, <2>2
<1>5. CASE CreatePaused
  <2>1. Writing("PAUSED_QUOTA", 0, "PAUSED_QUOTA", Returned, run.catch)
    <3>1. PICK cp : cp = Checkpoint("PAUSED_QUOTA", 0, "PROVIDER_QUOTA") OBVIOUS
    <3>2. cp.state = "PAUSED_QUOTA" /\ cp.session = 0 BY <3>1 DEF Checkpoint
    <3>3. Persist(cp, "PAUSED_QUOTA", Returned) BY <1>5, <3>1 DEF CreatePaused
    <3>4. QED BY <1>0, <3>2, <3>3, Persisted DEF Writing
  <2>2. Pauses BY <1>5, <2>1 DEF CreatePaused, Pauses, At, Files, counters
  <2>3. QED BY <2>2 DEF Effect
<1>6. CASE CreateSession
  <2>1. /\ run.pc = "create" /\ CountRetry
        /\ UNCHANGED <<checkpoint, leaseLeft, status, current, pending, overtakings,
                       duplicates, faults, crashes>>
        /\ Kept /\ run'.pc = "write" /\ run'.st = "NONE"
        /\ run'.next = "begin" /\ run'.catch = run.catch
        /\ run'.cp = Checkpoint("RUNNING", run'.session, "NONE")
    BY <1>0, <1>6, Creates
  <2>2. run'.cp.state = "RUNNING" /\ run'.cp.session = run'.session
    BY <2>1 DEF Checkpoint
  <2>3. CreatesWith(run'.session)
    BY <2>1, <2>2 DEF CreatesWith, CountRetry, NewRetry, Count
  <2>4. \/ run'.session \in Reusable /\ UNCHANGED sessions
        \/ run'.session = Len(sessions) + 1 /\ NewSession
    BY <1>0, <1>6, Creates
  <2>5. Reuses \/ CreatesNew
    BY <1>0, <2>3, <2>4, Grows DEF Reuses, CreatesNew
  <2>6. QED BY <2>5 DEF Effect
<1>7. CASE CreateFails
  <2>1. Became("fail") BY <1>0, <1>7, WentOn, NoneNamed DEF CreateFails, Became, NothingToWrite
  <2>2. Grown \/ UNCHANGED sessions BY <1>0, <1>7, Grows DEF CreateFails
  <2>3. CreationFails
    BY <1>7, <2>1, <2>2 DEF CreateFails, CreationFails, Fault, CountRetry, NewRetry, Count, At
  <2>4. QED BY <2>3 DEF Effect
<1>8. CASE CreateUnauthorized
  <2>1. Faulted BY <1>8 DEF CreateUnauthorized, Faulted, Fault
  <2>2. CASE run.kind = "cycle"
    <3>1. /\ Kept /\ run'.pc = "write" /\ run'.session = run.session
          /\ run'.cp = Checkpoint("HUMAN_WAIT", 0, "HUMAN_INPUT") /\ run'.st = "HUMAN_WAIT"
          /\ run'.next = "idle" /\ run'.catch = "idle"
      BY <1>0, <1>8, <2>2, PersistedLast DEF CreateUnauthorized
    <3>2. run'.cp.state = "HUMAN_WAIT" /\ run'.cp.session = 0 BY <3>1 DEF Checkpoint
    <3>3. CycleRefused
      BY <1>8, <2>1, <2>2, <3>1, <3>2 DEF CreateUnauthorized, CycleRefused, Writing, At
    <3>4. QED BY <3>3 DEF Effect
  <2>3. CASE run.kind # "cycle"
    <3>1. Over BY <1>8, <2>3, Ended, NoneNamed DEF CreateUnauthorized, Over, NothingToWrite
    <3>2. ResumeRefused BY <1>8, <2>1, <2>3, <3>1 DEF CreateUnauthorized, ResumeRefused, At
    <3>3. QED BY <3>2 DEF Effect
  <2>4. QED BY <2>2, <2>3
<1>9. CASE BeginMonitor
  <2>1. CASE current
    <3>1. Became("monitor")
      BY <1>0, <1>9, <2>1, WentOn, NoneNamed DEF BeginMonitor, Became, NothingToWrite
    <3>2. MonitorBegins BY <1>9, <2>1, <3>1 DEF BeginMonitor, MonitorBegins, At, counters
    <3>3. QED BY <3>2 DEF Effect
  <2>2. CASE ~current
    <3>1. Became("fail")
      BY <1>0, <1>9, <2>2, WentOn, NoneNamed DEF BeginMonitor, Became, NothingToWrite
    <3>2. MonitorTooLate
      BY <1>9, <2>2, <3>1 DEF BeginMonitor, MonitorTooLate, At, Files, counters
    <3>3. QED BY <3>2 DEF Effect
  <2>3. QED BY <2>1, <2>2
<1>10. CASE Poll
  <2>1. PICK o \in Outcome(sessions[run.session] = "active") :
            Persist(Checkpoint(o[1], run.session, o[2]), o[3], Returned)
    BY <1>10 DEF Poll
  <2>2. PICK cp : cp = Checkpoint(o[1], run.session, o[2]) OBVIOUS
  <2>3. cp.state = o[1] /\ cp.session = run.session BY <2>2 DEF Checkpoint
  <2>4. Writing(o[1], run.session, o[3], Returned, run.catch)
    BY <1>0, <2>1, <2>2, <2>3, Persisted DEF Writing
  <2>5. Polled(o[1], o[3]) BY <1>10, <2>4 DEF Poll, Polled, At, Files, counters
  <2>6. o \in {<<"RUNNING", "CYCLE_TIMEOUT", "NONE">>, <<"COMPLETED", "NONE", "NONE">>,
               <<"FAILED", "CYCLE_FAILED", "FAILED">>,
               <<"HUMAN_WAIT", "HUMAN_INPUT", "HUMAN_WAIT">>,
               <<"REPLAN", "PROVIDER_ERROR", "BLOCKED">>}
    BY DEF Outcome
  <2>7. Polls BY <2>5, <2>6 DEF Polls
  <2>8. QED BY <2>7 DEF Effect
<1>11. CASE PollPaused
  <2>2. PICK cp : cp = Checkpoint("PAUSED_QUOTA", run.session, "PROVIDER_QUOTA") OBVIOUS
  <2>3. cp.state = "PAUSED_QUOTA" /\ cp.session = run.session BY <2>2 DEF Checkpoint
  <2>4. Persist(cp, "PAUSED_QUOTA", Returned) BY <1>11, <2>2 DEF PollPaused
  <2>5. Writing("PAUSED_QUOTA", run.session, "PAUSED_QUOTA", Returned, run.catch)
    BY <1>0, <2>3, <2>4, Persisted DEF Writing
  <2>6. Polls BY <1>11, <2>5 DEF PollPaused, Polls, Polled, At, Files, counters
  <2>7. QED BY <2>6 DEF Effect
<1>12. CASE PollUnauthorized
  <2>2. PICK cp : cp = Checkpoint("HUMAN_WAIT", run.session, "HUMAN_INPUT") OBVIOUS
  <2>3. cp.state = "HUMAN_WAIT" /\ cp.session = run.session BY <2>2 DEF Checkpoint
  <2>4. Persist(cp, "HUMAN_WAIT", Returned) BY <1>12, <2>2 DEF PollUnauthorized
  <2>5. Writing("HUMAN_WAIT", run.session, "HUMAN_WAIT", Returned, run.catch)
    BY <1>0, <2>3, <2>4, Persisted DEF Writing
  <2>6. Polled("HUMAN_WAIT", "HUMAN_WAIT")
    BY <1>12, <2>5 DEF PollUnauthorized, Polled, Fault, At, Files
  <2>7. Polls BY <2>6 DEF Polls
  <2>8. QED BY <2>7 DEF Effect
<1>13. CASE PollFails
  <2>1. Became("fail") BY <1>0, <1>13, WentOn, NoneNamed DEF PollFails, Became, NothingToWrite
  <2>2. MonitorFails BY <1>13, <2>1 DEF PollFails, MonitorFails, Faulted, Fault, At
  <2>3. QED BY <2>2 DEF Effect
<1>14. CASE WriteCheckpoint
  <2>0. Wrote BY <1>14 DEF WriteCheckpoint, Wrote, At
  <2>1. CASE run.st # "NONE"
    <3>1. Became("status")
      BY <1>0, <1>14, <2>1, WentOn, NoneNamed DEF WriteCheckpoint, Became, NothingToWrite
    <3>2. WroteFirst BY <2>0, <2>1, <3>1 DEF WroteFirst
    <3>3. QED BY <3>2 DEF Effect
  <2>2. CASE run.st = "NONE" /\ run.next = "idle"
    <3>1. Over BY <1>14, <2>2, Ended, NoneNamed DEF WriteCheckpoint, Over, NothingToWrite
    <3>2. WroteLast BY <2>0, <2>2, <3>1 DEF WroteLast
    <3>3. QED BY <3>2 DEF Effect
  <2>3. CASE run.st = "NONE" /\ run.next # "idle"
    <3>1. Became(run.next)
      BY <1>0, <1>14, <2>3, WentOn, NoneNamed DEF WriteCheckpoint, Became, NothingToWrite
    <3>2. WroteOn BY <2>0, <2>3, <3>1 DEF WroteOn
    <3>3. QED BY <3>2 DEF Effect
  <2>4. QED BY <2>1, <2>2, <2>3
<1>15. CASE SetStatus
  <2>1. CASE current /\ run.next # "idle"
    <3>1. Became(run.next)
      BY <1>0, <1>15, <2>1, WentOn, NoneNamed DEF SetStatus, Became, NothingToWrite
    <3>2. StatusSetOn BY <1>15, <2>1, <3>1 DEF SetStatus, StatusSetOn, StatusSet, At, counters
    <3>3. QED BY <3>2 DEF Effect
  <2>2. CASE current /\ run.next = "idle"
    <3>1. Over BY <1>15, <2>2, Ended, NoneNamed DEF SetStatus, Over, NothingToWrite
    <3>2. StatusSetLast
      BY <1>15, <2>2, <3>1 DEF SetStatus, StatusSetLast, StatusSet, At, counters
    <3>3. QED BY <3>2 DEF Effect
  <2>3. CASE ~current /\ run.catch # "idle"
    <3>0. run.catch = "fail" BY <1>0, <2>3 DEF Fields
    <3>1. Became("fail")
      BY <1>0, <1>15, <2>3, <3>0, WentOn, NoneNamed DEF SetStatus, Became, NothingToWrite
    <3>2. StatusFails
      BY <1>15, <2>3, <3>0, <3>1 DEF SetStatus, StatusFails, StatusTooLate, At, Files, counters
    <3>3. QED BY <3>2 DEF Effect
  <2>4. CASE ~current /\ run.catch = "idle"
    <3>1. Over BY <1>15, <2>4, Ended, NoneNamed DEF SetStatus, Over, NothingToWrite
    <3>2. StatusEnds
      BY <1>15, <2>4, <3>1 DEF SetStatus, StatusEnds, StatusTooLate, At, Files, counters
    <3>3. QED BY <3>2 DEF Effect
  <2>5. QED BY <2>1, <2>2, <2>3, <2>4
<1>16. CASE Fail
  <2>1. CASE run.kind = "cycle" \/ run.retrying
    <3>1. PICK cp :
             cp = [Checkpoint("FAILED", 0, "PROVIDER_ERROR") EXCEPT !.attempt = run.attempt]
      OBVIOUS
    <3>2. /\ cp.state = "FAILED" /\ cp.session = 0 /\ cp.kind = "PROVIDER_ERROR"
          /\ cp.attempt = run.attempt
      BY <3>1 DEF Checkpoint
    <3>3. PersistLast(cp, "NONE") BY <1>16, <2>1, <3>1 DEF Fail
    <3>4. RecordsFailure
      BY <1>0, <1>16, <2>1, <3>2, <3>3, PersistedLast DEF Fail, RecordsFailure, Writing, At,
         Files, counters
    <3>5. QED BY <3>4 DEF Effect
  <2>2. CASE ~(run.kind = "cycle" \/ run.retrying)
    <3>1. Over BY <1>16, <2>2, Ended, NoneNamed DEF Fail, Over, NothingToWrite
    <3>2. GivesUp BY <1>16, <2>2, <3>1 DEF Fail, GivesUp, At, Files, counters
    <3>3. QED BY <3>2 DEF Effect
  <2>3. QED BY <2>1, <2>2
<1>17. CASE PreserveFloor
  <2>1. Over BY <1>17, Ended, NoneNamed DEF PreserveFloor, Over, NothingToWrite
  <2>2. run.attempt \in 0 .. MaxRetries BY <1>0 DEF RunType
  <2>3. checkpoint' \in CheckpointType
    BY <1>0, <1>17, <2>2 DEF PreserveFloor, CheckpointType, Fields
  <2>4. /\ checkpoint'.state = checkpoint.state /\ checkpoint'.session = checkpoint.session
        /\ checkpoint'.kind = checkpoint.kind
        /\ checkpoint'.attempt = IF checkpoint.attempt < run.attempt THEN run.attempt
                                 ELSE checkpoint.attempt
    <3>1. checkpoint \in CheckpointType BY <1>0 DEF Fields
    <3>2. QED BY <1>17, <3>1 DEF PreserveFloor, CheckpointType
  <2>5. Floors BY <1>17, <2>1, <2>3, <2>4 DEF PreserveFloor, Floors, At, counters
  <2>6. QED BY <2>5 DEF Effect
<1>18. CASE RequestFails
  <2>1. Became("fail") BY <1>0, <1>18, WentOn, NoneNamed DEF RequestFails, Became, NothingToWrite
  <2>2. CallFails BY <1>18, <2>1 DEF RequestFails, CallFails, Fault, LeaseTime, At
  <2>3. QED BY <2>2 DEF Effect
<1>19. CASE Crash
  <2>1. Over BY <1>19, Ended, NoneNamed DEF Crash, Over, NothingToWrite
  <2>2. Killed BY <1>19, <2>1 DEF Crash, Killed, At, Files
  <2>3. QED BY <2>2 DEF Effect
<1>20. ASSUME NEW s \in 1 .. Len(sessions), SessionEnds(s) PROVE Effect
  BY <1>0, <1>20, Stops DEF Effect
<1>21. CASE CronArrives \/ DuplicateArrives \/ SkipResume \/ MoveOn \/ UNCHANGED cycleVars
  BY <1>21 DEF Effect
<1>22. QED
  BY <1>1, <1>2, <1>3, <1>4, <1>5, <1>6, <1>7, <1>8, <1>9, <1>10, <1>11, <1>12, <1>13, <1>14,
     <1>15, <1>16, <1>17, <1>18, <1>19, <1>20, <1>21 DEF CycleNext, RunStep

\* The sessions remain a sequence, whatever is created or stops.
LEMMA StepSequence ==
    ASSUME CycleTypeOK, RunShape, SessionsExist, [CycleNext]_cycleVars
    PROVE  sessions' \in Seq({"active", "stopped"})
<1>0. Effect /\ Fields /\ sessions \in Seq({"active", "stopped"})
  BY FieldsTyped, Effects DEF CycleTypeOK
<1>1. CASE CronArrives \/ DuplicateArrives \/ SkipResume \/ MoveOn \/ SessionStops
  BY <1>0, <1>1 DEF CronArrives, counters, DuplicateArrives, SkipResume, MoveOn,
     SessionStops, At, Kept, Fields
<1>2. CASE BeginsCycle \/ Remonitors \/ Retries \/ Reroutes
  BY <1>0, <1>2 DEF BeginsCycle, Started, NothingToWrite, Remonitors, ResumeBegins, Retries,
     Reroutes, At, Kept, Fields
<1>3. CASE TimeOut \/ TimeIn
  BY <1>0, <1>3 DEF TimeOut, counters, TimeIn, At, Kept, Fields
<1>4. CASE Yields \/ Takes
  BY <1>0, <1>4 DEF Yields, Over, NothingToWrite, Files, counters, Takes, Became, At, Kept,
     Fields
<1>5. CASE Pauses \/ Reuses
  BY <1>0, <1>5 DEF Pauses, Writing, Returned, Files, counters, Reuses, CreatesWith,
     NewRetry, At, Kept, Fields
<1>6. CASE CreatesNew
  BY <1>0, <1>6 DEF CreatesNew, CreatesWith, NewRetry, Grown, At, Kept, Fields
<1>7. CASE CreationFails
  <2>1. UNCHANGED sessions \/ sessions' = Append(sessions, "active")
    BY <1>7 DEF CreationFails, Grown
  <2>2. QED BY <1>0, <2>1
<1>8. CASE CycleRefused \/ ResumeRefused
  BY <1>0, <1>8 DEF CycleRefused, Writing, Faulted, ResumeRefused, Over, NothingToWrite, At,
     Kept, Fields
<1>9. CASE MonitorBegins \/ MonitorTooLate \/ Polls \/ MonitorFails
  BY <1>0, <1>9 DEF MonitorBegins, Became, NothingToWrite, counters, MonitorTooLate, Files,
     Polls, Polled, Writing, Returned, MonitorFails, Faulted, At, Kept, Fields
<1>10. CASE WroteFirst \/ WroteLast \/ WroteOn
  BY <1>0, <1>10 DEF WroteFirst, Wrote, Became, NothingToWrite, counters, WroteLast, Over,
     WroteOn, At, Kept, Fields
<1>11. CASE StatusSetOn \/ StatusSetLast \/ StatusFails \/ StatusEnds
  BY <1>0, <1>11 DEF StatusSetOn, StatusSet, Became, NothingToWrite, counters,
     StatusSetLast, Over, StatusFails, StatusTooLate, Files, StatusEnds, At, Kept, Fields
<1>12. CASE RecordsFailure \/ GivesUp \/ Floors \/ CallFails \/ Killed
  BY <1>0, <1>12 DEF RecordsFailure, Writing, Files, counters, GivesUp, Over,
     NothingToWrite, Floors, CallFails, Became, Killed, At, Kept, Fields
<1>13. CASE UNCHANGED cycleVars
  BY <1>0, <1>13 DEF cycleVars, counters, At, Kept, Fields
<1>14. QED
  BY <1>0, <1>1, <1>2, <1>3, <1>4, <1>5, <1>6, <1>7, <1>8, <1>9, <1>10, <1>11, <1>12, <1>13 DEF
     Effect

\* The counters count.
LEMMA StepCounters ==
    ASSUME CycleTypeOK, RunShape, SessionsExist, [CycleNext]_cycleVars
    PROVE  /\ faults' \in 0 .. MaxFault /\ crashes' \in 0 .. MaxCrash /\ retries' \in Nat
           /\ duplicates' \in 0 .. MaxDuplicate /\ overtakings' \in Nat
<1>0. Effect /\ Fields
      /\ faults \in 0 .. MaxFault /\ crashes \in 0 .. MaxCrash /\ retries \in Nat
      /\ duplicates \in 0 .. MaxDuplicate /\ overtakings \in Nat
  BY FieldsTyped, Effects DEF CycleTypeOK
<1>1. CASE CronArrives
  BY <1>0, <1>1 DEF CronArrives, counters, At, Kept, Fields, Count
<1>2. CASE DuplicateArrives
  BY <1>0, <1>2 DEF DuplicateArrives, At, Kept, Fields, Count
<1>3. CASE SkipResume \/ MoveOn \/ SessionStops
  BY <1>0, <1>3 DEF SkipResume, counters, MoveOn, SessionStops, At, Kept, Fields, Count
<1>4. CASE BeginsCycle
  BY <1>0, <1>4 DEF BeginsCycle, Started, NothingToWrite, At, Kept, Fields, Count
<1>5. CASE Remonitors
  BY <1>0, <1>5 DEF Remonitors, ResumeBegins, Started, NothingToWrite, At, Kept, Fields,
     Count
<1>6. CASE Retries
  BY <1>0, <1>6 DEF Retries, ResumeBegins, Started, NothingToWrite, At, Kept, Fields, Count
<1>7. CASE Reroutes
  BY <1>0, <1>7 DEF Reroutes, ResumeBegins, Started, NothingToWrite, At, Kept, Fields, Count
<1>8. CASE TimeOut \/ TimeIn
  BY <1>0, <1>8 DEF TimeOut, counters, TimeIn, At, Kept, Fields, Count
<1>9. CASE Yields \/ Takes
  BY <1>0, <1>9 DEF Yields, Over, NothingToWrite, Files, counters, Takes, Became, At, Kept,
     Fields, Count
<1>10. CASE Pauses
  BY <1>0, <1>10 DEF Pauses, Writing, Returned, Files, counters, At, Kept, Fields, Count
<1>11. CASE Reuses
  BY <1>0, <1>11 DEF Reuses, CreatesWith, NewRetry, At, Kept, Fields, Count
<1>12. CASE CreatesNew
  BY <1>0, <1>12 DEF CreatesNew, CreatesWith, NewRetry, Grown, At, Kept, Fields, Count
<1>13. CASE CreationFails
  BY <1>0, <1>13 DEF CreationFails, Became, NothingToWrite, NewRetry, Grown, At, Kept,
     Fields, Count
<1>14. CASE CycleRefused
  BY <1>0, <1>14 DEF CycleRefused, Writing, Faulted, At, Kept, Fields, Count
<1>15. CASE ResumeRefused
  BY <1>0, <1>15 DEF ResumeRefused, Over, NothingToWrite, Faulted, At, Kept, Fields, Count
<1>16. CASE MonitorBegins \/ MonitorTooLate
  BY <1>0, <1>16 DEF MonitorBegins, Became, NothingToWrite, counters, MonitorTooLate, Files,
     At, Kept, Fields, Count
<1>17. CASE Polls
  <2>1. UNCHANGED faults \/ (faults < MaxFault /\ faults' = faults + 1)
    BY <1>17 DEF Polls, Polled
  <2>2. UNCHANGED <<sessions, crashes, overtakings, duplicates, retries>>
    BY <1>17 DEF Polls, Polled, Files
  <2>3. QED BY <1>0, <2>1, <2>2
<1>18. CASE MonitorFails
  BY <1>0, <1>18 DEF MonitorFails, Became, NothingToWrite, Faulted, At, Kept, Fields, Count
<1>19. CASE WroteFirst \/ WroteLast \/ WroteOn
  BY <1>0, <1>19 DEF WroteFirst, Wrote, Became, NothingToWrite, counters, WroteLast, Over,
     WroteOn, At, Kept, Fields, Count
<1>20. CASE StatusSetOn \/ StatusSetLast \/ StatusFails \/ StatusEnds
  BY <1>0, <1>20 DEF StatusSetOn, StatusSet, Became, NothingToWrite, counters,
     StatusSetLast, Over, StatusFails, StatusTooLate, Files, StatusEnds, At, Kept, Fields,
     Count
<1>21. CASE RecordsFailure \/ GivesUp \/ Floors
  BY <1>0, <1>21 DEF RecordsFailure, Writing, Files, counters, GivesUp, Over,
     NothingToWrite, Floors, At, Kept, Fields, Count
<1>22. CASE CallFails
  BY <1>0, <1>22 DEF CallFails, Became, NothingToWrite, At, Kept, Fields, Count
<1>23. CASE Killed
  BY <1>0, <1>23 DEF Killed, Over, NothingToWrite, Files, At, Kept, Fields, Count
<1>24. CASE UNCHANGED cycleVars
  BY <1>0, <1>24 DEF cycleVars, counters, At, Kept, Fields, Count
<1>25. QED
  BY <1>0, <1>1, <1>2, <1>3, <1>4, <1>5, <1>6, <1>7, <1>8, <1>9, <1>10, <1>11, <1>12, <1>13,
     <1>14, <1>15, <1>16, <1>17, <1>18, <1>19, <1>20, <1>21, <1>22, <1>23, <1>24 DEF
     Effect

\* A run keeps its shape.
LEMMA StepShape ==
    ASSUME CycleTypeOK, RunShape, SessionsExist, [CycleNext]_cycleVars
    PROVE  RunShape'
<1>0. Effect /\ Fields
  BY FieldsTyped, Effects
<1>1. CASE CronArrives \/ DuplicateArrives \/ SkipResume \/ MoveOn \/ SessionStops
  BY <1>0, <1>1 DEF CronArrives, counters, DuplicateArrives, SkipResume, MoveOn,
     SessionStops, At, Kept, Fields, RunShape
<1>2. CASE BeginsCycle \/ Remonitors \/ Retries \/ Reroutes
  BY <1>0, <1>2 DEF BeginsCycle, Started, NothingToWrite, Remonitors, ResumeBegins, Retries,
     Reroutes, At, Kept, Fields, RunShape
<1>3. CASE TimeOut \/ TimeIn
  BY <1>0, <1>3 DEF TimeOut, counters, TimeIn, At, Kept, Fields, RunShape
<1>4. CASE Yields \/ Takes
  BY <1>0, <1>4 DEF Yields, Over, NothingToWrite, Files, counters, Takes, Became, At, Kept,
     Fields, RunShape
<1>5. CASE Pauses \/ Reuses \/ CreatesNew \/ CreationFails \/ CycleRefused \/ ResumeRefused
  BY <1>0, <1>5 DEF Pauses, Writing, Returned, Files, counters, Reuses, CreatesWith,
     NewRetry, CreatesNew, Grown, CreationFails, Became, NothingToWrite, CycleRefused,
     Faulted, ResumeRefused, Over, At, Kept, Fields, RunShape
<1>6. CASE MonitorBegins \/ MonitorTooLate \/ Polls \/ MonitorFails
  BY <1>0, <1>6 DEF MonitorBegins, Became, NothingToWrite, counters, MonitorTooLate, Files,
     Polls, Polled, Writing, Returned, MonitorFails, Faulted, At, Kept, Fields, RunShape
<1>7. CASE WroteFirst \/ WroteLast \/ WroteOn
  BY <1>0, <1>7 DEF WroteFirst, Wrote, Became, NothingToWrite, counters, WroteLast, Over,
     WroteOn, At, Kept, Fields, RunShape
<1>8. CASE StatusSetOn \/ StatusSetLast \/ StatusFails \/ StatusEnds
  BY <1>0, <1>8 DEF StatusSetOn, StatusSet, Became, NothingToWrite, counters, StatusSetLast,
     Over, StatusFails, StatusTooLate, Files, StatusEnds, At, Kept, Fields, RunShape
<1>9. CASE RecordsFailure \/ GivesUp \/ Floors \/ CallFails \/ Killed
  BY <1>0, <1>9 DEF RecordsFailure, Writing, Files, counters, GivesUp, Over, NothingToWrite,
     Floors, CallFails, Became, Killed, At, Kept, Fields, RunShape
<1>10. CASE UNCHANGED cycleVars
  BY <1>0, <1>10 DEF cycleVars, counters, At, Kept, Fields, RunShape
<1>11. QED
  BY <1>0, <1>1, <1>2, <1>3, <1>4, <1>5, <1>6, <1>7, <1>8, <1>9, <1>10 DEF Effect

\* No record gets ahead of the sessions: a checkpoint and a run name sessions
\* that there are.
LEMMA StepSessions ==
    ASSUME CycleTypeOK, RunShape, SessionsExist, [CycleNext]_cycleVars
    PROVE  SessionsExist'
<1>0. Effect /\ Fields /\ sessions \in Seq({"active", "stopped"})
  BY FieldsTyped, Effects DEF CycleTypeOK
<1>1. CASE CronArrives \/ DuplicateArrives \/ SkipResume \/ MoveOn \/ SessionStops
  BY <1>0, <1>1 DEF CronArrives, counters, DuplicateArrives, SkipResume, MoveOn,
     SessionStops, At, Kept, Fields, RunShape, SessionsExist, NamesSession, Monitored,
     Reusable
<1>2. CASE BeginsCycle \/ Remonitors \/ Retries \/ Reroutes
  BY <1>0, <1>2 DEF BeginsCycle, Started, NothingToWrite, Remonitors, ResumeBegins, Retries,
     Reroutes, At, Kept, Fields, RunShape, SessionsExist, NamesSession, Monitored, Reusable
<1>3. CASE TimeOut \/ TimeIn
  BY <1>0, <1>3 DEF TimeOut, counters, TimeIn, At, Kept, Fields, RunShape, SessionsExist,
     NamesSession, Monitored, Reusable
<1>4. CASE Yields \/ Takes
  BY <1>0, <1>4 DEF Yields, Over, NothingToWrite, Files, counters, Takes, Became, At, Kept,
     Fields, RunShape, SessionsExist, NamesSession, Monitored, Reusable
<1>5. CASE Pauses \/ Reuses \/ CreatesNew \/ CreationFails \/ CycleRefused \/ ResumeRefused
  BY <1>0, <1>5 DEF Pauses, Writing, Returned, Files, counters, Reuses, CreatesWith,
     NewRetry, CreatesNew, Grown, CreationFails, Became, NothingToWrite, CycleRefused,
     Faulted, ResumeRefused, Over, At, Kept, Fields, RunShape, SessionsExist, NamesSession,
     Monitored, Reusable
<1>6. CASE MonitorBegins \/ MonitorTooLate \/ Polls \/ MonitorFails
  BY <1>0, <1>6 DEF MonitorBegins, Became, NothingToWrite, counters, MonitorTooLate, Files,
     Polls, Polled, Writing, Returned, MonitorFails, Faulted, At, Kept, Fields, RunShape,
     SessionsExist, NamesSession, Monitored, Reusable
<1>7. CASE WroteFirst \/ WroteLast \/ WroteOn
  BY <1>0, <1>7 DEF WroteFirst, Wrote, Became, NothingToWrite, counters, WroteLast, Over,
     WroteOn, At, Kept, Fields, RunShape, SessionsExist, NamesSession, Monitored, Reusable
<1>8. CASE StatusSetOn \/ StatusSetLast \/ StatusFails \/ StatusEnds
  BY <1>0, <1>8 DEF StatusSetOn, StatusSet, Became, NothingToWrite, counters, StatusSetLast,
     Over, StatusFails, StatusTooLate, Files, StatusEnds, At, Kept, Fields, RunShape,
     SessionsExist, NamesSession, Monitored, Reusable
<1>9. CASE RecordsFailure \/ GivesUp \/ Floors \/ CallFails \/ Killed
  BY <1>0, <1>9 DEF RecordsFailure, Writing, Files, counters, GivesUp, Over, NothingToWrite,
     Floors, CallFails, Became, Killed, At, Kept, Fields, RunShape, SessionsExist,
     NamesSession, Monitored, Reusable
<1>10. CASE UNCHANGED cycleVars
  BY <1>0, <1>10 DEF cycleVars, counters, At, Kept, Fields, RunShape, SessionsExist,
     NamesSession, Monitored, Reusable
<1>11. QED
  BY <1>0, <1>1, <1>2, <1>3, <1>4, <1>5, <1>6, <1>7, <1>8, <1>9, <1>10 DEF Effect

\* The lease of a dispatched run outlasts it, because the job is shorter.
LEMMA StepLease ==
    ASSUME CycleTypeOK, RunShape, SessionsExist, LeaseHolds, [CycleNext]_cycleVars
    PROVE  LeaseHolds'
<1>0. Effect /\ Fields /\ run.left \in 0 .. JobTime
  BY FieldsTyped, Effects DEF CycleTypeOK, RunType
<1>1. CASE CronArrives \/ DuplicateArrives \/ SkipResume \/ MoveOn \/ SessionStops
  BY <1>0, <1>1 DEF CronArrives, counters, DuplicateArrives, SkipResume, MoveOn,
     SessionStops, At, Kept, Fields, RunShape, LeaseHolds
<1>2. CASE BeginsCycle \/ Remonitors \/ Retries \/ Reroutes
  BY <1>0, <1>2 DEF BeginsCycle, Started, NothingToWrite, Remonitors, ResumeBegins, Retries,
     Reroutes, At, Kept, Fields, RunShape, LeaseHolds
<1>3. CASE TimeOut \/ TimeIn
  BY <1>0, <1>3 DEF TimeOut, counters, TimeIn, At, Kept, Fields, RunShape, LeaseHolds
<1>4. CASE Yields \/ Takes
  BY <1>0, <1>4 DEF Yields, Over, NothingToWrite, Files, counters, Takes, Became, At, Kept,
     Fields, RunShape, LeaseHolds
<1>5. CASE Pauses \/ Reuses \/ CreatesNew \/ CreationFails \/ CycleRefused \/ ResumeRefused
  BY <1>0, <1>5 DEF Pauses, Writing, Returned, Files, counters, Reuses, CreatesWith,
     NewRetry, CreatesNew, Grown, CreationFails, Became, NothingToWrite, CycleRefused,
     Faulted, ResumeRefused, Over, At, Kept, Fields, RunShape, LeaseHolds
<1>6. CASE MonitorBegins \/ MonitorTooLate \/ Polls \/ MonitorFails
  BY <1>0, <1>6 DEF MonitorBegins, Became, NothingToWrite, counters, MonitorTooLate, Files,
     Polls, Polled, Writing, Returned, MonitorFails, Faulted, At, Kept, Fields, RunShape,
     LeaseHolds
<1>7. CASE WroteFirst \/ WroteLast \/ WroteOn
  BY <1>0, <1>7 DEF WroteFirst, Wrote, Became, NothingToWrite, counters, WroteLast, Over,
     WroteOn, At, Kept, Fields, RunShape, LeaseHolds
<1>8. CASE StatusSetOn \/ StatusSetLast \/ StatusFails \/ StatusEnds
  BY <1>0, <1>8 DEF StatusSetOn, StatusSet, Became, NothingToWrite, counters, StatusSetLast,
     Over, StatusFails, StatusTooLate, Files, StatusEnds, At, Kept, Fields, RunShape,
     LeaseHolds
<1>9. CASE RecordsFailure \/ GivesUp \/ Floors \/ CallFails \/ Killed
  BY <1>0, <1>9 DEF RecordsFailure, Writing, Files, counters, GivesUp, Over, NothingToWrite,
     Floors, CallFails, Became, Killed, At, Kept, Fields, RunShape, LeaseHolds
<1>10. CASE UNCHANGED cycleVars
  BY <1>0, <1>10 DEF cycleVars, counters, At, Kept, Fields, RunShape, LeaseHolds
<1>11. QED
  BY <1>0, <1>1, <1>2, <1>3, <1>4, <1>5, <1>6, <1>7, <1>8, <1>9, <1>10 DEF Effect

\* Who is overtaken was repeated.
LEMMA StepExplained ==
    ASSUME CycleTypeOK, RunShape, SessionsExist, Explained, [CycleNext]_cycleVars
    PROVE  Explained'
<1>0. Effect /\ Fields /\ overtakings \in Nat /\ duplicates \in Nat
  BY FieldsTyped, Effects DEF CycleTypeOK
<1>1. CASE CronArrives \/ DuplicateArrives \/ SkipResume \/ MoveOn \/ SessionStops
  BY <1>0, <1>1 DEF CronArrives, counters, DuplicateArrives, SkipResume, MoveOn,
     SessionStops, At, Kept, Fields, RunShape, Explained, Waits, Overtakes, Count
<1>2. CASE BeginsCycle \/ Remonitors \/ Retries \/ Reroutes
  BY <1>0, <1>2 DEF BeginsCycle, Started, NothingToWrite, Remonitors, ResumeBegins, Retries,
     Reroutes, At, Kept, Fields, RunShape, Explained, Waits, Overtakes, Count
<1>3. CASE TimeOut \/ TimeIn
  BY <1>0, <1>3 DEF TimeOut, counters, TimeIn, At, Kept, Fields, RunShape, Explained, Waits,
     Overtakes, Count
<1>4. CASE Yields \/ Takes
  BY <1>0, <1>4 DEF Yields, Over, NothingToWrite, Files, counters, Takes, Became, At, Kept,
     Fields, RunShape, Explained, Waits, Overtakes, Count
<1>5. CASE Pauses \/ Reuses \/ CreatesNew \/ CreationFails \/ CycleRefused \/ ResumeRefused
  BY <1>0, <1>5 DEF Pauses, Writing, Returned, Files, counters, Reuses, CreatesWith,
     NewRetry, CreatesNew, Grown, CreationFails, Became, NothingToWrite, CycleRefused,
     Faulted, ResumeRefused, Over, At, Kept, Fields, RunShape, Explained, Waits, Overtakes,
     Count
<1>6. CASE MonitorBegins \/ MonitorTooLate \/ Polls \/ MonitorFails
  BY <1>0, <1>6 DEF MonitorBegins, Became, NothingToWrite, counters, MonitorTooLate, Files,
     Polls, Polled, Writing, Returned, MonitorFails, Faulted, At, Kept, Fields, RunShape,
     Explained, Waits, Overtakes, Count
<1>7. CASE WroteFirst \/ WroteLast \/ WroteOn
  BY <1>0, <1>7 DEF WroteFirst, Wrote, Became, NothingToWrite, counters, WroteLast, Over,
     WroteOn, At, Kept, Fields, RunShape, Explained, Waits, Overtakes, Count
<1>8. CASE StatusSetOn \/ StatusSetLast \/ StatusFails \/ StatusEnds
  BY <1>0, <1>8 DEF StatusSetOn, StatusSet, Became, NothingToWrite, counters, StatusSetLast,
     Over, StatusFails, StatusTooLate, Files, StatusEnds, At, Kept, Fields, RunShape,
     Explained, Waits, Overtakes, Count
<1>9. CASE RecordsFailure \/ GivesUp \/ Floors \/ CallFails \/ Killed
  BY <1>0, <1>9 DEF RecordsFailure, Writing, Files, counters, GivesUp, Over, NothingToWrite,
     Floors, CallFails, Became, Killed, At, Kept, Fields, RunShape, Explained, Waits,
     Overtakes, Count
<1>10. CASE UNCHANGED cycleVars
  BY <1>0, <1>10 DEF cycleVars, counters, At, Kept, Fields, RunShape, Explained, Waits,
     Overtakes, Count
<1>11. QED
  BY <1>0, <1>1, <1>2, <1>3, <1>4, <1>5, <1>6, <1>7, <1>8, <1>9, <1>10 DEF Effect

\* What is undisturbed now was so before.
LEMMA UndisturbedBefore ==
    ASSUME CycleTypeOK, RunShape, SessionsExist, [CycleNext]_cycleVars
    PROVE  Undisturbed' => Undisturbed
<1>0. Effect /\ Fields
      /\ overtakings \in Nat /\ crashes \in Nat /\ duplicates \in Nat
  BY FieldsTyped, Effects DEF CycleTypeOK
<1>1. CASE CronArrives \/ DuplicateArrives \/ SkipResume \/ MoveOn \/ SessionStops
  BY <1>0, <1>1 DEF CronArrives, counters, DuplicateArrives, SkipResume, MoveOn,
     SessionStops, At, Kept, Fields, Undisturbed, Count
<1>2. CASE BeginsCycle \/ Remonitors \/ Retries \/ Reroutes
  BY <1>0, <1>2 DEF BeginsCycle, Started, NothingToWrite, Remonitors, ResumeBegins, Retries,
     Reroutes, At, Kept, Fields, Undisturbed, Count
<1>3. CASE TimeOut \/ TimeIn
  BY <1>0, <1>3 DEF TimeOut, counters, TimeIn, At, Kept, Fields, Undisturbed, Count
<1>4. CASE Yields \/ Takes
  BY <1>0, <1>4 DEF Yields, Over, NothingToWrite, Files, counters, Takes, Became, At, Kept,
     Fields, Undisturbed, Count
<1>5. CASE Pauses \/ Reuses \/ CreatesNew \/ CreationFails \/ CycleRefused \/ ResumeRefused
  BY <1>0, <1>5 DEF Pauses, Writing, Returned, Files, counters, Reuses, CreatesWith,
     NewRetry, CreatesNew, Grown, CreationFails, Became, NothingToWrite, CycleRefused,
     Faulted, ResumeRefused, Over, At, Kept, Fields, Undisturbed, Count
<1>6. CASE MonitorBegins \/ MonitorTooLate \/ Polls \/ MonitorFails
  BY <1>0, <1>6 DEF MonitorBegins, Became, NothingToWrite, counters, MonitorTooLate, Files,
     Polls, Polled, Writing, Returned, MonitorFails, Faulted, At, Kept, Fields, Undisturbed,
     Count
<1>7. CASE WroteFirst \/ WroteLast \/ WroteOn
  BY <1>0, <1>7 DEF WroteFirst, Wrote, Became, NothingToWrite, counters, WroteLast, Over,
     WroteOn, At, Kept, Fields, Undisturbed, Count
<1>8. CASE StatusSetOn \/ StatusSetLast \/ StatusFails \/ StatusEnds
  BY <1>0, <1>8 DEF StatusSetOn, StatusSet, Became, NothingToWrite, counters, StatusSetLast,
     Over, StatusFails, StatusTooLate, Files, StatusEnds, At, Kept, Fields, Undisturbed,
     Count
<1>9. CASE RecordsFailure \/ GivesUp \/ Floors \/ CallFails \/ Killed
  BY <1>0, <1>9 DEF RecordsFailure, Writing, Files, counters, GivesUp, Over, NothingToWrite,
     Floors, CallFails, Became, Killed, At, Kept, Fields, Undisturbed, Count
<1>10. CASE UNCHANGED cycleVars
  BY <1>0, <1>10 DEF cycleVars, counters, At, Kept, Fields, Undisturbed, Count
<1>11. QED
  BY <1>0, <1>1, <1>2, <1>3, <1>4, <1>5, <1>6, <1>7, <1>8, <1>9, <1>10 DEF Effect

\* What a run has still to write keeps status and checkpoint in agreement.
LEMMA StepStatus ==
    ASSUME CycleTypeOK, RunShape, SessionsExist, StatusAgrees, [CycleNext]_cycleVars
    PROVE  StatusAgrees'
<1>0. Effect /\ Fields /\ crashes \in Nat /\ faults \in Nat
  BY FieldsTyped, Effects DEF CycleTypeOK
<1>1. CASE CronArrives \/ DuplicateArrives \/ SkipResume \/ MoveOn \/ SessionStops
  BY <1>0, <1>1 DEF CronArrives, counters, DuplicateArrives, SkipResume, MoveOn,
     SessionStops, At, Kept, Fields, RunShape, StatusAgrees, StatusOf
<1>2. CASE BeginsCycle \/ Remonitors \/ Retries \/ Reroutes
  BY <1>0, <1>2 DEF BeginsCycle, Started, NothingToWrite, Remonitors, ResumeBegins, Retries,
     Reroutes, At, Kept, Fields, RunShape, StatusAgrees, StatusOf
<1>3. CASE TimeOut \/ TimeIn
  BY <1>0, <1>3 DEF TimeOut, counters, TimeIn, At, Kept, Fields, RunShape, StatusAgrees,
     StatusOf
<1>4. CASE Yields \/ Takes
  BY <1>0, <1>4 DEF Yields, Over, NothingToWrite, Files, counters, Takes, Became, At, Kept,
     Fields, RunShape, StatusAgrees, StatusOf
<1>5. CASE Pauses
  BY <1>0, <1>5 DEF Pauses, Writing, Returned, Files, counters, At, Kept, Fields, RunShape,
     StatusAgrees, StatusOf
<1>6. CASE Reuses
  BY <1>0, <1>6 DEF Reuses, CreatesWith, NewRetry, At, Kept, Fields, RunShape, StatusAgrees,
     StatusOf
<1>7. CASE CreatesNew
  BY <1>0, <1>7 DEF CreatesNew, CreatesWith, NewRetry, Grown, At, Kept, Fields, RunShape,
     StatusAgrees, StatusOf
<1>8. CASE CreationFails
  BY <1>0, <1>8 DEF CreationFails, Became, NothingToWrite, NewRetry, Grown, At, Kept,
     Fields, RunShape, StatusAgrees, StatusOf
<1>9. CASE CycleRefused
  BY <1>0, <1>9 DEF CycleRefused, Writing, Faulted, At, Kept, Fields, RunShape,
     StatusAgrees, StatusOf
<1>10. CASE ResumeRefused
  BY <1>0, <1>10 DEF ResumeRefused, Over, NothingToWrite, Faulted, At, Kept, Fields,
     RunShape, StatusAgrees, StatusOf
<1>11. CASE MonitorBegins \/ MonitorTooLate
  BY <1>0, <1>11 DEF MonitorBegins, Became, NothingToWrite, counters, MonitorTooLate, Files,
     At, Kept, Fields, RunShape, StatusAgrees, StatusOf
<1>12. CASE Polls
  <2>1. CASE Polled("RUNNING", "NONE")
    BY <1>0, <2>1 DEF Polled, Writing, Returned, Files, At, Kept, Fields, RunShape,
       StatusAgrees, StatusOf
  <2>2. CASE Polled("COMPLETED", "NONE")
    BY <1>0, <2>2 DEF Polled, Writing, Returned, Files, At, Kept, Fields, RunShape,
       StatusAgrees, StatusOf
  <2>3. CASE Polled("FAILED", "FAILED")
    BY <1>0, <2>3 DEF Polled, Writing, Returned, Files, At, Kept, Fields, RunShape,
       StatusAgrees, StatusOf
  <2>4. CASE Polled("HUMAN_WAIT", "HUMAN_WAIT")
    BY <1>0, <2>4 DEF Polled, Writing, Returned, Files, At, Kept, Fields, RunShape,
       StatusAgrees, StatusOf
  <2>5. CASE Polled("REPLAN", "BLOCKED")
    BY <1>0, <2>5 DEF Polled, Writing, Returned, Files, At, Kept, Fields, RunShape,
       StatusAgrees, StatusOf
  <2>6. CASE Polled("PAUSED_QUOTA", "PAUSED_QUOTA")
    BY <1>0, <2>6 DEF Polled, Writing, Returned, Files, At, Kept, Fields, RunShape,
       StatusAgrees, StatusOf
  <2>7. QED BY <1>12, <2>1, <2>2, <2>3, <2>4, <2>5, <2>6 DEF Polls
<1>13. CASE MonitorFails
  BY <1>0, <1>13 DEF MonitorFails, Became, NothingToWrite, Faulted, At, Kept, Fields,
     RunShape, StatusAgrees, StatusOf
<1>14. CASE WroteFirst \/ WroteLast \/ WroteOn
  BY <1>0, <1>14 DEF WroteFirst, Wrote, Became, NothingToWrite, counters, WroteLast, Over,
     WroteOn, At, Kept, Fields, RunShape, StatusAgrees, StatusOf
<1>15. CASE StatusSetOn \/ StatusSetLast \/ StatusFails \/ StatusEnds
  BY <1>0, <1>15 DEF StatusSetOn, StatusSet, Became, NothingToWrite, counters,
     StatusSetLast, Over, StatusFails, StatusTooLate, Files, StatusEnds, At, Kept, Fields,
     RunShape, StatusAgrees, StatusOf
<1>16. CASE RecordsFailure \/ GivesUp
  BY <1>0, <1>16 DEF RecordsFailure, Writing, Files, counters, GivesUp, Over,
     NothingToWrite, At, Kept, Fields, RunShape, StatusAgrees, StatusOf
<1>17. CASE Floors
  BY <1>0, <1>17 DEF Floors, Over, NothingToWrite, counters, At, Kept, Fields, RunShape,
     StatusAgrees, StatusOf
<1>18. CASE CallFails
  BY <1>0, <1>18 DEF CallFails, Became, NothingToWrite, At, Kept, Fields, RunShape,
     StatusAgrees, StatusOf
<1>19. CASE Killed
  BY <1>0, <1>19 DEF Killed, Over, NothingToWrite, Files, At, Kept, Fields, RunShape,
     StatusAgrees, StatusOf
<1>20. CASE UNCHANGED cycleVars
  BY <1>0, <1>20 DEF cycleVars, counters, At, Kept, Fields, RunShape, StatusAgrees, StatusOf
<1>21. QED
  BY <1>0, <1>1, <1>2, <1>3, <1>4, <1>5, <1>6, <1>7, <1>8, <1>9, <1>10, <1>11, <1>12, <1>13,
     <1>14, <1>15, <1>16, <1>17, <1>18, <1>19, <1>20 DEF
     Effect

\* Undisturbed runs follow the latest session,
LEMMA StepLatest ==
    ASSUME CycleTypeOK, RunShape, SessionsExist, LatestKept, BlankFirst, [CycleNext]_cycleVars
    PROVE  LatestKept'
<1>0. Effect /\ Fields /\ (UNCHANGED sessions => Reusable' = Reusable)
  BY FieldsTyped, Effects DEF Reusable
<1>1. CASE CronArrives \/ DuplicateArrives \/ SkipResume \/ MoveOn \/ SessionStops
  BY <1>0, <1>1 DEF CronArrives, counters, DuplicateArrives, SkipResume, MoveOn,
     SessionStops, At, Kept, Fields, RunShape, LatestKept, Monitored
<1>2. CASE BeginsCycle \/ Remonitors \/ Retries \/ Reroutes
  BY <1>0, <1>2 DEF BeginsCycle, Started, NothingToWrite, Remonitors, ResumeBegins, Retries,
     Reroutes, At, Kept, Fields, RunShape, LatestKept, Monitored
<1>3. CASE TimeOut \/ TimeIn
  BY <1>0, <1>3 DEF TimeOut, counters, TimeIn, At, Kept, Fields, RunShape, LatestKept,
     Monitored
<1>4. CASE Yields \/ Takes
  BY <1>0, <1>4 DEF Yields, Over, NothingToWrite, Files, counters, Takes, Became, At, Kept,
     Fields, RunShape, LatestKept, Monitored
<1>5. CASE Pauses \/ Reuses
  BY <1>0, <1>5 DEF Pauses, Writing, Returned, Files, counters, Reuses, CreatesWith,
     NewRetry, At, Kept, Fields, RunShape, LatestKept, Monitored
<1>6. CASE CreatesNew
  <2>1. /\ run'.pc = "write" /\ run'.session = Len(sessions') /\ run'.cp.session = Len(sessions')
        /\ checkpoint'.session = 0
    BY <1>0, <1>6 DEF CreatesNew, CreatesWith, Grown, BlankFirst, Blank, At
  <2>2. Len(sessions') \in Nat \ {0} /\ DOMAIN sessions' = 1 .. Len(sessions')
    <3>1. sessions' \in Seq({"active", "stopped"}) BY StepSequence
    <3>2. Len(sessions') = Len(sessions) + 1 /\ Len(sessions) \in Nat
      BY <1>0, <1>6 DEF CreatesNew, Grown, Fields
    <3>3. DOMAIN sessions' = 1 .. Len(sessions')
      BY <3>1
    <3>4. QED BY <3>2, <3>3
  <2>3. Len(sessions') \in Reusable'
    BY <2>2 DEF Reusable
  <2>4. QED BY <2>1, <2>3 DEF LatestKept, At
<1>7. CASE CreationFails
  <2>1. run'.pc = "fail" /\ checkpoint'.session = 0
    BY <1>0, <1>7 DEF CreationFails, Became, BlankFirst, Blank, At
  <2>2. QED BY <2>1 DEF LatestKept, At
<1>8. CASE CycleRefused \/ ResumeRefused
  BY <1>0, <1>8 DEF CycleRefused, Writing, Faulted, ResumeRefused, Over, NothingToWrite, At,
     Kept, Fields, RunShape, LatestKept, Monitored
<1>9. CASE MonitorBegins \/ MonitorTooLate \/ Polls \/ MonitorFails
  BY <1>0, <1>9 DEF MonitorBegins, Became, NothingToWrite, counters, MonitorTooLate, Files,
     Polls, Polled, Writing, Returned, MonitorFails, Faulted, At, Kept, Fields, RunShape,
     LatestKept, Monitored
<1>10. CASE WroteFirst \/ WroteLast \/ WroteOn
  BY <1>0, <1>10 DEF WroteFirst, Wrote, Became, NothingToWrite, counters, WroteLast, Over,
     WroteOn, At, Kept, Fields, RunShape, LatestKept, Monitored
<1>11. CASE StatusSetOn \/ StatusSetLast \/ StatusFails \/ StatusEnds
  BY <1>0, <1>11 DEF StatusSetOn, StatusSet, Became, NothingToWrite, counters,
     StatusSetLast, Over, StatusFails, StatusTooLate, Files, StatusEnds, At, Kept, Fields,
     RunShape, LatestKept, Monitored
<1>12. CASE RecordsFailure \/ GivesUp \/ Floors \/ CallFails \/ Killed
  BY <1>0, <1>12 DEF RecordsFailure, Writing, Files, counters, GivesUp, Over,
     NothingToWrite, Floors, CallFails, Became, Killed, At, Kept, Fields, RunShape,
     LatestKept, Monitored
<1>13. CASE UNCHANGED cycleVars
  BY <1>0, <1>13 DEF cycleVars, counters, At, Kept, Fields, RunShape, LatestKept, Monitored
<1>14. QED
  BY <1>0, <1>1, <1>2, <1>3, <1>4, <1>5, <1>6, <1>7, <1>8, <1>9, <1>10, <1>11, <1>12, <1>13 DEF
     Effect

\* create one only while the checkpoint is blank,
LEMMA StepBlank ==
    ASSUME CycleTypeOK, RunShape, SessionsExist, Explained, LeaseHolds, Undisturbed,
           Undisturbed', BlankFirst, RepeatedTwice, [CycleNext]_cycleVars
    PROVE  BlankFirst'
<1>0. Effect /\ Fields /\ duplicates \in Nat /\ crashes \in Nat /\ overtakings \in Nat
  BY FieldsTyped, Effects DEF CycleTypeOK
<1>1. CASE CronArrives \/ DuplicateArrives \/ SkipResume \/ MoveOn \/ SessionStops
  BY <1>0, <1>1 DEF CronArrives, counters, DuplicateArrives, SkipResume, MoveOn,
     SessionStops, At, Kept, Fields, RunShape, Explained, Overtakes, LeaseHolds,
     Undisturbed, RepeatedTwice, Count, StopState, BlankFirst, Blank, Retryable, Rerouted
<1>2. CASE BeginsCycle \/ Remonitors \/ Retries \/ Reroutes
  BY <1>0, <1>2 DEF BeginsCycle, Started, NothingToWrite, Remonitors, ResumeBegins, Retries,
     Reroutes, At, Kept, Fields, RunShape, Explained, Overtakes, LeaseHolds, Undisturbed,
     RepeatedTwice, Count, StopState, BlankFirst, Blank, Retryable, Rerouted
<1>3. CASE TimeOut \/ TimeIn
  BY <1>0, <1>3 DEF TimeOut, counters, TimeIn, At, Kept, Fields, RunShape, Explained,
     Overtakes, LeaseHolds, Undisturbed, RepeatedTwice, Count, StopState, BlankFirst, Blank,
     Retryable, Rerouted
<1>4. CASE Yields \/ Takes
  BY <1>0, <1>4 DEF Yields, Over, NothingToWrite, Files, counters, Takes, Became, At, Kept,
     Fields, RunShape, Explained, Overtakes, LeaseHolds, Undisturbed, RepeatedTwice, Count,
     StopState, BlankFirst, Blank, Retryable, Rerouted
<1>5. CASE Pauses \/ Reuses \/ CreatesNew \/ CreationFails \/ CycleRefused \/ ResumeRefused
  BY <1>0, <1>5 DEF Pauses, Writing, Returned, Files, counters, Reuses, CreatesWith,
     NewRetry, CreatesNew, Grown, CreationFails, Became, NothingToWrite, CycleRefused,
     Faulted, ResumeRefused, Over, At, Kept, Fields, RunShape, Explained, Overtakes,
     LeaseHolds, Undisturbed, RepeatedTwice, Count, StopState, BlankFirst, Blank, Retryable,
     Rerouted
<1>6. CASE MonitorBegins \/ MonitorTooLate \/ Polls \/ MonitorFails
  BY <1>0, <1>6 DEF MonitorBegins, Became, NothingToWrite, counters, MonitorTooLate, Files,
     Polls, Polled, Writing, Returned, MonitorFails, Faulted, At, Kept, Fields, RunShape,
     Explained, Overtakes, LeaseHolds, Undisturbed, RepeatedTwice, Count, StopState,
     BlankFirst, Blank, Retryable, Rerouted
<1>7. CASE WroteFirst \/ WroteLast \/ WroteOn
  BY <1>0, <1>7 DEF WroteFirst, Wrote, Became, NothingToWrite, counters, WroteLast, Over,
     WroteOn, At, Kept, Fields, RunShape, Explained, Overtakes, LeaseHolds, Undisturbed,
     RepeatedTwice, Count, StopState, BlankFirst, Blank, Retryable, Rerouted
<1>8. CASE StatusSetOn \/ StatusSetLast \/ StatusFails \/ StatusEnds
  BY <1>0, <1>8 DEF StatusSetOn, StatusSet, Became, NothingToWrite, counters, StatusSetLast,
     Over, StatusFails, StatusTooLate, Files, StatusEnds, At, Kept, Fields, RunShape,
     Explained, Overtakes, LeaseHolds, Undisturbed, RepeatedTwice, Count, StopState,
     BlankFirst, Blank, Retryable, Rerouted
<1>9. CASE RecordsFailure \/ GivesUp \/ Floors \/ CallFails \/ Killed
  BY <1>0, <1>9 DEF RecordsFailure, Writing, Files, counters, GivesUp, Over, NothingToWrite,
     Floors, CallFails, Became, Killed, At, Kept, Fields, RunShape, Explained, Overtakes,
     LeaseHolds, Undisturbed, RepeatedTwice, Count, StopState, BlankFirst, Blank, Retryable,
     Rerouted
<1>10. CASE UNCHANGED cycleVars
  BY <1>0, <1>10 DEF cycleVars, counters, At, Kept, Fields, RunShape, Explained, Overtakes,
     LeaseHolds, Undisturbed, RepeatedTwice, Count, StopState, BlankFirst, Blank, Retryable,
     Rerouted
<1>11. QED
  BY <1>0, <1>1, <1>2, <1>3, <1>4, <1>5, <1>6, <1>7, <1>8, <1>9, <1>10 DEF Effect

\* do not resume what has stopped,
LEMMA StepStop ==
    ASSUME CycleTypeOK, RunShape, SessionsExist, Undisturbed, BlankFirst, StopKept,
           [CycleNext]_cycleVars
    PROVE  StopKept'
<1>0. Effect /\ Fields
  BY FieldsTyped, Effects
<1>1. CASE CronArrives \/ DuplicateArrives \/ SkipResume \/ MoveOn \/ SessionStops
  BY <1>0, <1>1 DEF CronArrives, counters, DuplicateArrives, SkipResume, MoveOn,
     SessionStops, At, Kept, Fields, RunShape, BlankFirst, StopKept, Blank, Monitored,
     StopState
<1>2. CASE BeginsCycle \/ Remonitors \/ Retries \/ Reroutes
  BY <1>0, <1>2 DEF BeginsCycle, Started, NothingToWrite, Remonitors, ResumeBegins, Retries,
     Reroutes, At, Kept, Fields, RunShape, BlankFirst, StopKept, Blank, Monitored, StopState
<1>3. CASE TimeOut \/ TimeIn
  BY <1>0, <1>3 DEF TimeOut, counters, TimeIn, At, Kept, Fields, RunShape, BlankFirst,
     StopKept, Blank, Monitored, StopState
<1>4. CASE Yields \/ Takes
  BY <1>0, <1>4 DEF Yields, Over, NothingToWrite, Files, counters, Takes, Became, At, Kept,
     Fields, RunShape, BlankFirst, StopKept, Blank, Monitored, StopState
<1>5. CASE Pauses \/ Reuses \/ CreatesNew \/ CreationFails \/ CycleRefused \/ ResumeRefused
  BY <1>0, <1>5 DEF Pauses, Writing, Returned, Files, counters, Reuses, CreatesWith,
     NewRetry, CreatesNew, Grown, CreationFails, Became, NothingToWrite, CycleRefused,
     Faulted, ResumeRefused, Over, At, Kept, Fields, RunShape, BlankFirst, StopKept, Blank,
     Monitored, StopState
<1>6. CASE MonitorBegins \/ MonitorTooLate \/ Polls \/ MonitorFails
  BY <1>0, <1>6 DEF MonitorBegins, Became, NothingToWrite, counters, MonitorTooLate, Files,
     Polls, Polled, Writing, Returned, MonitorFails, Faulted, At, Kept, Fields, RunShape,
     BlankFirst, StopKept, Blank, Monitored, StopState
<1>7. CASE WroteFirst \/ WroteLast \/ WroteOn
  BY <1>0, <1>7 DEF WroteFirst, Wrote, Became, NothingToWrite, counters, WroteLast, Over,
     WroteOn, At, Kept, Fields, RunShape, BlankFirst, StopKept, Blank, Monitored, StopState
<1>8. CASE StatusSetOn \/ StatusSetLast \/ StatusFails \/ StatusEnds
  BY <1>0, <1>8 DEF StatusSetOn, StatusSet, Became, NothingToWrite, counters, StatusSetLast,
     Over, StatusFails, StatusTooLate, Files, StatusEnds, At, Kept, Fields, RunShape,
     BlankFirst, StopKept, Blank, Monitored, StopState
<1>9. CASE RecordsFailure \/ GivesUp \/ Floors \/ CallFails \/ Killed
  BY <1>0, <1>9 DEF RecordsFailure, Writing, Files, counters, GivesUp, Over, NothingToWrite,
     Floors, CallFails, Became, Killed, At, Kept, Fields, RunShape, BlankFirst, StopKept,
     Blank, Monitored, StopState
<1>10. CASE UNCHANGED cycleVars
  BY <1>0, <1>10 DEF cycleVars, counters, At, Kept, Fields, RunShape, BlankFirst, StopKept,
     Blank, Monitored, StopState
<1>11. QED
  BY <1>0, <1>1, <1>2, <1>3, <1>4, <1>5, <1>6, <1>7, <1>8, <1>9, <1>10 DEF Effect

\* and find a checkpoint that is not blank after a repetition only.
LEMMA StepTwice ==
    ASSUME CycleTypeOK, RunShape, SessionsExist, Explained, LeaseHolds, Undisturbed,
           Undisturbed', BlankFirst, RepeatedTwice,
           [CycleNext]_cycleVars
    PROVE  RepeatedTwice'
<1>0. Effect /\ Fields /\ duplicates \in Nat /\ crashes \in Nat /\ overtakings \in Nat
  BY FieldsTyped, Effects DEF CycleTypeOK
<1>1. CASE CronArrives \/ DuplicateArrives \/ SkipResume \/ MoveOn \/ SessionStops
  BY <1>0, <1>1 DEF CronArrives, counters, DuplicateArrives, SkipResume, MoveOn,
     SessionStops, At, Kept, Fields, RunShape, BlankFirst, Blank, RepeatedTwice, Explained,
     Waits, LeaseHolds, Count, Overtakes
<1>2. CASE BeginsCycle \/ Remonitors \/ Retries \/ Reroutes
  BY <1>0, <1>2 DEF BeginsCycle, Started, NothingToWrite, Remonitors, ResumeBegins, Retries,
     Reroutes, At, Kept, Fields, RunShape, BlankFirst, Blank, RepeatedTwice, Explained,
     Waits, LeaseHolds, Count, Overtakes
<1>3. CASE TimeOut \/ TimeIn
  BY <1>0, <1>3 DEF TimeOut, counters, TimeIn, At, Kept, Fields, RunShape, BlankFirst,
     Blank, RepeatedTwice, Explained, Waits, LeaseHolds, Count, Overtakes
<1>4. CASE Yields \/ Takes
  BY <1>0, <1>4 DEF Yields, Over, NothingToWrite, Files, counters, Takes, Became, At, Kept,
     Fields, RunShape, BlankFirst, Blank, RepeatedTwice, Explained, Waits, LeaseHolds,
     Count, Overtakes
<1>5. CASE Pauses \/ Reuses \/ CreatesNew \/ CreationFails \/ CycleRefused \/ ResumeRefused
  BY <1>0, <1>5 DEF Pauses, Writing, Returned, Files, counters, Reuses, CreatesWith,
     NewRetry, CreatesNew, Grown, CreationFails, Became, NothingToWrite, CycleRefused,
     Faulted, ResumeRefused, Over, At, Kept, Fields, RunShape, BlankFirst, Blank,
     RepeatedTwice, Explained, Waits, LeaseHolds, Count, Overtakes
<1>6. CASE MonitorBegins \/ MonitorTooLate \/ Polls \/ MonitorFails
  BY <1>0, <1>6 DEF MonitorBegins, Became, NothingToWrite, counters, MonitorTooLate, Files,
     Polls, Polled, Writing, Returned, MonitorFails, Faulted, At, Kept, Fields, RunShape,
     BlankFirst, Blank, RepeatedTwice, Explained, Waits, LeaseHolds, Count, Overtakes
<1>7. CASE WroteFirst \/ WroteLast \/ WroteOn
  BY <1>0, <1>7 DEF WroteFirst, Wrote, Became, NothingToWrite, counters, WroteLast, Over,
     WroteOn, At, Kept, Fields, RunShape, BlankFirst, Blank, RepeatedTwice, Explained,
     Waits, LeaseHolds, Count, Overtakes
<1>8. CASE StatusSetOn \/ StatusSetLast \/ StatusFails \/ StatusEnds
  BY <1>0, <1>8 DEF StatusSetOn, StatusSet, Became, NothingToWrite, counters, StatusSetLast,
     Over, StatusFails, StatusTooLate, Files, StatusEnds, At, Kept, Fields, RunShape,
     BlankFirst, Blank, RepeatedTwice, Explained, Waits, LeaseHolds, Count, Overtakes
<1>9. CASE RecordsFailure \/ GivesUp \/ Floors \/ CallFails \/ Killed
  BY <1>0, <1>9 DEF RecordsFailure, Writing, Files, counters, GivesUp, Over, NothingToWrite,
     Floors, CallFails, Became, Killed, At, Kept, Fields, RunShape, BlankFirst, Blank,
     RepeatedTwice, Explained, Waits, LeaseHolds, Count, Overtakes
<1>10. CASE UNCHANGED cycleVars
  BY <1>0, <1>10 DEF cycleVars, counters, At, Kept, Fields, RunShape, BlankFirst, Blank,
     RepeatedTwice, Explained, Waits, LeaseHolds, Count, Overtakes
<1>11. QED
  BY <1>0, <1>1, <1>2, <1>3, <1>4, <1>5, <1>6, <1>7, <1>8, <1>9, <1>10 DEF Effect

\* A recorded stop stands, and no session is created after it.
LEMMA StopKeeps ==
    ASSUME CycleTypeOK, RunShape, SessionsExist, Undisturbed, BlankFirst, StopKept,
           checkpoint.state \in StopState,
           [CycleNext]_cycleVars
    PROVE  /\ Len(sessions') = Len(sessions)
           /\ checkpoint'.state \in {checkpoint.state, "FAILED"}
<1>0. Effect /\ Fields
  BY FieldsTyped, Effects
<1>1. CASE CronArrives \/ DuplicateArrives \/ SkipResume \/ MoveOn \/ SessionStops
  BY <1>0, <1>1 DEF CronArrives, counters, DuplicateArrives, SkipResume, MoveOn,
     SessionStops, At, Kept, Fields, RunShape, BlankFirst, StopKept, Blank
<1>2. CASE BeginsCycle \/ Remonitors \/ Retries \/ Reroutes
  BY <1>0, <1>2 DEF BeginsCycle, Started, NothingToWrite, Remonitors, ResumeBegins, Retries,
     Reroutes, At, Kept, Fields, RunShape, BlankFirst, StopKept, Blank
<1>3. CASE TimeOut \/ TimeIn
  BY <1>0, <1>3 DEF TimeOut, counters, TimeIn, At, Kept, Fields, RunShape, BlankFirst,
     StopKept, Blank
<1>4. CASE Yields \/ Takes
  BY <1>0, <1>4 DEF Yields, Over, NothingToWrite, Files, counters, Takes, Became, At, Kept,
     Fields, RunShape, BlankFirst, StopKept, Blank
<1>5. CASE Pauses \/ Reuses \/ CreatesNew \/ CreationFails \/ CycleRefused \/ ResumeRefused
  BY <1>0, <1>5 DEF Pauses, Writing, Returned, Files, counters, Reuses, CreatesWith,
     NewRetry, CreatesNew, Grown, CreationFails, Became, NothingToWrite, CycleRefused,
     Faulted, ResumeRefused, Over, At, Kept, Fields, RunShape, BlankFirst, StopKept, Blank
<1>6. CASE MonitorBegins \/ MonitorTooLate
  BY <1>0, <1>6 DEF MonitorBegins, Became, NothingToWrite, counters, MonitorTooLate, Files,
     At, Kept, Fields, RunShape, BlankFirst, StopKept, Blank
<1>7. CASE Polls
  BY <1>0, <1>7 DEF Polls, Polled, Files
<1>8. CASE MonitorFails
  BY <1>0, <1>8 DEF MonitorFails, Became, NothingToWrite, Faulted, At, Kept, Fields,
     RunShape, BlankFirst, StopKept, Blank
<1>9. CASE WroteFirst \/ WroteLast \/ WroteOn
  BY <1>0, <1>9 DEF WroteFirst, Wrote, Became, NothingToWrite, counters, WroteLast, Over,
     WroteOn, At, Kept, Fields, RunShape, BlankFirst, StopKept, Blank
<1>10. CASE StatusSetOn \/ StatusSetLast \/ StatusFails \/ StatusEnds
  BY <1>0, <1>10 DEF StatusSetOn, StatusSet, Became, NothingToWrite, counters,
     StatusSetLast, Over, StatusFails, StatusTooLate, Files, StatusEnds, At, Kept, Fields,
     RunShape, BlankFirst, StopKept, Blank
<1>11. CASE RecordsFailure \/ GivesUp \/ Floors \/ CallFails \/ Killed
  BY <1>0, <1>11 DEF RecordsFailure, Writing, Files, counters, GivesUp, Over,
     NothingToWrite, Floors, CallFails, Became, Killed, At, Kept, Fields, RunShape,
     BlankFirst, StopKept, Blank
<1>12. CASE UNCHANGED cycleVars
  BY <1>0, <1>12 DEF cycleVars, counters, At, Kept, Fields, RunShape, BlankFirst, StopKept,
     Blank
<1>13. QED
  BY <1>0, <1>1, <1>2, <1>3, <1>4, <1>5, <1>6, <1>7, <1>8, <1>9, <1>10, <1>11, <1>12 DEF
     Effect

\* The attempt of a retry is one more than the checkpoint says, until its
\* failure is recorded.
LEMMA StepRecorded ==
    ASSUME CycleTypeOK, RunShape, SessionsExist, RetryRecorded, [CycleNext]_cycleVars
    PROVE  RetryRecorded'
<1>0. Effect /\ Fields
  BY FieldsTyped, Effects
<1>1. CASE CronArrives \/ DuplicateArrives \/ SkipResume \/ MoveOn \/ SessionStops
  BY <1>0, <1>1 DEF CronArrives, counters, DuplicateArrives, SkipResume, MoveOn,
     SessionStops, At, Kept, Fields, RunShape, RetryRecorded, ToRetry, Monitored, Retryable,
     Rerouted
<1>2. CASE BeginsCycle \/ Remonitors \/ Retries \/ Reroutes
  BY <1>0, <1>2 DEF BeginsCycle, Started, NothingToWrite, Remonitors, ResumeBegins, Retries,
     Reroutes, At, Kept, Fields, RunShape, RetryRecorded, ToRetry, Monitored, Retryable,
     Rerouted
<1>3. CASE TimeOut \/ TimeIn
  BY <1>0, <1>3 DEF TimeOut, counters, TimeIn, At, Kept, Fields, RunShape, RetryRecorded,
     ToRetry, Monitored, Retryable, Rerouted
<1>4. CASE Yields \/ Takes
  BY <1>0, <1>4 DEF Yields, Over, NothingToWrite, Files, counters, Takes, Became, At, Kept,
     Fields, RunShape, RetryRecorded, ToRetry, Monitored, Retryable, Rerouted
<1>5. CASE Pauses \/ Reuses \/ CreatesNew \/ CreationFails \/ CycleRefused \/ ResumeRefused
  BY <1>0, <1>5 DEF Pauses, Writing, Returned, Files, counters, Reuses, CreatesWith,
     NewRetry, CreatesNew, Grown, CreationFails, Became, NothingToWrite, CycleRefused,
     Faulted, ResumeRefused, Over, At, Kept, Fields, RunShape, RetryRecorded, ToRetry,
     Monitored, Retryable, Rerouted
<1>6. CASE MonitorBegins \/ MonitorTooLate
  BY <1>0, <1>6 DEF MonitorBegins, Became, NothingToWrite, counters, MonitorTooLate, Files,
     At, Kept, Fields, RunShape, RetryRecorded, ToRetry, Monitored, Retryable, Rerouted
<1>7. CASE Polls
  BY <1>0, <1>7 DEF SessionsExist, Polls, Polled, Writing, Returned, Files, At, Kept,
     Fields, RunShape, RetryRecorded, ToRetry
<1>8. CASE MonitorFails
  BY <1>0, <1>8 DEF MonitorFails, Became, NothingToWrite, Faulted, At, Kept, Fields,
     RunShape, RetryRecorded, ToRetry, Monitored, Retryable, Rerouted
<1>9. CASE WroteFirst \/ WroteLast \/ WroteOn
  BY <1>0, <1>9 DEF WroteFirst, Wrote, Became, NothingToWrite, counters, WroteLast, Over,
     WroteOn, At, Kept, Fields, RunShape, RetryRecorded, ToRetry, Monitored, Retryable,
     Rerouted
<1>10. CASE StatusSetOn \/ StatusSetLast \/ StatusFails \/ StatusEnds
  BY <1>0, <1>10 DEF StatusSetOn, StatusSet, Became, NothingToWrite, counters,
     StatusSetLast, Over, StatusFails, StatusTooLate, Files, StatusEnds, At, Kept, Fields,
     RunShape, RetryRecorded, ToRetry, Monitored, Retryable, Rerouted
<1>11. CASE RecordsFailure \/ GivesUp \/ Floors \/ CallFails \/ Killed
  BY <1>0, <1>11 DEF RecordsFailure, Writing, Files, counters, GivesUp, Over,
     NothingToWrite, Floors, CallFails, Became, Killed, At, Kept, Fields, RunShape,
     RetryRecorded, ToRetry, Monitored, Retryable, Rerouted
<1>12. CASE UNCHANGED cycleVars
  BY <1>0, <1>12 DEF cycleVars, counters, At, Kept, Fields, RunShape, RetryRecorded,
     ToRetry, Monitored, Retryable, Rerouted
<1>13. QED
  BY <1>0, <1>1, <1>2, <1>3, <1>4, <1>5, <1>6, <1>7, <1>8, <1>9, <1>10, <1>11, <1>12 DEF
     Effect

\* The checkpoint keeps its type,
LEMMA CheckpointKept ==
    ASSUME CycleTypeOK, RunShape, SessionsExist, [CycleNext]_cycleVars
    PROVE  checkpoint' \in CheckpointType
<1>0. Effect /\ Fields
  BY FieldsTyped, Effects
<1>1. CASE CronArrives \/ DuplicateArrives \/ SkipResume \/ MoveOn \/ SessionStops
  BY <1>0, <1>1 DEF CronArrives, counters, DuplicateArrives, SkipResume, MoveOn,
     SessionStops, At, Kept, Fields
<1>2. CASE BeginsCycle \/ Remonitors \/ Retries \/ Reroutes
  BY <1>0, <1>2 DEF BeginsCycle, Started, NothingToWrite, Remonitors, ResumeBegins, Retries,
     Reroutes, At, Kept, Fields
<1>3. CASE TimeOut \/ TimeIn
  BY <1>0, <1>3 DEF TimeOut, counters, TimeIn, At, Kept, Fields
<1>4. CASE Yields \/ Takes
  BY <1>0, <1>4 DEF Yields, Over, NothingToWrite, Files, counters, Takes, Became, At, Kept,
     Fields
<1>5. CASE Pauses \/ Reuses \/ CreatesNew \/ CreationFails \/ CycleRefused \/ ResumeRefused
  BY <1>0, <1>5 DEF Pauses, Writing, Returned, Files, counters, Reuses, CreatesWith,
     NewRetry, CreatesNew, Grown, CreationFails, Became, NothingToWrite, CycleRefused,
     Faulted, ResumeRefused, Over, At, Kept, Fields
<1>6. CASE MonitorBegins \/ MonitorTooLate \/ Polls \/ MonitorFails
  BY <1>0, <1>6 DEF MonitorBegins, Became, NothingToWrite, counters, MonitorTooLate, Files,
     Polls, Polled, Writing, Returned, MonitorFails, Faulted, At, Kept, Fields
<1>7. CASE WroteFirst \/ WroteLast \/ WroteOn
  BY <1>0, <1>7 DEF WroteFirst, Wrote, Became, NothingToWrite, counters, WroteLast, Over,
     WroteOn, At, Kept, Fields
<1>8. CASE StatusSetOn \/ StatusSetLast \/ StatusFails \/ StatusEnds
  BY <1>0, <1>8 DEF StatusSetOn, StatusSet, Became, NothingToWrite, counters, StatusSetLast,
     Over, StatusFails, StatusTooLate, Files, StatusEnds, At, Kept, Fields
<1>9. CASE RecordsFailure \/ GivesUp \/ Floors \/ CallFails \/ Killed
  BY <1>0, <1>9 DEF RecordsFailure, Writing, Files, counters, GivesUp, Over, NothingToWrite,
     Floors, CallFails, Became, Killed, At, Kept, Fields
<1>10. CASE UNCHANGED cycleVars
  BY <1>0, <1>10 DEF cycleVars, counters, At, Kept, Fields
<1>11. QED
  BY <1>0, <1>1, <1>2, <1>3, <1>4, <1>5, <1>6, <1>7, <1>8, <1>9, <1>10 DEF Effect

\* and so do the status, the lease and the group.
LEMMA StatusTyped ==
    ASSUME CycleTypeOK, RunShape, SessionsExist, [CycleNext]_cycleVars
    PROVE  status' \in ProjectStatus /\ current' \in BOOLEAN
           /\ leaseLeft' \in 0 .. TTL /\ pending' \subseteq {"cycle", "resume"}
<1>0. Effect /\ Fields
      /\ status \in ProjectStatus /\ current \in BOOLEAN /\ leaseLeft \in 0 .. TTL /\ leaseLeft \in Nat
      /\ TTL \in 0 .. TTL
      /\ pending \subseteq {"cycle", "resume"} /\ (run.pc = "status" => run.st \in ProjectStatus)
  BY FieldsTyped, Effects DEF CycleTypeOK, RunShape, RunType, At
<1>1. CASE CronArrives \/ DuplicateArrives \/ SkipResume \/ MoveOn \/ SessionStops
  BY <1>0, <1>1 DEF CronArrives, counters, DuplicateArrives, SkipResume, MoveOn,
     SessionStops, At, Kept, Fields, ProjectStatus
<1>2. CASE BeginsCycle \/ Remonitors \/ Retries \/ Reroutes
  BY <1>0, <1>2 DEF BeginsCycle, Started, NothingToWrite, Remonitors, ResumeBegins, Retries,
     Reroutes, At, Kept, Fields, ProjectStatus
<1>3. CASE TimeOut
  BY <1>0, <1>3 DEF TimeOut, counters, At, Kept, Fields, ProjectStatus
<1>4. CASE TimeIn
  BY <1>0, <1>4 DEF TimeIn, counters, At, Kept, Fields, ProjectStatus
<1>5. CASE Yields \/ Takes
  BY <1>0, <1>5 DEF Yields, Over, NothingToWrite, Files, counters, Takes, Became, At, Kept,
     Fields, ProjectStatus
<1>6. CASE Pauses \/ Reuses \/ CreatesNew \/ CreationFails \/ CycleRefused \/ ResumeRefused
  BY <1>0, <1>6 DEF Pauses, Writing, Returned, Files, counters, Reuses, CreatesWith,
     NewRetry, CreatesNew, Grown, CreationFails, Became, NothingToWrite, CycleRefused,
     Faulted, ResumeRefused, Over, At, Kept, Fields, ProjectStatus
<1>7. CASE MonitorBegins \/ MonitorTooLate \/ Polls \/ MonitorFails
  BY <1>0, <1>7 DEF MonitorBegins, Became, NothingToWrite, counters, MonitorTooLate, Files,
     Polls, Polled, Writing, Returned, MonitorFails, Faulted, At, Kept, Fields,
     ProjectStatus
<1>8. CASE WroteFirst \/ WroteLast \/ WroteOn
  BY <1>0, <1>8 DEF WroteFirst, Wrote, Became, NothingToWrite, counters, WroteLast, Over,
     WroteOn, At, Kept, Fields, ProjectStatus
<1>9. CASE StatusSetOn \/ StatusSetLast \/ StatusFails \/ StatusEnds
  BY <1>0, <1>9 DEF StatusSetOn, StatusSet, Became, NothingToWrite, counters, StatusSetLast,
     Over, StatusFails, StatusTooLate, Files, StatusEnds, At, Kept, Fields, ProjectStatus
<1>10. CASE RecordsFailure \/ GivesUp \/ Floors \/ CallFails \/ Killed
  BY <1>0, <1>10 DEF RecordsFailure, Writing, Files, counters, GivesUp, Over,
     NothingToWrite, Floors, CallFails, Became, Killed, At, Kept, Fields, ProjectStatus
<1>11. CASE UNCHANGED cycleVars
  BY <1>0, <1>11 DEF cycleVars, counters, At, Kept, Fields, ProjectStatus
<1>12. QED
  BY <1>0, <1>1, <1>2, <1>3, <1>4, <1>5, <1>6, <1>7, <1>8, <1>9, <1>10, <1>11 DEF Effect

\* Each step keeps the balance of sessions: what creates one had announced it
\* by MayCreate, and what announces it again is a fault, a crash or a dispatch
\* that is overtaken.
LEMMA StepAccounted ==
    ASSUME CycleTypeOK, RunShape, SessionsExist, LeaseHolds, Accounted, [CycleNext]_cycleVars
    PROVE  Accounted'
<1>0. Effect /\ Fields
  BY FieldsTyped, Effects
<1>1. PICK n \in Nat, n2 \in Nat, f \in Nat, f2 \in Nat, c \in Nat, c2 \in Nat,
           v \in Nat, v2 \in Nat :
        /\ n = Len(sessions) /\ f = faults /\ c = crashes /\ v = overtakings
        /\ n2 = Len(sessions') /\ f2 = faults' /\ c2 = crashes' /\ v2 = overtakings'
  <2>1. faults \in Nat /\ crashes \in Nat /\ overtakings \in Nat
    BY DEF CycleTypeOK
  <2>2. faults' \in Nat /\ crashes' \in Nat /\ overtakings' \in Nat
    BY StepCounters
  <2>3. sessions \in Seq({"active", "stopped"}) /\ sessions' \in Seq({"active", "stopped"})
    BY StepSequence DEF CycleTypeOK
  <2>4. Len(sessions) \in Nat /\ Len(sessions') \in Nat
    BY <2>3
  <2>5. QED
    BY <2>1, <2>2, <2>4
<1>2. PICK m \in {0, 1}, m2 \in {0, 1}, o \in {0, 1}, o2 \in {0, 1} :
        /\ m = Count(MayCreate) /\ m2 = Count(MayCreate)'
        /\ o = Count(Overtakes) /\ o2 = Count(Overtakes)'
  BY DEF Count
<1>3. n + m + o <= 1 + (f + c + v)
  BY <1>1, <1>2 DEF Accounted, Bounds
<1>4. SUFFICES n2 + m2 + o2 <= 1 + (f2 + c2 + v2)
  BY <1>1, <1>2 DEF Accounted, Bounds
<1>5. CASE CronArrives \/ DuplicateArrives \/ SkipResume \/ MoveOn \/ SessionStops
  <2>1. Overtakes' => Overtakes
    BY <1>0, <1>5 DEF CronArrives, counters, DuplicateArrives, SkipResume, MoveOn,
       SessionStops, Overtakes, Kept, At, RunShape, Fields
  <2>2. MayCreate' => MayCreate
    BY <1>0, <1>5 DEF CronArrives, counters, DuplicateArrives, SkipResume, MoveOn,
       SessionStops, At, Kept, Fields, RunShape, LeaseHolds, Overtakes, MayCreate,
       Resumable, Retryable, Rerouted, Monitored
  <2>3. o2 <= o /\ m2 <= m
    BY <1>2, <2>1, <2>2 DEF Count
  <2>4. n2 = n /\ f2 = f /\ c2 = c /\ v2 = v
    BY <1>1, <1>5 DEF CronArrives, counters, DuplicateArrives, SkipResume, MoveOn,
       SessionStops
  <2>5. QED
    BY <1>3, <2>3, <2>4
<1>6. CASE BeginsCycle \/ TimeOut \/ TimeIn
  <2>1. Overtakes' => Overtakes
    BY <1>0, <1>6 DEF BeginsCycle, Started, NothingToWrite, TimeOut, counters, TimeIn,
       Overtakes, Kept, At, RunShape, Fields
  <2>2. MayCreate' => MayCreate
    BY <1>0, <1>6 DEF BeginsCycle, Started, NothingToWrite, TimeOut, counters, TimeIn, At,
       Kept, Fields, RunShape, LeaseHolds, Overtakes, MayCreate, Resumable, Retryable,
       Rerouted, Monitored
  <2>3. o2 <= o /\ m2 <= m
    BY <1>2, <2>1, <2>2 DEF Count
  <2>4. n2 = n /\ f2 = f /\ c2 = c /\ v2 = v
    BY <1>1, <1>6 DEF BeginsCycle, Started, TimeOut, counters, TimeIn
  <2>5. QED
    BY <1>3, <2>3, <2>4
<1>7. CASE Remonitors \/ Retries \/ Reroutes
  <2>1. Overtakes' <=> "cycle" \in pending
    BY <1>0, <1>7 DEF Remonitors, ResumeBegins, Started, NothingToWrite, Retries, Reroutes,
       Overtakes, Kept, At, RunShape, Fields
  <2>2. MayCreate' => MayCreate
    BY <1>0, <1>7 DEF Remonitors, ResumeBegins, Started, NothingToWrite, Retries, Reroutes,
       At, Kept, Fields, RunShape, LeaseHolds, Overtakes, MayCreate, Resumable, Retryable,
       Rerouted, Monitored
  <2>3. m2 <= m
    BY <1>2, <2>1, <2>2 DEF Count
  <2>4. n2 = n /\ f2 = f /\ c2 = c /\ v2 = v + o2
    BY <1>1, <1>2, <2>1, <1>7 DEF Remonitors, ResumeBegins, Started, Retries, Reroutes,
       Count
  <2>5. QED
    BY <1>3, <2>3, <2>4
<1>8. CASE Yields \/ Takes
  <2>1. Overtakes' => Overtakes
    BY <1>0, <1>8 DEF Yields, Over, NothingToWrite, Files, counters, Takes, Became,
       Overtakes, Kept, At, RunShape, Fields
  <2>2. MayCreate' => MayCreate
    BY <1>0, <1>8 DEF Yields, Over, NothingToWrite, Files, counters, Takes, Became, At,
       Kept, Fields, RunShape, LeaseHolds, Overtakes, MayCreate, Resumable, Retryable,
       Rerouted, Monitored
  <2>3. o2 <= o /\ m2 <= m
    BY <1>2, <2>1, <2>2 DEF Count
  <2>4. n2 = n /\ f2 = f /\ c2 = c /\ v2 = v
    BY <1>1, <1>8 DEF Yields, Files, counters, Takes
  <2>5. QED
    BY <1>3, <2>3, <2>4
<1>9. CASE Pauses \/ Reuses
  <2>1. Overtakes' => Overtakes
    BY <1>0, <1>9 DEF Pauses, Writing, Returned, Files, counters, Reuses, CreatesWith,
       NewRetry, Overtakes, Kept, At, RunShape, Fields
  <2>2. MayCreate' => MayCreate
    BY <1>0, <1>9 DEF Pauses, Writing, Returned, Files, counters, Reuses, CreatesWith,
       NewRetry, At, Kept, Fields, RunShape, LeaseHolds, Overtakes, MayCreate, Resumable,
       Retryable, Rerouted, Monitored
  <2>3. o2 <= o /\ m2 <= m
    BY <1>2, <2>1, <2>2 DEF Count
  <2>4. n2 = n /\ f2 = f /\ c2 = c /\ v2 = v
    BY <1>1, <1>9 DEF Pauses, Returned, Files, counters, Reuses, CreatesWith
  <2>5. QED
    BY <1>3, <2>3, <2>4
<1>10. CASE CreatesNew
  <2>1. Overtakes' => Overtakes
    BY <1>0, <1>10 DEF CreatesNew, CreatesWith, NewRetry, Grown, Overtakes, Kept, At,
       RunShape, Fields
  <2>2. MayCreate /\ ~MayCreate'
    BY <1>0, <1>10 DEF CreatesNew, CreatesWith, NewRetry, Grown, At, Kept, Fields, RunShape,
       LeaseHolds, Overtakes, MayCreate, Resumable, Retryable, Rerouted, Monitored
  <2>3. o2 <= o /\ m = 1 /\ m2 = 0
    BY <1>2, <2>1, <2>2 DEF Count
  <2>4. n2 = n + 1 /\ f2 = f /\ c2 = c /\ v2 = v
    BY <1>1, <1>10 DEF CreatesNew, CreatesWith, Grown
  <2>5. QED
    BY <1>3, <2>3, <2>4
<1>11. CASE CreationFails
  <2>1. Overtakes' => Overtakes
    BY <1>0, <1>11 DEF CreationFails, Became, NothingToWrite, NewRetry, Grown, Overtakes,
       Kept, At, RunShape, Fields
  <2>2. MayCreate
    BY <1>0, <1>11 DEF CreationFails, Became, NothingToWrite, NewRetry, Grown, At, Kept,
       Fields, RunShape, LeaseHolds, Overtakes, MayCreate, Resumable, Retryable, Rerouted,
       Monitored
  <2>3. o2 <= o /\ m = 1
    BY <1>2, <2>1, <2>2 DEF Count
  <2>4. n2 \in {n, n + 1} /\ f2 = f + 1 /\ c2 = c /\ v2 = v
    BY <1>1, <1>11 DEF CreationFails, Grown
  <2>5. QED
    BY <1>3, <2>3, <2>4
<1>12. CASE CycleRefused \/ ResumeRefused
  <2>1. Overtakes' => Overtakes
    BY <1>0, <1>12 DEF CycleRefused, Writing, Faulted, ResumeRefused, Over, NothingToWrite,
       Overtakes, Kept, At, RunShape, Fields
  <2>2. MayCreate' => MayCreate
    BY <1>0, <1>12 DEF CycleRefused, Writing, Faulted, ResumeRefused, Over, NothingToWrite,
       At, Kept, Fields, RunShape, LeaseHolds, Overtakes, MayCreate, Resumable, Retryable,
       Rerouted, Monitored
  <2>3. o2 <= o /\ m2 <= m
    BY <1>2, <2>1, <2>2 DEF Count
  <2>4. n2 = n /\ f2 = f + 1 /\ c2 = c /\ v2 = v
    BY <1>1, <1>12 DEF CycleRefused, Faulted, ResumeRefused
  <2>5. QED
    BY <1>3, <2>3, <2>4
<1>13. CASE MonitorBegins \/ MonitorTooLate
  <2>1. Overtakes' => Overtakes
    BY <1>0, <1>13 DEF MonitorBegins, Became, NothingToWrite, counters, MonitorTooLate,
       Files, Overtakes, Kept, At, RunShape, Fields
  <2>2. MayCreate' => MayCreate
    BY <1>0, <1>13 DEF MonitorBegins, Became, NothingToWrite, counters, MonitorTooLate,
       Files, At, Kept, Fields, RunShape, LeaseHolds, Overtakes, MayCreate, Resumable,
       Retryable, Rerouted, Monitored
  <2>3. o2 <= o /\ m2 <= m
    BY <1>2, <2>1, <2>2 DEF Count
  <2>4. n2 = n /\ f2 = f /\ c2 = c /\ v2 = v
    BY <1>1, <1>13 DEF MonitorBegins, counters, MonitorTooLate, Files
  <2>5. QED
    BY <1>3, <2>3, <2>4
<1>14. CASE Polls
  <2>1. Overtakes' => Overtakes
    BY <1>0, <1>14 DEF Polls, Polled, Writing, Returned, Files, Overtakes, Kept, At,
       RunShape, Fields
  <2>2. MayCreate' => MayCreate
    BY <1>0, <1>14 DEF Polls, Polled, Writing, Returned, Files, At, Kept, Fields, RunShape,
       LeaseHolds, Overtakes, MayCreate, Resumable, Retryable, Rerouted, Monitored,
       SessionsExist, Reusable
  <2>3. o2 <= o /\ m2 <= m
    BY <1>2, <2>1, <2>2 DEF Count
  <2>4. n2 = n /\ f2 >= f /\ c2 = c /\ v2 = v
    <3>1. UNCHANGED faults \/ (faults < MaxFault /\ faults' = faults + 1)
      BY <1>14 DEF Polls, Polled
    <3>2. UNCHANGED <<sessions, crashes, overtakings>>
      BY <1>14 DEF Polls, Polled, Files
    <3>3. QED BY <1>1, <3>1, <3>2
  <2>5. QED
    BY <1>3, <2>3, <2>4
<1>15. CASE MonitorFails \/ CallFails
  <2>1. Overtakes' => Overtakes
    BY <1>0, <1>15 DEF MonitorFails, Became, NothingToWrite, Faulted, CallFails, Overtakes,
       Kept, At, RunShape, Fields
  <2>2. o2 <= o
    BY <1>2, <2>1 DEF Count
  <2>3. n2 = n /\ f2 = f + 1 /\ c2 = c /\ v2 = v
    BY <1>1, <1>15 DEF MonitorFails, Faulted, CallFails
  <2>4. QED
    BY <1>3, <2>2, <2>3
<1>16. CASE Killed
  <2>1. Overtakes' => Overtakes
    BY <1>0, <1>16 DEF Killed, Over, NothingToWrite, Files, Overtakes, Kept, At, RunShape,
       Fields
  <2>2. o2 <= o
    BY <1>2, <2>1 DEF Count
  <2>3. n2 = n /\ f2 = f /\ c2 = c + 1 /\ v2 = v
    BY <1>1, <1>16 DEF Killed, Files
  <2>4. QED
    BY <1>3, <2>2, <2>3
<1>17. CASE WroteFirst \/ WroteOn \/ StatusSetOn
  <2>1. Overtakes' => Overtakes
    BY <1>0, <1>17 DEF WroteFirst, Wrote, Became, NothingToWrite, counters, WroteOn,
       StatusSetOn, StatusSet, Overtakes, Kept, At, RunShape, Fields
  <2>2. MayCreate' => MayCreate
    BY <1>0, <1>17 DEF WroteFirst, Wrote, Became, NothingToWrite, counters, WroteOn,
       StatusSetOn, StatusSet, At, Kept, Fields, RunShape, LeaseHolds, Overtakes, MayCreate,
       Resumable, Retryable, Rerouted, Monitored
  <2>3. o2 <= o /\ m2 <= m
    BY <1>2, <2>1, <2>2 DEF Count
  <2>4. n2 = n /\ f2 = f /\ c2 = c /\ v2 = v
    BY <1>1, <1>17 DEF WroteFirst, Wrote, counters, WroteOn, StatusSetOn, StatusSet
  <2>5. QED
    BY <1>3, <2>3, <2>4
<1>18. CASE StatusFails \/ StatusEnds
  <2>1. Overtakes' => Overtakes
    BY <1>0, <1>18 DEF StatusFails, StatusTooLate, Became, NothingToWrite, Files, counters,
       StatusEnds, Over, Overtakes, Kept, At, RunShape, Fields
  <2>2. MayCreate' => MayCreate
    BY <1>0, <1>18 DEF StatusFails, StatusTooLate, Became, NothingToWrite, Files, counters,
       StatusEnds, Over, At, Kept, Fields, RunShape, LeaseHolds, Overtakes, MayCreate,
       Resumable, Retryable, Rerouted, Monitored
  <2>3. o2 <= o /\ m2 <= m
    BY <1>2, <2>1, <2>2 DEF Count
  <2>4. n2 = n /\ f2 = f /\ c2 = c /\ v2 = v
    BY <1>1, <1>18 DEF StatusFails, StatusTooLate, Files, counters, StatusEnds
  <2>5. QED
    BY <1>3, <2>3, <2>4
<1>19. CASE WroteLast \/ StatusSetLast
  <2>1. ~Overtakes'
    BY <1>0, <1>19 DEF WroteLast, Wrote, Over, NothingToWrite, counters, StatusSetLast,
       StatusSet, Overtakes, Kept, At, RunShape, Fields
  <2>2. MayCreate' => MayCreate \/ Overtakes
    BY <1>0, <1>19 DEF WroteLast, Wrote, Over, NothingToWrite, counters, StatusSetLast,
       StatusSet, At, Kept, Fields, RunShape, LeaseHolds, Overtakes, MayCreate, Resumable,
       Retryable, Rerouted, Monitored
  <2>3. m2 + o2 <= m + o
    BY <1>2, <2>1, <2>2 DEF Count
  <2>4. n2 = n /\ f2 = f /\ c2 = c /\ v2 = v
    BY <1>1, <1>19 DEF WroteLast, Wrote, counters, StatusSetLast, StatusSet
  <2>5. QED
    BY <1>3, <2>3, <2>4
<1>20. CASE Floors
  <2>1. ~Overtakes'
    BY <1>0, <1>20 DEF Floors, Over, NothingToWrite, counters, Overtakes, Kept, At, RunShape,
       Fields
  <2>2. MayCreate' => MayCreate \/ Overtakes
    <3>1. Retryable(checkpoint)' => Retryable(checkpoint)
      BY <1>0, <1>20 DEF Floors, Fields, Retryable
    <3>2. Rerouted(checkpoint)' => Rerouted(checkpoint)
      BY <1>0, <1>20 DEF Floors, Rerouted
    <3>3. QED
      BY <1>0, <1>20, <3>1, <3>2 DEF Floors, Over, RunShape, LeaseHolds, Overtakes, MayCreate,
         Resumable, At, Fields
  <2>3. m2 + o2 <= m + o
    BY <1>2, <2>1, <2>2 DEF Count
  <2>4. n2 = n /\ f2 = f /\ c2 = c /\ v2 = v
    BY <1>1, <1>20 DEF Floors, counters
  <2>5. QED
    BY <1>3, <2>3, <2>4
<1>21. CASE RecordsFailure \/ GivesUp
  <2>1. Overtakes' => Overtakes
    BY <1>0, <1>21 DEF RecordsFailure, Writing, Files, counters, GivesUp, Over,
       NothingToWrite, Overtakes, Kept, At, RunShape, Fields
  <2>2. MayCreate' => MayCreate
    BY <1>0, <1>21 DEF RecordsFailure, Writing, Files, counters, GivesUp, Over,
       NothingToWrite, At, Kept, Fields, RunShape, LeaseHolds, Overtakes, MayCreate,
       Resumable, Retryable, Rerouted, Monitored
  <2>3. o2 <= o /\ m2 <= m
    BY <1>2, <2>1, <2>2 DEF Count
  <2>4. n2 = n /\ f2 = f /\ c2 = c /\ v2 = v
    BY <1>1, <1>21 DEF RecordsFailure, Files, counters, GivesUp
  <2>5. QED
    BY <1>3, <2>3, <2>4
<1>22. CASE UNCHANGED cycleVars
  <2>1. Overtakes' => Overtakes
    BY <1>0, <1>22 DEF cycleVars, counters, Overtakes, Kept, At, RunShape, Fields
  <2>2. MayCreate' => MayCreate
    BY <1>0, <1>22 DEF cycleVars, counters, At, Kept, Fields, RunShape, LeaseHolds,
       Overtakes, MayCreate, Resumable, Retryable, Rerouted, Monitored
  <2>3. o2 <= o /\ m2 <= m
    BY <1>2, <2>1, <2>2 DEF Count
  <2>4. n2 = n /\ f2 = f /\ c2 = c /\ v2 = v
    BY <1>1, <1>22 DEF cycleVars, counters
  <2>5. QED
    BY <1>3, <2>3, <2>4
<1>23. QED
  BY <1>0, <1>5, <1>6, <1>7, <1>8, <1>9, <1>10, <1>11, <1>12, <1>13, <1>14, <1>15, <1>16,
     <1>17, <1>18, <1>19, <1>20, <1>21, <1>22 DEF
     Effect

\* The level of the retries is a number.
LEMMA LevelTyped ==
    ASSUME CycleTypeOK, RunShape, SessionsExist, RetryRecorded, [CycleNext]_cycleVars
    PROVE  /\ RetryLevel \in Nat /\ RetryLevel' \in Nat
           /\ run.attempt \in 0 .. MaxRetries /\ checkpoint.attempt \in 0 .. MaxRetries
<1>1. Fields /\ RetryRecorded'
  BY FieldsTyped, StepRecorded
<1>2. run' \in RunType /\ checkpoint' \in CheckpointType
  BY <1>1, CheckpointKept DEF Fields
<1>3. run'.attempt \in 0 .. MaxRetries /\ checkpoint'.attempt \in 0 .. MaxRetries
  BY <1>2 DEF RunType, CheckpointType
<1>4. run.attempt \in 0 .. MaxRetries /\ checkpoint.attempt \in 0 .. MaxRetries
  BY <1>1 DEF Fields, RunType, CheckpointType
<1>5. RetryLevel \in Nat
  BY <1>4 DEF RetryLevel, RetryRecorded
<1>6. RetryLevel' \in Nat
  BY <1>1, <1>3 DEF RetryLevel, RetryRecorded
<1>7. QED
  BY <1>4, <1>5, <1>6

\* Each step keeps the balance of retries: a retry raises the level, and what
\* lowers it is a crash or a dispatch that is overtaken.
LEMMA StepBalance ==
    ASSUME CycleTypeOK, RunShape, SessionsExist, RetryRecorded, RetryBalance,
           [CycleNext]_cycleVars
    PROVE  RetryBalance'
<1>0. Effect /\ Fields /\ run.attempt \in 0 .. MaxRetries /\ checkpoint.attempt \in 0 .. MaxRetries
      /\ RetryRecorded'
  BY FieldsTyped, Effects, LevelTyped, StepRecorded
<1>1. PICK r \in Nat, r2 \in Nat, c \in Nat, c2 \in Nat, v \in Nat, v2 \in Nat :
        /\ r = retries /\ c = crashes /\ v = overtakings
        /\ r2 = retries' /\ c2 = crashes' /\ v2 = overtakings'
  <2>1. retries \in Nat /\ crashes \in Nat /\ overtakings \in Nat
    BY DEF CycleTypeOK
  <2>2. retries' \in Nat /\ crashes' \in Nat /\ overtakings' \in Nat
    BY StepCounters
  <2>3. QED BY <2>1, <2>2
<1>2. PICK x \in Nat,
         x2 \in Nat : x = MaxRetries * v /\ x2 = MaxRetries * v2 /\ (v2 = v => x2 = x)
  OBVIOUS
<1>3. PICK p \in Nat, p2 \in Nat, l \in Nat, l2 \in Nat :
        /\ p = (IF Overtakes THEN MaxRetries ELSE 0) /\ l = RetryLevel
        /\ p2 = (IF Overtakes' THEN MaxRetries ELSE 0) /\ l2 = RetryLevel'
  BY LevelTyped
<1>4. MaxRetries * (v + 1) = MaxRetries * v + MaxRetries
  OBVIOUS
<1>5. r + p <= x + c + l
  BY <1>1, <1>2, <1>3 DEF RetryBalance
<1>6. SUFFICES r2 + p2 <= x2 + c2 + l2
  BY <1>1, <1>2, <1>3 DEF RetryBalance
<1>7. CASE CronArrives \/ DuplicateArrives \/ SkipResume \/ MoveOn \/ SessionStops
  <2>1. r2 = r /\ c2 = c /\ v2 = v
    BY <1>1, <1>7 DEF CronArrives, counters, DuplicateArrives, SkipResume, MoveOn,
       SessionStops
  <2>2. p2 + l <= p + l2
    <3>1. CASE CronArrives
      BY <1>0, <1>3, <3>1 DEF CronArrives, counters, At, Kept, Fields, RunShape,
         RetryRecorded, RetryLevel, Overtakes, ToRetry, Monitored, Retryable, Rerouted
    <3>2. CASE DuplicateArrives
      BY <1>0, <1>3, <3>2 DEF DuplicateArrives, At, Kept, Fields, RunShape, RetryRecorded,
         RetryLevel, Overtakes, ToRetry, Monitored, Retryable, Rerouted
    <3>3. CASE SkipResume
      BY <1>0, <1>3, <3>3 DEF SkipResume, counters, At, Kept, Fields, RunShape,
         RetryRecorded, RetryLevel, Overtakes, ToRetry, Monitored, Retryable, Rerouted
    <3>4. CASE MoveOn
      BY <1>0, <1>3, <3>4 DEF MoveOn, counters, At, Kept, Fields, RunShape, RetryRecorded,
         RetryLevel, Overtakes, ToRetry, Monitored, Retryable, Rerouted
    <3>5. CASE SessionStops
      BY <1>0, <1>3, <3>5 DEF SessionStops, counters, At, Kept, Fields, RunShape,
         RetryRecorded, RetryLevel, Overtakes, ToRetry, Monitored, Retryable, Rerouted
    <3>6. QED BY <1>7, <3>1, <3>2, <3>3, <3>4, <3>5
  <2>3. QED
    BY <1>2, <1>5, <2>1, <2>2
<1>8. CASE BeginsCycle \/ TimeOut \/ TimeIn
  <2>1. r2 = r /\ c2 = c /\ v2 = v
    BY <1>1, <1>8 DEF BeginsCycle, Started, TimeOut, counters, TimeIn
  <2>2. p2 + l <= p + l2
    <3>1. CASE BeginsCycle
      BY <1>0, <1>3, <3>1 DEF BeginsCycle, Started, NothingToWrite, At, Kept, Fields,
         RunShape, RetryRecorded, RetryLevel, Overtakes, ToRetry, Monitored, Retryable,
         Rerouted
    <3>2. CASE TimeOut
      BY <1>0, <1>3, <3>2 DEF TimeOut, counters, At, Kept, Fields, RunShape, RetryRecorded,
         RetryLevel, Overtakes, ToRetry, Monitored, Retryable, Rerouted
    <3>3. CASE TimeIn
      BY <1>0, <1>3, <3>3 DEF TimeIn, counters, At, Kept, Fields, RunShape, RetryRecorded,
         RetryLevel, Overtakes, ToRetry, Monitored, Retryable, Rerouted
    <3>4. QED BY <1>8, <3>1, <3>2, <3>3
  <2>3. QED
    BY <1>2, <1>5, <2>1, <2>2
<1>9. CASE Remonitors \/ Retries \/ Reroutes
  <2>1. r2 = r /\ c2 = c /\ v2 = v + Count("cycle" \in pending)
    BY <1>1, <1>9 DEF Remonitors, ResumeBegins, Started, Retries, Reroutes
  <2>2. x2 = x + (IF "cycle" \in pending THEN MaxRetries ELSE 0)
    BY <1>1, <1>2, <2>1, <1>4 DEF Count
  <2>3. IF "cycle" \in pending THEN p2 = MaxRetries /\ l = 0 ELSE p2 = 0 /\ l2 = l
    BY <1>0, <1>3, <1>9 DEF Remonitors, ResumeBegins, Started, NothingToWrite, Retries,
       Reroutes, At, Kept, Fields, RunShape, RetryRecorded, RetryLevel, Overtakes, ToRetry,
       Monitored, Retryable, Rerouted
  <2>4. QED
    BY <1>5, <2>1, <2>2, <2>3
<1>10. CASE Yields \/ Takes
  <2>1. r2 = r /\ c2 = c /\ v2 = v
    BY <1>1, <1>10 DEF Yields, Files, counters, Takes
  <2>2. p2 + l <= p + l2
    <3>1. CASE Yields
      BY <1>0, <1>3, <3>1 DEF Yields, Over, NothingToWrite, Files, counters, At, Kept,
         Fields, RunShape, RetryRecorded, RetryLevel, Overtakes, ToRetry, Monitored,
         Retryable, Rerouted
    <3>2. CASE Takes
      BY <1>0, <1>3, <3>2 DEF Takes, Became, NothingToWrite, counters, At, Kept, Fields,
         RunShape, RetryRecorded, RetryLevel, Overtakes, ToRetry, Monitored, Retryable,
         Rerouted
    <3>3. QED BY <1>10, <3>1, <3>2
  <2>3. QED
    BY <1>2, <1>5, <2>1, <2>2
<1>11. CASE Reuses \/ CreatesNew \/ CreationFails
  <2>1. r2 = r + Count(run.retrying) /\ c2 = c /\ v2 = v
    BY <1>1, <1>11 DEF Reuses, CreatesWith, NewRetry, CreatesNew, Grown, CreationFails
  <2>2. p2 = p /\ l2 = l + Count(run.retrying)
    <3>1. CASE Reuses
      BY <1>0, <1>3, <3>1 DEF Reuses, CreatesWith, NewRetry, At, Kept, Fields, RunShape,
         RetryRecorded, RetryLevel, Overtakes, ToRetry, Monitored, Retryable, Rerouted,
         Count
    <3>2. CASE CreatesNew
      BY <1>0, <1>3, <3>2 DEF CreatesNew, CreatesWith, NewRetry, Grown, At, Kept, Fields,
         RunShape, RetryRecorded, RetryLevel, Overtakes, ToRetry, Monitored, Retryable,
         Rerouted, Count
    <3>3. CASE CreationFails
      BY <1>0, <1>3, <3>3 DEF CreationFails, Became, NothingToWrite, NewRetry, Grown, At,
         Kept, Fields, RunShape, RetryRecorded, RetryLevel, Overtakes, ToRetry, Monitored,
         Retryable, Rerouted, Count
    <3>4. QED BY <1>11, <3>1, <3>2, <3>3
  <2>3. QED
    BY <1>2, <1>5, <2>1, <2>2 DEF Count
<1>12. CASE Pauses \/ CycleRefused \/ ResumeRefused
  <2>1. r2 = r /\ c2 = c /\ v2 = v
    BY <1>1, <1>12 DEF Pauses, Returned, Files, counters, CycleRefused, Faulted,
       ResumeRefused
  <2>2. p2 + l <= p + l2
    <3>1. CASE Pauses
      BY <1>0, <1>3, <3>1 DEF Pauses, Writing, Returned, Files, counters, At, Kept, Fields,
         RunShape, RetryRecorded, RetryLevel, Overtakes, ToRetry, Monitored, Retryable,
         Rerouted
    <3>2. CASE CycleRefused
      BY <1>0, <1>3, <3>2 DEF CycleRefused, Writing, Faulted, At, Kept, Fields, RunShape,
         RetryRecorded, RetryLevel, Overtakes, ToRetry, Monitored, Retryable, Rerouted
    <3>3. CASE ResumeRefused
      BY <1>0, <1>3, <3>3 DEF ResumeRefused, Over, NothingToWrite, Faulted, At, Kept,
         Fields, RunShape, RetryRecorded, RetryLevel, Overtakes, ToRetry, Monitored,
         Retryable, Rerouted
    <3>4. QED BY <1>12, <3>1, <3>2, <3>3
  <2>3. QED
    BY <1>2, <1>5, <2>1, <2>2
<1>13. CASE MonitorBegins \/ MonitorTooLate \/ MonitorFails
  <2>1. r2 = r /\ c2 = c /\ v2 = v
    BY <1>1, <1>13 DEF MonitorBegins, counters, MonitorTooLate, Files, MonitorFails, Faulted
  <2>2. p2 + l <= p + l2
    <3>1. CASE MonitorBegins
      BY <1>0, <1>3, <3>1 DEF MonitorBegins, Became, NothingToWrite, counters, At, Kept,
         Fields, RunShape, RetryRecorded, RetryLevel, Overtakes, ToRetry, Monitored,
         Retryable, Rerouted
    <3>2. CASE MonitorTooLate
      BY <1>0, <1>3, <3>2 DEF MonitorTooLate, Became, NothingToWrite, Files, counters, At,
         Kept, Fields, RunShape, RetryRecorded, RetryLevel, Overtakes, ToRetry, Monitored,
         Retryable, Rerouted
    <3>3. CASE MonitorFails
      BY <1>0, <1>3, <3>3 DEF MonitorFails, Became, NothingToWrite, Faulted, At, Kept,
         Fields, RunShape, RetryRecorded, RetryLevel, Overtakes, ToRetry, Monitored,
         Retryable, Rerouted
    <3>4. QED BY <1>13, <3>1, <3>2, <3>3
  <2>3. QED
    BY <1>2, <1>5, <2>1, <2>2
<1>14. CASE CallFails
  <2>1. /\ run.pc # "idle" /\ run'.pc = "fail" /\ Kept
        /\ UNCHANGED <<pending, overtakings, crashes, retries>>
    BY <1>14 DEF CallFails, Became
  <2>2. r2 = r /\ c2 = c /\ v2 = v
    BY <1>1, <2>1
  <2>3. p2 = p
    BY <1>3, <2>1 DEF Kept, Overtakes
  <2>4. l <= l2
    BY <1>0, <1>3, <2>1 DEF Kept, RetryLevel, RetryRecorded, Fields, At
  <2>5. QED
    BY <1>2, <1>5, <2>2, <2>3, <2>4
<1>15. CASE Polls
  <2>1. /\ run.pc = "monitor" /\ run'.pc = "write" /\ Kept
        /\ UNCHANGED <<checkpoint, pending, overtakings, crashes, retries>>
    BY <1>15 DEF Polls, Polled, Writing, Files
  <2>2. r2 = r /\ c2 = c /\ v2 = v
    BY <1>1, <2>1
  <2>3. p2 = p /\ l2 = l
    BY <1>3, <2>1 DEF Kept, Overtakes, RetryLevel, At
  <2>4. QED
    BY <1>2, <1>5, <2>2, <2>3
<1>16. CASE Killed
  <2>1. r2 = r /\ c2 = c + 1 /\ v2 = v
    BY <1>1, <1>16 DEF Killed, Files
  <2>2. /\ run.pc # "idle" /\ run'.pc = "idle" /\ run'.kind = "none" /\ run'.retrying = FALSE
        /\ UNCHANGED <<checkpoint, current, pending>>
    BY <1>16 DEF Killed, Over, Files
  <2>3. p2 = 0
    BY <1>3, <2>2 DEF Overtakes
  <2>4. CASE run.kind = "cycle"
    <3>1. l = 0 BY <1>3, <2>4 DEF RetryLevel
    <3>2. QED BY <1>2, <1>5, <2>1, <2>3, <3>1
  <2>5. CASE run.kind = "resume" /\ "cycle" \in pending
    <3>1. p = MaxRetries /\ l <= MaxRetries
      BY <1>0, <1>3, <2>2, <2>5 DEF RetryLevel, RetryRecorded, Overtakes, At, Fields
    <3>2. QED BY <1>2, <1>5, <2>1, <2>3, <3>1
  <2>6. CASE run.kind = "resume" /\ "cycle" \notin pending
    <3>1. p = 0
      BY <1>3, <2>6 DEF Overtakes
    <3>2. l <= l2 + 1
      BY <1>0, <1>3, <2>2, <2>6 DEF RetryLevel, RetryRecorded, At, Fields, ToRetry
    <3>3. QED BY <1>2, <1>5, <2>1, <2>3, <3>1, <3>2
  <2>7. QED
    BY <1>0, <2>2, <2>4, <2>5, <2>6 DEF Fields, RunShape, At
<1>17. CASE WroteFirst \/ WroteOn \/ StatusSetOn \/ StatusFails
  <2>1. r2 = r /\ c2 = c /\ v2 = v
    BY <1>1, <1>17 DEF WroteFirst, Wrote, counters, WroteOn, StatusSetOn, StatusSet,
       StatusFails, StatusTooLate, Files
  <2>2. p2 + l <= p + l2
    <3>1. CASE WroteFirst
      BY <1>0, <1>3, <3>1 DEF WroteFirst, Wrote, Became, NothingToWrite, counters, At, Kept,
         Fields, RunShape, RetryRecorded, RetryLevel, Overtakes, ToRetry, Monitored,
         Retryable, Rerouted
    <3>2. CASE WroteOn
      BY <1>0, <1>3, <3>2 DEF WroteOn, Wrote, Became, NothingToWrite, counters, At, Kept,
         Fields, RunShape, RetryRecorded, RetryLevel, Overtakes, ToRetry, Monitored,
         Retryable, Rerouted
    <3>3. CASE StatusSetOn
      BY <1>0, <1>3, <3>3 DEF StatusSetOn, StatusSet, Became, NothingToWrite, counters, At,
         Kept, Fields, RunShape, RetryRecorded, RetryLevel, Overtakes, ToRetry, Monitored,
         Retryable, Rerouted
    <3>4. CASE StatusFails
      BY <1>0, <1>3, <3>4 DEF StatusFails, StatusTooLate, Became, NothingToWrite, Files,
         counters, At, Kept, Fields, RunShape, RetryRecorded, RetryLevel, Overtakes,
         ToRetry, Monitored, Retryable, Rerouted
    <3>5. QED BY <1>17, <3>1, <3>2, <3>3, <3>4
  <2>3. QED
    BY <1>2, <1>5, <2>1, <2>2
<1>18. CASE WroteLast \/ StatusSetLast \/ StatusEnds
  <2>1. r2 = r /\ c2 = c /\ v2 = v
    BY <1>1, <1>18 DEF WroteLast, Wrote, counters, StatusSetLast, StatusSet, StatusEnds,
       StatusTooLate, Files
  <2>2. p2 + l <= p + l2
    <3>1. CASE WroteLast
      BY <1>0, <1>3, <3>1 DEF WroteLast, Wrote, Over, NothingToWrite, counters, At, Kept,
         Fields, RunShape, RetryRecorded, RetryLevel, Overtakes, ToRetry, Monitored,
         Retryable, Rerouted
    <3>2. CASE StatusSetLast
      BY <1>0, <1>3, <3>2 DEF StatusSetLast, StatusSet, Over, NothingToWrite, counters, At,
         Kept, Fields, RunShape, RetryRecorded, RetryLevel, Overtakes, ToRetry, Monitored,
         Retryable, Rerouted
    <3>3. CASE StatusEnds
      BY <1>0, <1>3, <3>3 DEF StatusEnds, StatusTooLate, Over, NothingToWrite, Files,
         counters, At, Kept, Fields, RunShape, RetryRecorded, RetryLevel, Overtakes,
         ToRetry, Monitored, Retryable, Rerouted
    <3>4. QED BY <1>18, <3>1, <3>2, <3>3
  <2>3. QED
    BY <1>2, <1>5, <2>1, <2>2
<1>19. CASE Floors
  <2>1. r2 = r /\ c2 = c /\ v2 = v
    BY <1>1, <1>19 DEF Floors, counters
  <2>2. p2 + l <= p + l2
    BY <1>0, <1>3, <1>19 DEF Floors, Over, NothingToWrite, counters, At, Kept, Fields,
       RunShape, RetryRecorded, RetryLevel, Overtakes, ToRetry, Monitored, Retryable,
       Rerouted
  <2>3. QED
    BY <1>2, <1>5, <2>1, <2>2
<1>20. CASE RecordsFailure \/ GivesUp
  <2>1. r2 = r /\ c2 = c /\ v2 = v
    BY <1>1, <1>20 DEF RecordsFailure, Files, counters, GivesUp
  <2>2. p2 + l <= p + l2
    <3>1. CASE RecordsFailure
      BY <1>0, <1>3, <3>1 DEF RecordsFailure, Writing, Files, counters, At, Kept, Fields,
         RunShape, RetryRecorded, RetryLevel, Overtakes, ToRetry, Monitored, Retryable,
         Rerouted
    <3>2. CASE GivesUp
      BY <1>0, <1>3, <3>2 DEF GivesUp, Over, NothingToWrite, Files, counters, At, Kept,
         Fields, RunShape, RetryRecorded, RetryLevel, Overtakes, ToRetry, Monitored,
         Retryable, Rerouted
    <3>3. QED BY <1>20, <3>1, <3>2
  <2>3. QED
    BY <1>2, <1>5, <2>1, <2>2
<1>21. CASE UNCHANGED cycleVars
  <2>1. r2 = r /\ c2 = c /\ v2 = v
    BY <1>1, <1>21 DEF cycleVars, counters
  <2>2. p2 + l <= p + l2
    BY <1>0, <1>3, <1>21 DEF cycleVars, counters, At, Kept, Fields, RunShape, RetryRecorded,
       RetryLevel, Overtakes, ToRetry, Monitored, Retryable, Rerouted
  <2>3. QED
    BY <1>2, <1>5, <2>1, <2>2
<1>22. QED
  BY <1>0, <1>7, <1>8, <1>9, <1>10, <1>11, <1>12, <1>13, <1>14, <1>15, <1>16, <1>17, <1>18,
     <1>19, <1>20, <1>21 DEF
     Effect

\* The invariant holds at first,
LEMMA InitInv == CycleInit => CycleInv
<1> SUFFICES ASSUME CycleInit
             PROVE  CycleInv
  OBVIOUS
<1>1. /\ run.pc = "idle" /\ run.kind = "none" /\ run.attempt = 0 /\ run.retrying = FALSE
      /\ run.session = 0 /\ run.left = 0 /\ run.st = "NONE" /\ run.next = "idle"
      /\ run.catch = "idle" /\ run.cp = NoCheckpoint
  BY DEF CycleInit, IdleRun
<1>2. NoCheckpoint \in CheckpointType
  BY DEF NoCheckpoint, Checkpoint, CheckpointType
<1>3. IdleRun \in RunType
  BY <1>2 DEF IdleRun, RunType
<1>4. Len(sessions) = 0 /\ DOMAIN sessions = {} /\ sessions \in Seq({"active", "stopped"})
  BY DEF CycleInit
<1>5. CycleTypeOK
  BY <1>2, <1>3, <1>4, NoneNamed DEF CycleInit, CycleTypeOK, ProjectStatus
<1>6. RunShape /\ SessionsExist /\ LeaseHolds
  BY <1>1, <1>4, NoneNamed DEF CycleInit, RunShape, SessionsExist, NamesSession, LeaseHolds, At
<1>7. Accounted
  <2>1. Count(MayCreate) <= 1 /\ Count(MayCreate) \in {0, 1} /\ Count(Overtakes) = 0
    BY <1>1 DEF Count, Overtakes
  <2>2. Bounds = 0
    BY DEF CycleInit, Bounds
  <2>3. QED
    BY <1>4, <2>1, <2>2 DEF Accounted
<1>8. RetriesCounted
  <2>1. RetryLevel = 0 /\ ~Overtakes
    BY <1>1 DEF CycleInit, RetryLevel, Overtakes, At
  <2>2. MaxRetries * overtakings = 0
    BY DEF CycleInit
  <2>3. QED
    BY <1>1, <2>1, <2>2, NoneNamed DEF CycleInit, RetriesCounted, RetryBalance, RetryRecorded, At
<1>9. Explained
  BY <1>1 DEF CycleInit, Explained, Waits, Overtakes, Count, At
<1>10. StatusAgrees
  BY <1>1, NoneNamed DEF CycleInit, StatusAgrees, StatusOf, At
<1>11. InOrder
  <2>1. LatestKept /\ BlankFirst /\ StopKept /\ RepeatedTwice
    BY <1>1, NoneNamed DEF CycleInit, LatestKept, BlankFirst, StopKept, RepeatedTwice, Blank,
       StopState, At
  <2>2. QED
    BY <2>1 DEF InOrder
<1>12. QED
  BY <1>5, <1>6, <1>7, <1>8, <1>9, <1>10, <1>11 DEF CycleInv

\* the types are kept,
LEMMA StepTyped ==
    ASSUME CycleTypeOK, RunShape, SessionsExist, Explained, [CycleNext]_cycleVars
    PROVE  CycleTypeOK'
<1>1. run' \in RunType /\ checkpoint' \in CheckpointType
  BY StepRunTyped, CheckpointKept
<1>2. SessionsExist' /\ sessions' \in Seq({"active", "stopped"})
  BY StepSessions, StepSequence
<1>3. /\ status' \in ProjectStatus /\ current' \in BOOLEAN /\ leaseLeft' \in 0 .. TTL
      /\ pending' \subseteq {"cycle", "resume"}
  BY StatusTyped
<1>4. /\ faults' \in 0 .. MaxFault /\ crashes' \in 0 .. MaxCrash /\ retries' \in Nat
      /\ duplicates' \in 0 .. MaxDuplicate /\ overtakings' \in Nat
  BY StepCounters
<1>5. overtakings' \in 0 .. duplicates'
  <2>1. Explained'
    BY StepExplained
  <2>2. PICK k \in {0, 1}, d \in Nat,
           v \in Nat : k = Count(Waits)' /\ d = duplicates' /\ v = overtakings'
    BY <1>4 DEF Count
  <2>3. v + k <= d
    BY <2>1, <2>2 DEF Explained
  <2>4. v \in 0 .. d
    BY <2>3
  <2>5. QED
    BY <2>2, <2>4
<1>6. QED
  BY <1>1, <1>2, <1>3, <1>4, <1>5 DEF CycleTypeOK, SessionsExist, NamesSession

\* undisturbed runs keep their order,
LEMMA StepInOrder ==
    ASSUME CycleInv, [CycleNext]_cycleVars
    PROVE  InOrder'
<1> SUFFICES ASSUME Undisturbed'
             PROVE  LatestKept' /\ BlankFirst' /\ StopKept' /\ RepeatedTwice'
  BY DEF InOrder
<1>1. CycleTypeOK /\ RunShape /\ SessionsExist /\ LeaseHolds /\ Explained /\ InOrder
  BY DEF CycleInv
<1>2. Undisturbed
  BY <1>1, UndisturbedBefore
<1>3. LatestKept /\ BlankFirst /\ StopKept /\ RepeatedTwice
  BY <1>1, <1>2 DEF InOrder
<1>4. LatestKept'
  BY <1>1, <1>3, StepLatest
<1>5. BlankFirst'
  BY <1>1, <1>2, <1>3, StepBlank
<1>6. StopKept'
  BY <1>1, <1>2, <1>3, StepStop
<1>7. RepeatedTwice'
  BY <1>1, <1>2, <1>3, StepTwice
<1>8. QED
  BY <1>4, <1>5, <1>6, <1>7

\* and each step keeps the invariant.
LEMMA StepInv == CycleInv /\ [CycleNext]_cycleVars => CycleInv'
<1> SUFFICES ASSUME CycleInv, [CycleNext]_cycleVars
             PROVE  CycleInv'
  OBVIOUS
<1>1. /\ CycleTypeOK /\ RunShape /\ SessionsExist /\ LeaseHolds /\ Accounted /\ RetryRecorded
      /\ RetryBalance /\ Explained /\ StatusAgrees
  BY DEF CycleInv, RetriesCounted
<1>2. CycleTypeOK' /\ RunShape' /\ SessionsExist'
  BY <1>1, StepTyped, StepShape, StepSessions
<1>3. LeaseHolds' /\ Accounted'
  BY <1>1, StepLease, StepAccounted
<1>4. RetriesCounted'
  BY <1>1, StepRecorded, StepBalance DEF RetriesCounted
<1>5. Explained' /\ StatusAgrees'
  BY <1>1, StepExplained, StepStatus
<1>6. InOrder'
  BY StepInOrder
<1>7. QED
  BY <1>2, <1>3, <1>4, <1>5, <1>6 DEF CycleInv

\* The inductive invariant of the provider cycle and the resume watch holds of
\* every lease longer than the job, every retry budget and every number of
\* repetitions, faults and crashes.
THEOREM CycleInvariant == CycleSpec => []CycleInv
<1>1. QED
  BY InitInv, StepInv, PTL DEF CycleSpec

\* What the invariant says of the sessions,
LEMMA InvAccounts == CycleInv => SessionsAreAccountedFor
<1> SUFFICES ASSUME CycleInv
             PROVE  SessionsAreAccountedFor
  OBVIOUS
<1>1. faults \in Nat /\ crashes \in Nat /\ overtakings \in Nat /\ Len(sessions) \in Nat
  BY DEF CycleInv, CycleTypeOK
<1>2. PICK m \in {0, 1}, o \in {0, 1} : m = Count(MayCreate) /\ o = Count(Overtakes)
  BY DEF Count
<1>3. Len(sessions) + m + o <= 1 + (faults + crashes + overtakings)
  BY <1>2 DEF CycleInv, Accounted, Bounds
<1>4. QED
  BY <1>1, <1>2, <1>3 DEF SessionsAreAccountedFor

\* Each provider session beyond the first answers for a failed request, a
\* killed run or an overtaken dispatch: provider_cycle.py and
\* provider_resume.py create no other one, in whatever order their runs come.
THEOREM SessionsAccounted == CycleSpec => []SessionsAreAccountedFor
<1>1. QED
  BY CycleInvariant, InvAccounts, PTL

\* of the retries,
LEMMA InvBoundsRetries == CycleInv => RetriesAreBounded
<1> SUFFICES ASSUME CycleInv
             PROVE  RetriesAreBounded
  OBVIOUS
<1>1. /\ retries \in Nat /\ crashes \in Nat /\ overtakings \in Nat
      /\ run \in RunType /\ checkpoint \in CheckpointType
  BY DEF CycleInv, CycleTypeOK
<1>2. run.attempt \in 0 .. MaxRetries /\ checkpoint.attempt \in 0 .. MaxRetries
  BY <1>1 DEF RunType, CheckpointType
<1>3. RetryLevel \in 0 .. MaxRetries
  BY <1>2 DEF CycleInv, RetriesCounted, RetryRecorded, RetryLevel
<1>4. PICK l \in 0 .. MaxRetries, p \in Nat, x \in Nat :
          /\ l = RetryLevel /\ p = (IF Overtakes THEN MaxRetries ELSE 0)
          /\ x = MaxRetries * overtakings
  BY <1>1, <1>3
<1>5. retries + p <= x + crashes + l
  BY <1>4 DEF CycleInv, RetriesCounted, RetryBalance
<1>6. MaxRetries * (1 + overtakings) = MaxRetries + x
  BY <1>1, <1>4
<1>7. QED
  BY <1>1, <1>4, <1>5, <1>6 DEF RetriesAreBounded

\* and of the records.
LEMMA InvFollows == CycleInv => RecordsFollowSessions
<1> SUFFICES ASSUME CycleInv
             PROVE  RecordsFollowSessions
  OBVIOUS
<1>1. RetriesAreBounded
  BY InvBoundsRetries
<1>2. CheckpointIsLatest
  BY DEF CycleInv, InOrder, LatestKept, CheckpointIsLatest
<1>3. StatusFollows
  BY DEF CycleInv, StatusAgrees, StatusOf, StatusFollows, At
<1>4. QED
  BY <1>1, <1>2, <1>3 DEF CycleInv, RecordsFollowSessions

\* Checkpoint, project status and retry count stay within what the sessions
\* explain, and a recorded COMPLETED, HUMAN_WAIT or REPLAN stands while the runs
\* are undisturbed, though _persist_checkpoint and _set_project_status write
\* different files and either write may be the last.
THEOREM RecordsAreHeld == CycleSpec => RecordsHold
<1>1. CycleInv /\ [CycleNext]_cycleVars =>
          (Undisturbed /\ checkpoint.state \in StopState =>
               /\ Len(sessions') = Len(sessions)
               /\ checkpoint'.state \in {checkpoint.state, "FAILED"})
  BY StopKeeps DEF CycleInv, InOrder
<1>2. QED
  BY <1>1, CycleInvariant, InvFollows, PTL DEF CycleSpec, RecordsHold, StopHolds

=============================================================================
