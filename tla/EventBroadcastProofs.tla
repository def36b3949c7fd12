------------------------- MODULE EventBroadcastProofs -------------------------
(***************************************************************************)
(* NeverOlder and SameEvents of EventBroadcast for any number of plugins   *)
(* and texts.  What a plugin was and will be called for, its handled and   *)
(* its queued events, is one sequence; a step of the plugin moves a part   *)
(* of it over, and a broadcast appends to one plugin's after the other's.  *)
(***************************************************************************)
EXTENDS EventBroadcast, SequenceTheorems, TLAPS

\* The sequence of the events p was called for and is to be called for.
Past(p)      == Len(handled[p])
Coming(p)    == Len(job_queue[p])
SeenLen(p)   == Past(p) + Coming(p)
SeenAt(p, i) == IF i <= Past(p) THEN handled[p][i][1] ELSE job_queue[p][i - Past(p)]

\* The string is behind the texts only while it is being assigned.
TextInv ==
  /\ str <= texts
  /\ kt # "assign" => str = texts
  /\ kt # "broadcast" => todo = {}

\* The string is at least as new as the events of the queued jobs.
QueuedInv == \A p \in Plugin : \A n \in DOMAIN job_queue[p] : job_queue[p][n] <= str

\* The plugins a broadcast has come to are one event ahead, the one it is for.
AheadInv ==
  /\ \A p, q \in Plugin : (p \in todo <=> q \in todo) => SeenLen(p) = SeenLen(q)
  /\ \A p, q \in Plugin : p \in todo /\ q \notin todo => SeenLen(q) = SeenLen(p) + 1
  /\ todo # {} => \A p \in Plugin \ todo : SeenLen(p) > 0 /\ SeenAt(p, SeenLen(p)) = texts

\* As far as both go, two plugins' sequences are the same.
AgreeInv ==
  \A p, q \in Plugin : \A i \in 1..SeenLen(p) :
    i <= SeenLen(q) => SeenAt(p, i) = SeenAt(q, i)

Inv == TypeOK /\ TextInv /\ QueuedInv /\ NeverOlder /\ AheadInv /\ AgreeInv

-----------------------------------------------------------------------------

\* A function on 1..k is a sequence of length k.
LEMMA FunctionIsSeq ==
  ASSUME NEW S, NEW k \in Nat, NEW f \in [1..k -> S]
  PROVE  f \in Seq(S) /\ Len(f) = k
<1>1. f \in Seq(S)
  BY SeqDef
<1>. QED
  BY <1>1, LenProperties

LEMMA InitInv == Init => Inv
<1>. SUFFICES ASSUME Init PROVE Inv
  OBVIOUS
<1>1. \A p \in Plugin : job_queue[p] = <<>> /\ handled[p] = <<>>
  BY DEF Init
<1>2. TypeOK
  BY DEF Init, TypeOK
<1>3. TextInv
  BY DEF Init, TextInv
<1>4. QueuedInv /\ NeverOlder
  BY <1>1 DEF QueuedInv, NeverOlder
<1>5. \A p \in Plugin : SeenLen(p) = 0
  <2>1. Len(<<>>) = 0
    OBVIOUS
  <2>2. \A p \in Plugin : Past(p) = 0 /\ Coming(p) = 0
    BY <1>1, <2>1, Zenon DEF Past, Coming
  <2>3. ASSUME NEW p \in Plugin PROVE SeenLen(p) = 0
    <3>1. Past(p) = 0 /\ Coming(p) = 0
      BY <2>2
    <3>2. 0 + 0 = 0
      OBVIOUS
    <3>. QED
      BY <3>1, <3>2, Zenon DEF SeenLen
  <2>. QED
    BY <2>3
<1>6. AheadInv
  BY <1>5 DEF AheadInv, Init
<1>7. AgreeInv
  <2>. SUFFICES ASSUME NEW p \in Plugin, NEW q \in Plugin, NEW i \in 1..SeenLen(p)
                PROVE  FALSE
    BY DEF AgreeInv
  <2>1. i \in 1..0
    BY <1>5
  <2>. QED
    BY <2>1
<1>. QED
  BY <1>2, <1>3, <1>4, <1>6, <1>7 DEF Inv

\* What a plugin thread's step does to its queue and its history.
LEMMA Taken ==
  ASSUME TypeOK, NEW p \in Plugin, eventFunc(p)
  PROVE  /\ Len(job_queue[p]) > 0
         /\ job_queue'[p] = Tail(job_queue[p])
         /\ \E text \in Nat \cup {Torn} :
              /\ text \in {str, Torn}
              /\ handled'[p] = Append(handled[p], <<Head(job_queue[p]), text>>)
         /\ \A q \in Plugin \ {p} : job_queue'[q] = job_queue[q] /\ handled'[q] = handled[q]
<1>1. job_queue[p] \in Seq(Nat) /\ job_queue[p] # <<>>
  BY DEF eventFunc, TypeOK
<1>2. Len(job_queue[p]) > 0
  BY <1>1
<1>3. job_queue'[p] = Tail(job_queue[p])
  BY DEF eventFunc, TypeOK
<1>4. PICK text \in {str} \cup (IF kt = "assign" THEN {Torn} ELSE {}) :
        handled' = [handled EXCEPT ![p] = Append(@, <<Head(job_queue[p]), text>>)]
  BY DEF eventFunc
<1>5. handled'[p] = Append(handled[p], <<Head(job_queue[p]), text>>)
  BY <1>4 DEF TypeOK
<1>6. text \in {str, Torn} /\ str \in Nat
  BY <1>4 DEF TypeOK
<1>7. \A q \in Plugin \ {p} : job_queue'[q] = job_queue[q] /\ handled'[q] = handled[q]
  BY <1>4 DEF eventFunc, TypeOK
<1>. QED
  BY <1>2, <1>3, <1>5, <1>6, <1>7

LEMMA TypeStep == TypeOK /\ [Next]_vars => TypeOK'
<1>. SUFFICES ASSUME TypeOK, [Next]_vars PROVE TypeOK'
  OBVIOUS
<1>. USE BroadcastAssumption DEF TypeOK
<1>1. CASE EventImpl
  BY <1>1 DEF EventImpl
<1>2. CASE Assign
  BY <1>2 DEF Assign
<1>3. CASE Command
  BY <1>3 DEF Command
<1>4. CASE Release
  BY <1>4 DEF Release
<1>5. ASSUME NEW p \in Plugin, SubmitJob(p) PROVE TypeOK'
  BY <1>5 DEF SubmitJob
<1>6. ASSUME NEW p \in Plugin, eventFunc(p) PROVE TypeOK'
  <2>1. Head(job_queue[p]) \in Nat /\ Tail(job_queue[p]) \in Seq(Nat)
    BY <1>6 DEF eventFunc
  <2>2. PICK text \in Nat \cup {Torn} :
          handled' = [handled EXCEPT ![p] = Append(@, <<Head(job_queue[p]), text>>)]
    BY <1>6 DEF eventFunc
  <2>3. <<Head(job_queue[p]), text>> \in Nat \X (Nat \cup {Torn})
    BY <2>1
  <2>4. Append(handled[p], <<Head(job_queue[p]), text>>) \in Seq(Nat \X (Nat \cup {Torn}))
    BY <2>3
  <2>5. handled' \in [Plugin -> Seq(Nat \X (Nat \cup {Torn}))]
    BY <2>2, <2>4
  <2>6. job_queue' \in [Plugin -> Seq(Nat)]
    BY <1>6, <2>1 DEF eventFunc
  <2>. QED
    BY <1>6, <2>5, <2>6 DEF eventFunc
<1>7. CASE Terminated \/ UNCHANGED vars
  BY <1>7 DEF Terminated, vars
<1>. QED
  BY <1>1, <1>2, <1>3, <1>4, <1>5, <1>6, <1>7 DEF Next

LEMMA TextStep == TypeOK /\ TextInv /\ [Next]_vars => TextInv'
<1>. SUFFICES ASSUME TypeOK, TextInv, [Next]_vars PROVE TextInv'
  OBVIOUS
<1>. USE DEF TextInv, TypeOK
<1>1. CASE EventImpl
  BY <1>1 DEF EventImpl
<1>2. CASE Assign
  BY <1>2 DEF Assign
<1>3. CASE Command \/ Release
  BY <1>3 DEF Command, Release
<1>4. ASSUME NEW p \in Plugin, SubmitJob(p) \/ eventFunc(p) PROVE TextInv'
  BY <1>4 DEF SubmitJob, eventFunc
<1>5. CASE Terminated \/ UNCHANGED vars
  BY <1>5 DEF Terminated, vars
<1>. QED
  BY <1>1, <1>2, <1>3, <1>4, <1>5 DEF Next

LEMMA QueuedStep == TypeOK /\ TextInv /\ QueuedInv /\ [Next]_vars => QueuedInv'
<1>. SUFFICES ASSUME TypeOK, TextInv, QueuedInv, [Next]_vars,
                     NEW q \in Plugin, NEW n \in DOMAIN job_queue'[q]
              PROVE  job_queue'[q][n] <= str'
  BY DEF QueuedInv
<1>0. /\ str \in Nat /\ texts \in Nat /\ str <= texts
      /\ job_queue[q] \in Seq(Nat) /\ DOMAIN job_queue[q] = 1..Len(job_queue[q])
      /\ \A i \in DOMAIN job_queue[q] : job_queue[q][i] \in Nat /\ job_queue[q][i] <= str
  BY DEF TypeOK, TextInv, QueuedInv
<1>1. CASE UNCHANGED <<str, job_queue>>
  BY <1>0, <1>1
<1>2. CASE Assign
  BY <1>0, <1>2 DEF Assign
<1>3. ASSUME NEW p \in Plugin, SubmitJob(p) PROVE job_queue'[q][n] <= str'
  <2>1. str' = str /\ str = texts
    BY <1>3 DEF SubmitJob, TextInv
  <2>2. CASE p = q
    <3>1. job_queue'[q] = Append(job_queue[q], texts)
      BY <1>3, <2>2 DEF SubmitJob, TypeOK
    <3>2. n \in 1..(Len(job_queue[q]) + 1)
      BY <1>0, <3>1
    <3>3. CASE n = Len(job_queue[q]) + 1
      BY <1>0, <2>1, <3>1, <3>3
    <3>4. CASE n \in DOMAIN job_queue[q]
      BY <1>0, <2>1, <3>1, <3>4
    <3>. QED
      BY <1>0, <3>2, <3>3, <3>4
  <2>3. CASE p # q
    <3>1. job_queue'[q] = job_queue[q]
      BY <1>3, <2>3 DEF SubmitJob, TypeOK
    <3>. QED
      BY <1>0, <2>1, <3>1
  <2>. QED
    BY <2>2, <2>3
<1>4. ASSUME NEW p \in Plugin, eventFunc(p) PROVE job_queue'[q][n] <= str'
  <2>1. str' = str
    BY <1>4 DEF eventFunc
  <2>2. CASE p = q
    <3>1. job_queue'[q] = Tail(job_queue[q]) /\ job_queue[q] # <<>>
      BY <1>4, <2>2 DEF eventFunc, TypeOK
    <3>2. n + 1 \in DOMAIN job_queue[q] /\ job_queue'[q][n] = job_queue[q][n + 1]
      BY <1>0, <3>1
    <3>. QED
      BY <1>0, <2>1, <3>2
  <2>3. CASE p # q
    BY <1>0, <1>4, <2>1, <2>3, Taken
  <2>. QED
    BY <2>2, <2>3
<1>. QED
  BY <1>1, <1>2, <1>3, <1>4 DEF Next, EventImpl, Command, Release, Terminated, vars

LEMMA NeverOlderStep ==
  TypeOK /\ TextInv /\ QueuedInv /\ NeverOlder /\ [Next]_vars => NeverOlder'
<1>. SUFFICES ASSUME TypeOK, TextInv, QueuedInv, NeverOlder, [Next]_vars,
                     NEW q \in Plugin, NEW n \in DOMAIN handled'[q],
                     handled'[q][n][2] \in Nat
              PROVE  handled'[q][n][2] >= handled'[q][n][1]
  BY DEF NeverOlder
<1>1. CASE handled'[q] = handled[q]
  BY <1>1 DEF NeverOlder
<1>2. ASSUME eventFunc(q) PROVE handled'[q][n][2] >= handled'[q][n][1]
  <2>1. PICK text \in {str, Torn} :
          handled'[q] = Append(handled[q], <<Head(job_queue[q]), text>>)
    BY <1>2, Taken
  <2>2. /\ handled[q] \in Seq(Nat \X (Nat \cup {Torn}))
        /\ DOMAIN handled[q] = 1..Len(handled[q]) /\ Len(handled[q]) \in Nat
    BY DEF TypeOK
  <2>3. n \in 1..(Len(handled[q]) + 1)
    BY <2>1, <2>2
  <2>4. CASE n = Len(handled[q]) + 1
    <3>1. handled'[q][n] = <<Head(job_queue[q]), text>>
      BY <2>1, <2>2, <2>4
    <3>2. text = str
      BY <3>1, BroadcastAssumption
    <3>3. /\ job_queue[q] \in Seq(Nat) /\ job_queue[q] # <<>>
          /\ str \in Nat
      BY <1>2 DEF eventFunc, TypeOK
    <3>4. Head(job_queue[q]) = job_queue[q][1] /\ 1 \in DOMAIN job_queue[q]
      BY <3>3
    <3>5. Head(job_queue[q]) <= str /\ Head(job_queue[q]) \in Nat
      BY <3>3, <3>4 DEF QueuedInv
    <3>. QED
      BY <3>1, <3>2, <3>3, <3>5
  <2>5. CASE n \in 1..Len(handled[q])
    <3>1. handled'[q][n] = handled[q][n]
      BY <2>1, <2>2, <2>5
    <3>. QED
      BY <2>2, <2>5, <3>1 DEF NeverOlder
  <2>6. n = Len(handled[q]) + 1 \/ n \in 1..Len(handled[q])
    BY <2>2, <2>3
  <2>. QED
    BY <2>4, <2>5, <2>6
<1>3. ASSUME NEW p \in Plugin, p # q, eventFunc(p) PROVE handled'[q] = handled[q]
  BY <1>3, Taken
<1>. QED
  BY <1>1, <1>2, <1>3
  DEF Next, EventImpl, Assign, Command, Release, SubmitJob, Terminated, vars

-----------------------------------------------------------------------------
(* The sequences a plugin has seen and will see.                           *)

LEMMA Lengths ==
  ASSUME TypeOK, NEW p \in Plugin
  PROVE  /\ Past(p) \in Nat /\ Coming(p) \in Nat /\ SeenLen(p) \in Nat
         /\ handled[p] \in Seq(Nat \X (Nat \cup {Torn})) /\ job_queue[p] \in Seq(Nat)
<1>1. handled[p] \in Seq(Nat \X (Nat \cup {Torn})) /\ job_queue[p] \in Seq(Nat)
  BY DEF TypeOK
<1>2. Past(p) \in Nat /\ Coming(p) \in Nat
  BY <1>1 DEF Past, Coming
<1>3. SeenLen(p) \in Nat
  BY <1>2 DEF SeenLen
<1>. QED
  BY <1>1, <1>2, <1>3

\* A job that is taken moves from the queue to the history.
LEMMA TakenSeen ==
  ASSUME TypeOK, NEW p \in Plugin, eventFunc(p), NEW q \in Plugin
  PROVE  SeenLen(q)' = SeenLen(q) /\ \A i \in 1..SeenLen(q) : SeenAt(q, i)' = SeenAt(q, i)
<1>1. CASE q # p
  <2>1. job_queue'[q] = job_queue[q] /\ handled'[q] = handled[q]
    BY <1>1, Taken
  <2>. QED
    BY <2>1 DEF SeenLen, SeenAt, Past, Coming
<1>2. CASE q = p
  <2>0. PICK text \in Nat \cup {Torn} :
          handled'[p] = Append(handled[p], <<Head(job_queue[p]), text>>)
    BY Taken
  <2>1. Past(p) \in Nat /\ Coming(p) \in Nat
    BY Lengths
  <2>2. Coming(p) > 0 /\ job_queue'[p] = Tail(job_queue[p])
    BY Taken DEF Coming
  <2>3. /\ handled[p] \in Seq(Nat \X (Nat \cup {Torn})) /\ job_queue[p] \in Seq(Nat)
        /\ job_queue[p] # <<>>
    BY Lengths DEF eventFunc
  <2>4. <<Head(job_queue[p]), text>> \in Nat \X (Nat \cup {Torn})
    BY <2>3
  <2>5. Past(p)' = Past(p) + 1
    BY <2>0, <2>3, <2>4 DEF Past
  <2>6. Coming(p)' = Coming(p) - 1
    BY <2>2, <2>3 DEF Coming
  <2>7. \A i \in 1..Past(p) : handled'[p][i] = handled[p][i]
    BY <2>0, <2>3, <2>4 DEF Past
  <2>8. handled'[p][Past(p) + 1][1] = job_queue[p][1]
    BY <2>0, <2>3, <2>4 DEF Past
  <2>9. \A i \in 1..(Coming(p) - 1) : job_queue'[p][i] = job_queue[p][i + 1]
    BY <2>2, <2>3 DEF Coming
  <2>10. SeenLen(p)' = SeenLen(p)
    BY <2>1, <2>5, <2>6 DEF SeenLen
  <2>11. ASSUME NEW i \in 1..SeenLen(p) PROVE SeenAt(p, i)' = SeenAt(p, i)
    <3>0. i \in Nat /\ i >= 1 /\ i <= Past(p) + Coming(p)
      BY <2>1 DEF SeenLen
    <3>1. SeenAt(p, i)' = IF i <= Past(p) + 1 THEN handled'[p][i][1]
                                              ELSE job_queue'[p][i - (Past(p) + 1)]
      BY <2>5 DEF SeenAt
    <3>2. CASE i <= Past(p)
      <4>1. i <= Past(p) + 1 /\ i \in 1..Past(p)
        BY <2>1, <3>0, <3>2
      <4>. QED
        BY <2>7, <3>1, <3>2, <4>1 DEF SeenAt
    <3>3. CASE i = Past(p) + 1
      <4>1. i <= Past(p) + 1 /\ ~(i <= Past(p)) /\ i - Past(p) = 1
        BY <2>1, <3>0, <3>3
      <4>. QED
        BY <2>8, <3>1, <3>3, <4>1 DEF SeenAt
    <3>4. CASE i > Past(p) + 1
      <4>1. /\ ~(i <= Past(p) + 1) /\ ~(i <= Past(p))
            /\ i - (Past(p) + 1) \in 1..(Coming(p) - 1)
            /\ i - (Past(p) + 1) + 1 = i - Past(p)
        BY <2>1, <3>0, <3>4
      <4>. QED
        BY <2>9, <3>1, <4>1 DEF SeenAt
    <3>. QED
      BY <2>1, <3>0, <3>2, <3>3, <3>4
  <2>. QED
    BY <1>2, <2>10, <2>11
<1>. QED
  BY <1>1, <1>2

\* A job that is queued is the last the plugin will see.
LEMMA QueuedSeen ==
  ASSUME TypeOK, NEW p \in Plugin, SubmitJob(p)
  PROVE  /\ SeenLen(p)' = SeenLen(p) + 1
         /\ \A i \in Nat : i = SeenLen(p) + 1 => SeenAt(p, i)' = texts
         /\ \A i \in 1..SeenLen(p) : SeenAt(p, i)' = SeenAt(p, i)
         /\ \A q \in Plugin \ {p} : /\ SeenLen(q)' = SeenLen(q)
                                    /\ \A i \in Nat : SeenAt(q, i)' = SeenAt(q, i)
<1>1. /\ Past(p) \in Nat /\ Coming(p) \in Nat
      /\ job_queue[p] \in Seq(Nat) /\ texts \in Nat
  BY Lengths DEF TypeOK
<1>2. handled' = handled /\ job_queue'[p] = Append(job_queue[p], texts)
  BY DEF SubmitJob, TypeOK
<1>3. Past(p)' = Past(p)
  BY <1>2 DEF Past
<1>4. Coming(p)' = Coming(p) + 1
  BY <1>1, <1>2 DEF Coming
<1>5. /\ job_queue'[p][Coming(p) + 1] = texts
      /\ \A i \in 1..Coming(p) : job_queue'[p][i] = job_queue[p][i]
  BY <1>1, <1>2 DEF Coming
<1>6. SeenLen(p)' = SeenLen(p) + 1
  BY <1>1, <1>3, <1>4 DEF SeenLen
<1>7. ASSUME NEW i \in Nat
      PROVE  SeenAt(p, i)' = IF i <= Past(p) THEN handled[p][i][1]
                                             ELSE job_queue'[p][i - Past(p)]
  BY <1>2, <1>3 DEF SeenAt
<1>8. ASSUME NEW i \in 1..SeenLen(p) PROVE SeenAt(p, i)' = SeenAt(p, i)
  <2>1. i \in Nat /\ i <= Past(p) + Coming(p)
    BY <1>1 DEF SeenLen
  <2>2. CASE i <= Past(p)
    BY <1>7, <2>1, <2>2 DEF SeenAt
  <2>3. CASE ~(i <= Past(p))
    <3>1. i - Past(p) \in 1..Coming(p)
      BY <1>1, <2>1, <2>3
    <3>. QED
      BY <1>5, <1>7, <2>1, <2>3, <3>1 DEF SeenAt
  <2>. QED
    BY <2>2, <2>3
<1>9. ASSUME NEW i \in Nat, i = SeenLen(p) + 1 PROVE SeenAt(p, i)' = texts
  <2>1. ~(i <= Past(p)) /\ i - Past(p) = Coming(p) + 1
    BY <1>1, <1>9 DEF SeenLen
  <2>. QED
    BY <1>5, <1>7, <2>1
<1>10. ASSUME NEW q \in Plugin \ {p}
      PROVE  SeenLen(q)' = SeenLen(q) /\ \A i \in Nat : SeenAt(q, i)' = SeenAt(q, i)
  <2>1. handled'[q] = handled[q] /\ job_queue'[q] = job_queue[q]
    BY <1>2 DEF SubmitJob, TypeOK
  <2>. QED
    BY <2>1 DEF SeenLen, SeenAt, Past, Coming
<1>. QED
  BY <1>6, <1>8, <1>9, <1>10

\* What does not touch queues and histories leaves the sequences.
LEMMA SeenFrame ==
  ASSUME UNCHANGED <<job_queue, handled>>, NEW p
  PROVE  SeenLen(p)' = SeenLen(p) /\ \A i : SeenAt(p, i)' = SeenAt(p, i)
  BY DEF SeenLen, SeenAt, Past, Coming

LEMMA AheadStep == TypeOK /\ TextInv /\ AheadInv /\ [Next]_vars => AheadInv'
<1>. SUFFICES ASSUME TypeOK, TextInv, AheadInv, [Next]_vars PROVE AheadInv'
  OBVIOUS
<1>1. CASE EventImpl \/ Command \/ Release
  <2>1. /\ todo = {} /\ todo' = {} /\ UNCHANGED <<job_queue, handled>>
    BY <1>1 DEF EventImpl, Command, Release, TextInv
  <2>. QED
    BY <2>1, SeenFrame DEF AheadInv
<1>2. CASE Assign
  <2>1. /\ todo = {} /\ UNCHANGED <<job_queue, handled>> /\ (todo' = Plugin \/ todo' = todo)
    BY <1>2 DEF Assign, TextInv
  <2>2. \A p, q \in Plugin : SeenLen(p)' = SeenLen(q)'
    BY <2>1, SeenFrame DEF AheadInv
  <2>. QED
    BY <2>1, <2>2 DEF AheadInv
<1>3. ASSUME NEW p \in Plugin, SubmitJob(p) PROVE AheadInv'
  <2>1. /\ p \in todo /\ todo \subseteq Plugin /\ todo' = todo \ {p} /\ texts' = texts
    BY <1>3 DEF SubmitJob, TypeOK
  <2>2. /\ SeenLen(p)' = SeenLen(p) + 1
        /\ \A i \in Nat : i = SeenLen(p) + 1 => SeenAt(p, i)' = texts
        /\ \A q \in Plugin \ {p} : /\ SeenLen(q)' = SeenLen(q)
                                   /\ \A i \in Nat : SeenAt(q, i)' = SeenAt(q, i)
    BY <1>3, QueuedSeen
  <2>3. \A q \in Plugin : SeenLen(q) \in Nat
    BY Lengths
  <2>4. /\ \A q \in todo : SeenLen(q) = SeenLen(p)
        /\ \A q \in Plugin \ todo : SeenLen(q) = SeenLen(p) + 1
    BY <2>1 DEF AheadInv
  <2>5. /\ \A q \in todo' : SeenLen(q)' = SeenLen(p)
        /\ \A q \in Plugin \ todo' : SeenLen(q)' = SeenLen(p) + 1
    BY <2>1, <2>2, <2>4
  <2>6. ASSUME NEW q \in Plugin \ todo'
        PROVE  SeenLen(q)' > 0 /\ SeenAt(q, SeenLen(q))' = texts'
    <3>1. SeenLen(q)' = SeenLen(p) + 1
      BY <2>5
    <3>2. CASE q = p
      <4>1. PICK n \in Nat : n = SeenLen(p) + 1
        BY <2>3
      <4>2. SeenAt(p, n)' = texts'
        BY <2>1, <2>2, <4>1
      <4>. QED
        BY <2>3, <3>1, <3>2, <4>1, <4>2
    <3>3. CASE q # p
      <4>1. q \in Plugin \ todo /\ SeenLen(q)' = SeenLen(q)
        BY <2>1, <2>2, <3>3
      <4>2. SeenLen(q) > 0 /\ SeenAt(q, SeenLen(q)) = texts
        BY <2>1, <4>1 DEF AheadInv
      <4>3. PICK n \in Nat : n = SeenLen(q)
        BY <2>3, <4>1
      <4>4. SeenAt(q, n)' = SeenAt(q, n)
        BY <2>2, <3>3, <4>1, <4>3
      <4>. QED
        BY <2>1, <4>1, <4>2, <4>3, <4>4
    <3>. QED
      BY <3>2, <3>3
  <2>7. \A q, r \in Plugin : (q \in todo' <=> r \in todo') => SeenLen(q)' = SeenLen(r)'
    BY <2>5
  <2>8. \A q, r \in Plugin : q \in todo' /\ r \notin todo' => SeenLen(r)' = SeenLen(q)' + 1
    BY <2>5
  <2>. QED
    BY <2>6, <2>7, <2>8 DEF AheadInv
<1>4. ASSUME NEW p \in Plugin, eventFunc(p) PROVE AheadInv'
  <2>1. /\ todo' = todo /\ texts' = texts
    BY <1>4 DEF eventFunc
  <2>2. \A q \in Plugin : /\ SeenLen(q)' = SeenLen(q) /\ SeenLen(q) \in Nat
                          /\ \A i \in 1..SeenLen(q) : SeenAt(q, i)' = SeenAt(q, i)
    BY <1>4, TakenSeen, Lengths
  <2>3. ASSUME NEW q \in Plugin \ todo, todo # {}
        PROVE  SeenLen(q)' > 0 /\ SeenAt(q, SeenLen(q))' = texts
    <3>1. SeenLen(q) > 0 /\ SeenAt(q, SeenLen(q)) = texts
      BY <2>3 DEF AheadInv
    <3>2. PICK n \in 1..SeenLen(q) : n = SeenLen(q)
      BY <2>2, <3>1
    <3>3. SeenAt(q, n)' = texts /\ SeenLen(q)' = n
      BY <2>2, <3>1, <3>2
    <3>. QED
      BY <2>2, <3>1, <3>2, <3>3
  <2>. QED
    BY <2>1, <2>2, <2>3 DEF AheadInv
<1>5. CASE Terminated \/ UNCHANGED vars
  <2>1. UNCHANGED <<job_queue, handled, todo, texts>>
    BY <1>5 DEF Terminated, vars
  <2>. QED
    BY <2>1, SeenFrame DEF AheadInv
<1>. QED
  BY <1>1, <1>2, <1>3, <1>4, <1>5 DEF Next

LEMMA AgreeStep == TypeOK /\ AheadInv /\ AgreeInv /\ [Next]_vars => AgreeInv'
<1>. SUFFICES ASSUME TypeOK, AheadInv, AgreeInv, [Next]_vars PROVE AgreeInv'
  OBVIOUS
<1>1. CASE UNCHANGED <<job_queue, handled>>
  BY <1>1, SeenFrame DEF AgreeInv
<1>2. ASSUME NEW p \in Plugin, SubmitJob(p) PROVE AgreeInv'
  <2>1. p \in todo /\ todo \subseteq Plugin
    BY <1>2 DEF SubmitJob, TypeOK
  <2>2. /\ SeenLen(p)' = SeenLen(p) + 1
        /\ \A i \in Nat : i = SeenLen(p) + 1 => SeenAt(p, i)' = texts
        /\ \A i \in 1..SeenLen(p) : SeenAt(p, i)' = SeenAt(p, i)
    BY <1>2, QueuedSeen
  <2>3. \A q \in Plugin \ {p} : /\ SeenLen(q)' = SeenLen(q)
                                /\ \A i \in Nat : SeenAt(q, i)' = SeenAt(q, i)
    BY <1>2, QueuedSeen
  <2>4. \A q \in Plugin : SeenLen(q) \in Nat
    BY Lengths
  <2>5. ASSUME NEW q \in Plugin \ {p}, NEW i \in Nat, i >= 1,
               i <= SeenLen(p) + 1, i <= SeenLen(q)
        PROVE  SeenAt(p, i)' = SeenAt(q, i)'
    <3>1. CASE i = SeenLen(p) + 1
      <4>1. q \notin todo
        <5>1. q \in todo => SeenLen(q) = SeenLen(p)
          BY <2>1 DEF AheadInv
        <5>. QED
          BY <2>1, <2>4, <2>5, <3>1, <5>1
      <4>2. SeenLen(q) = SeenLen(p) + 1 /\ SeenAt(q, SeenLen(q)) = texts
        BY <2>1, <4>1 DEF AheadInv
      <4>. QED
        BY <2>2, <2>3, <3>1, <4>2
    <3>2. CASE i \in 1..SeenLen(p)
      <4>1. SeenAt(p, i) = SeenAt(q, i)
        BY <2>5, <3>2 DEF AgreeInv
      <4>. QED
        BY <2>2, <2>3, <3>2, <4>1
    <3>. QED
      BY <2>1, <2>4, <2>5, <3>1, <3>2
  <2>6. ASSUME NEW q \in Plugin, NEW r \in Plugin, NEW i \in 1..SeenLen(q)', i <= SeenLen(r)'
        PROVE  SeenAt(q, i)' = SeenAt(r, i)'
    <3>1. i \in Nat /\ i >= 1 /\ i <= SeenLen(q)'
      BY <2>2, <2>3, <2>4
    <3>2. CASE q = r
      BY <3>2
    <3>3. CASE q = p /\ r # p
      BY <2>2, <2>3, <2>5, <2>6, <3>1, <3>3
    <3>4. CASE q # p /\ r = p
      BY <2>2, <2>3, <2>5, <2>6, <3>1, <3>4
    <3>5. CASE q # p /\ r # p
      <4>1. SeenAt(q, i) = SeenAt(r, i)
        BY <2>3, <2>6, <3>5 DEF AgreeInv
      <4>. QED
        BY <2>3, <3>1, <3>5, <4>1
    <3>. QED
      BY <3>2, <3>3, <3>4, <3>5
  <2>. QED
    BY <2>6 DEF AgreeInv
<1>3. ASSUME NEW p \in Plugin, eventFunc(p) PROVE AgreeInv'
  <2>1. \A q \in Plugin : /\ SeenLen(q)' = SeenLen(q) /\ SeenLen(q) \in Nat
                          /\ \A i \in 1..SeenLen(q) : SeenAt(q, i)' = SeenAt(q, i)
    BY <1>3, TakenSeen, Lengths
  <2>2. ASSUME NEW q \in Plugin, NEW r \in Plugin, NEW i \in 1..SeenLen(q), i <= SeenLen(r)
        PROVE  SeenAt(q, i)' = SeenAt(r, i)'
    <3>1. i \in 1..SeenLen(r)
      BY <2>1, <2>2
    <3>2. SeenAt(q, i) = SeenAt(r, i)
      BY <2>2 DEF AgreeInv
    <3>. QED
      BY <2>1, <3>1, <3>2
  <2>. QED
    BY <2>1, <2>2 DEF AgreeInv
<1>. QED
  BY <1>1, <1>2, <1>3 DEF Next, EventImpl, Assign, Command, Release, Terminated, vars

-----------------------------------------------------------------------------

\* The invariant holds in every reachable state.
THEOREM BroadcastInvariance == Spec => []Inv
<1>1. Inv /\ [Next]_vars => Inv'
  BY TypeStep, TextStep, QueuedStep, NeverOlderStep, AheadStep, AgreeStep DEF Inv
<1>. QED
  BY InitInv, <1>1, PTL DEF Spec

\* No plugin reads a text older than its event.
THEOREM TextIsNeverOlder == Spec => []NeverOlder
<1>1. Inv => NeverOlder
  BY DEF Inv
<1>. QED
  BY BroadcastInvariance, <1>1, PTL

\* The plugins are called for the same events in the same order.
THEOREM EventsAreTheSame == Spec => []SameEvents
<1>1. Inv => SameEvents
  <2>. SUFFICES ASSUME Inv, NEW p \in Plugin, NEW q \in Plugin, NEW n \in DOMAIN handled[p]
                PROVE  LET seen == [i \in DOMAIN handled[q] |-> handled[q][i][1]] \o job_queue[q]
                       IN  n <= Len(seen) => seen[n] = handled[p][n][1]
    BY DEF SameEvents
  <2>. DEFINE past == [i \in DOMAIN handled[q] |-> handled[q][i][1]]
              seen == past \o job_queue[q]
  <2>0. TypeOK /\ AgreeInv
    BY DEF Inv
  <2>1. /\ handled[q] \in Seq(Nat \X (Nat \cup {Torn})) /\ job_queue[q] \in Seq(Nat)
        /\ handled[p] \in Seq(Nat \X (Nat \cup {Torn}))
        /\ Past(p) \in Nat /\ Coming(p) \in Nat /\ Past(q) \in Nat /\ Coming(q) \in Nat
    BY <2>0, Lengths
  <2>2. DOMAIN handled[q] = 1..Past(q) /\ n \in 1..Past(p)
    BY <2>1 DEF Past
  <2>3. \A i \in 1..Past(q) : handled[q][i][1] \in Nat
    BY <2>1, <2>2
  <2>4. past \in Seq(Nat) /\ Len(past) = Past(q)
    <3>1. past \in [1..Past(q) -> Nat]
      BY <2>2, <2>3
    <3>. HIDE DEF past
    <3>. QED
      BY <2>1, <3>1, FunctionIsSeq
  <2>. HIDE DEF past
  <2>5. Len(past \o job_queue[q]) = SeenLen(q)
    <3>1. Len(past \o job_queue[q]) = Len(past) + Len(job_queue[q])
      BY <2>1, <2>4, ConcatProperties, Zenon
    <3>. QED
      BY <2>4, <3>1, Zenon DEF SeenLen, Coming
  <2>6. ASSUME n <= SeenLen(q) PROVE seen[n] = SeenAt(q, n)
    <3>1. n \in 1..Len(past) + Len(job_queue[q])
      BY <2>1, <2>2, <2>4, <2>6 DEF SeenLen, Coming
    <3>2. seen[n] = IF n <= Len(past) THEN past[n] ELSE job_queue[q][n - Len(past)]
      BY <2>1, <2>4, <3>1, ConcatProperties, Zenon
    <3>3. n <= Past(q) => past[n] = handled[q][n][1]
      BY <2>1, <2>2 DEF past
    <3>. QED
      BY <2>4, <3>2, <3>3, Zenon DEF SeenAt
  <2>7. SeenAt(p, n) = handled[p][n][1] /\ n \in 1..SeenLen(p)
    BY <2>1, <2>2 DEF SeenAt, SeenLen
  <2>8. n <= SeenLen(q) => SeenAt(q, n) = SeenAt(p, n)
    BY <2>0, <2>7 DEF AgreeInv
  <2>9. n <= Len(seen) => seen[n] = handled[p][n][1]
    BY <2>5, <2>6, <2>7, <2>8
  <2>. QED
    BY <2>9, Zenon DEF past
<1>. QED
  BY BroadcastInvariance, <1>1, PTL
=============================================================================
