------------------------- MODULE ManagedSessionProofs -------------------------
(***************************************************************************)
(* Proofs about ManagedSession.                                             *)
(*                                                                          *)
(* The ledger is a fold over a sequence: what holds of it is proved by       *)
(* induction on the sequence's length, of the natural numbers.  Everything   *)
(* else is about Settled, the book once all that was received is projected.  *)
(***************************************************************************)
EXTENDS ManagedSession, FiniteSetTheorems, SequenceTheorems, WellFoundedInduction, TLAPS

------------------------------------------------------------------------------
(* Induction, for sets of numbers. *)

\* A nonempty set of natural numbers has a least element.
LEMMA Least ==
    ASSUME NEW S \in SUBSET Nat, S # {}
    PROVE  \E n \in S : \A m \in S : n <= m
<1>1. PICK n \in S : \A m \in S : <<m, n>> \notin OpToRel(<, Nat)
  BY WFMin, NatLessThanWellFounded
<1>2. \A m \in S : ~(m < n)
  BY <1>1, Zenon DEF OpToRel
<1>3. QED
  BY <1>2

\* A set of natural numbers that has 0, and n + 1 with each n, has them all.
LEMMA Induction ==
    ASSUME NEW S \in SUBSET Nat, 0 \in S, \A n \in S : n + 1 \in S
    PROVE  S = Nat
<1> SUFFICES ASSUME NEW k \in Nat, k \notin S PROVE FALSE
  OBVIOUS
<1>1. PICK n \in Nat \ S : \A m \in Nat \ S : n <= m
  BY Least, k \in Nat \ S
<1>2. n # 0 /\ n - 1 \in Nat
  BY <1>1
<1>3. n - 1 \in S
  BY <1>1, <1>2
<1>4. QED
  BY <1>1, <1>2, <1>3

------------------------------------------------------------------------------
(* The projection of a sequence of observations. *)

\* The books after 0, 1, ... n of the observations.
IsRun(f, bk, es, n) ==
    f = [k \in 0..n |-> IF k = 0 THEN bk ELSE Apply(f[k - 1], es[k])]

\* There is such a run of books, for every number of observations.
LEMMA RunExists ==
    ASSUME NEW bk, NEW es, NEW n \in Nat
    PROVE  \E f : IsRun(f, bk, es, n)
<1> DEFINE S == {m \in Nat : \E f : IsRun(f, bk, es, m)}
<1>1. 0 \in S
  <2> DEFINE f == [k \in 0..0 |-> bk]
  <2>1. f = [k \in 0..0 |-> IF k = 0 THEN bk ELSE Apply(f[k - 1], es[k])]
    OBVIOUS
  <2>2. IsRun(f, bk, es, 0)
    BY <2>1, Zenon DEF IsRun
  <2> QED
    BY <2>2
<1>2. ASSUME NEW m \in S PROVE m + 1 \in S
  <2>1. PICK f : IsRun(f, bk, es, m)
    OBVIOUS
  <2>2. f = [k \in 0..m |-> IF k = 0 THEN bk ELSE Apply(f[k - 1], es[k])]
    BY <2>1, Zenon DEF IsRun
  <2> DEFINE g == [k \in 0..m + 1 |-> IF k = m + 1 THEN Apply(f[m], es[m + 1]) ELSE f[k]]
             h == [k \in 0..m + 1 |-> IF k = 0 THEN bk ELSE Apply(g[k - 1], es[k])]
  <2>3. ASSUME NEW k \in 0..m + 1 PROVE g[k] = h[k]
    <3>1. CASE k = m + 1
      <4>1. g[k - 1] = f[m]
        BY <3>1
      <4>2. g[k] = Apply(f[m], es[m + 1]) /\ h[k] = Apply(g[k - 1], es[k])
        BY <3>1
      <4> QED
        BY <4>1, <4>2, <3>1
    <3>2. CASE k \in 1..m
      <4>1. g[k] = f[k] /\ g[k - 1] = f[k - 1] /\ h[k] = Apply(g[k - 1], es[k])
        BY <3>2
      <4>2. f[k] = Apply(f[k - 1], es[k])
        BY <2>2, <3>2
      <4> QED
        BY <4>1, <4>2
    <3>3. CASE k = 0
      BY <2>2, <3>3
    <3> QED
      BY <3>1, <3>2, <3>3
  <2>4. g = h
    BY <2>3
  <2>5. IsRun(g, bk, es, m + 1)
    BY <2>4, Zenon DEF IsRun
  <2> QED
    BY <2>5
<1>3. S = Nat
  <2> HIDE DEF S
  <2> QED
    BY <1>1, <1>2, Induction DEF S
<1> QED
  BY <1>3

\* And one only: the books after each observation are determined by the first.
LEMMA RunUnique ==
    ASSUME NEW bk, NEW es, NEW n \in Nat, NEW f, IsRun(f, bk, es, n),
           NEW g, g[0] = bk, \A k \in 1..n : g[k] = Apply(g[k - 1], es[k])
    PROVE  \A k \in 0..n : f[k] = g[k]
<1> DEFINE S == {m \in Nat : m <= n => f[m] = g[m]}
<1>1. f = [k \in 0..n |-> IF k = 0 THEN bk ELSE Apply(f[k - 1], es[k])]
  BY Zenon DEF IsRun
<1>2. 0 \in S
  BY <1>1
<1>3. ASSUME NEW m \in S PROVE m + 1 \in S
  <2> SUFFICES ASSUME m + 1 <= n PROVE f[m + 1] = g[m + 1]
    OBVIOUS
  <2>1. m + 1 \in 1..n /\ m + 1 # 0 /\ (m + 1) - 1 = m /\ f[m] = g[m]
    OBVIOUS
  <2>2. f[m + 1] = Apply(f[m], es[m + 1])
    BY <1>1, <2>1
  <2>3. g[m + 1] = Apply(g[m], es[m + 1])
    BY <2>1
  <2> QED
    BY <2>1, <2>2, <2>3
<1>4. S = Nat
  <2> HIDE DEF S
  <2> QED
    BY <1>2, <1>3, Induction DEF S
<1> QED
  BY <1>4

\* Whatever goes from one book to the next as the projection does ends where it does.
LEMMA AppliedAll ==
    ASSUME NEW bk, NEW es, Len(es) \in Nat,
           NEW g, g[0] = bk, \A k \in 1..Len(es) : g[k] = Apply(g[k - 1], es[k])
    PROVE  ApplyAll(bk, es) = g[Len(es)]
<1> DEFINE f == CHOOSE f : f = [k \in 0..Len(es) |-> IF k = 0 THEN bk ELSE Apply(f[k - 1], es[k])]
<1>1. PICK h : IsRun(h, bk, es, Len(es))
  BY RunExists
<1>1a. h = [k \in 0..Len(es) |-> IF k = 0 THEN bk ELSE Apply(h[k - 1], es[k])]
  BY <1>1, Zenon DEF IsRun
<1>2. f = [k \in 0..Len(es) |-> IF k = 0 THEN bk ELSE Apply(f[k - 1], es[k])]
  BY <1>1a, Zenon
<1>3. IsRun(f, bk, es, Len(es))
  BY <1>2, Zenon DEF IsRun
<1>4. ApplyAll(bk, es) = f[Len(es)]
  BY Zenon DEF ApplyAll
<1> HIDE DEF f
<1>5. \A k \in 0..Len(es) : f[k] = g[k]
  <2> DEFINE n == Len(es)
  <2> HIDE DEF n
  <2>1. n \in Nat /\ IsRun(f, bk, es, n) /\ \A k \in 1..n : g[k] = Apply(g[k - 1], es[k])
    BY <1>3 DEF n
  <2>2. \A k \in 0..n : f[k] = g[k]
    BY <2>1, RunUnique
  <2> QED
    BY <2>2 DEF n
<1> QED
  BY <1>4, <1>5

\* ApplyAll ends where the run does.
LEMMA ApplyRun ==
    ASSUME NEW bk, NEW es, Len(es) \in Nat
    PROVE  \E f : /\ f[0] = bk
                  /\ \A k \in 1..Len(es) : f[k] = Apply(f[k - 1], es[k])
                  /\ f[Len(es)] = ApplyAll(bk, es)
<1>1. PICK f : IsRun(f, bk, es, Len(es))
  BY RunExists
<1>2. f = [k \in 0..Len(es) |-> IF k = 0 THEN bk ELSE Apply(f[k - 1], es[k])]
  BY <1>1, Zenon DEF IsRun
<1>3. f[0] = bk
  BY <1>2
<1>4. \A k \in 1..Len(es) : f[k] = Apply(f[k - 1], es[k])
  BY <1>2
<1>5. f[Len(es)] = ApplyAll(bk, es)
  BY <1>3, <1>4, AppliedAll
<1> QED
  BY <1>3, <1>4, <1>5

\* Nothing to project leaves the books as they are.
LEMMA ApplyNone ==
    ASSUME NEW bk
    PROVE  ApplyAll(bk, <<>>) = bk
<1>1. Len(<<>>) = 0
  OBVIOUS
<1>2. PICK f : f[0] = bk /\ f[Len(<<>>)] = ApplyAll(bk, <<>>)
  BY <1>1, ApplyRun
<1> QED
  BY <1>1, <1>2

\* Observations are projected one after the other: it does not matter where one stops.
LEMMA ApplyConcat ==
    ASSUME NEW E, NEW bk, NEW es \in Seq(E), NEW fs \in Seq(E)
    PROVE  ApplyAll(bk, es \o fs) = ApplyAll(ApplyAll(bk, es), fs)
<1> DEFINE m == Len(es)
           n == Len(fs)
           all == es \o fs
<1>1. m \in Nat /\ n \in Nat /\ Len(all) = m + n
  OBVIOUS
<1>2. PICK f : f[0] = bk /\ f[m + n] = ApplyAll(bk, all)
               /\ \A k \in 1..m + n : f[k] = Apply(f[k - 1], all[k])
  <2>1. Len(all) \in Nat
    BY <1>1
  <2>2. PICK f : f[0] = bk /\ f[Len(all)] = ApplyAll(bk, all)
               /\ \A k \in 1..Len(all) : f[k] = Apply(f[k - 1], all[k])
    <3> HIDE DEF all
    <3> QED
      BY <2>1, ApplyRun
  <2> QED
    BY <1>1, <2>2
<1>3. \A k \in 1..m : all[k] = es[k]
  OBVIOUS
<1>4. \A k \in 1..n : all[m + k] = fs[k]
  OBVIOUS
<1>5. f[m] = ApplyAll(bk, es)
  <2>1. \A k \in 1..m : f[k] = Apply(f[k - 1], es[k])
    BY <1>1, <1>2, <1>3
  <2> QED
    BY <1>1, <1>2, <2>1, AppliedAll
<1>6. f[m + n] = ApplyAll(f[m], fs)
  <2> DEFINE g == [k \in 0..n |-> f[m + k]]
  <2>1. g[0] = f[m] /\ g[n] = f[m + n]
    BY <1>1
  <2>2. ASSUME NEW k \in 1..n PROVE g[k] = Apply(g[k - 1], fs[k])
    <3>1. k - 1 \in 0..n /\ k \in 0..n /\ m + k \in 1..m + n /\ (m + k) - 1 = m + (k - 1)
      BY <1>1
    <3>2. g[k] = f[m + k] /\ g[k - 1] = f[(m + k) - 1]
      BY <3>1
    <3>3. f[m + k] = Apply(f[(m + k) - 1], all[m + k])
      BY <1>2, <3>1
    <3> QED
      BY <1>4, <3>2, <3>3
  <2> HIDE DEF g
  <2> QED
    BY <1>1, <2>1, <2>2, AppliedAll
<1> QED
  BY <1>2, <1>5, <1>6

\* One observation to project is one Apply.
LEMMA ApplyOne ==
    ASSUME NEW bk, NEW e
    PROVE  ApplyAll(bk, <<e>>) = Apply(bk, e)
<1>1. Len(<<e>>) = 1 /\ <<e>>[1] = e
  OBVIOUS
<1> DEFINE es == <<e>>
<1>2. Len(es) \in Nat
  BY <1>1
<1> HIDE DEF es
<1>3. PICK f : /\ f[0] = bk
               /\ \A k \in 1..Len(es) : f[k] = Apply(f[k - 1], es[k])
               /\ f[Len(es)] = ApplyAll(bk, es)
  BY <1>2, ApplyRun, Zenon
<1>4. f[1] = ApplyAll(bk, es) /\ f[1] = Apply(f[0], e)
  <2>1. Len(es) = 1 /\ es[1] = e
    BY <1>1 DEF es
  <2>2. 1 \in 1..Len(es) /\ 1 - 1 = 0
    BY <2>1
  <2> QED
    BY <1>3, <2>1, <2>2
<1> QED
  BY <1>3, <1>4 DEF es

\* The observation that is appended is projected last, the head first.
LEMMA ApplyAppend ==
    ASSUME NEW E, NEW bk, NEW es \in Seq(E), NEW e \in E
    PROVE  ApplyAll(bk, Append(es, e)) = Apply(ApplyAll(bk, es), e)
<1> DEFINE f == <<e>>
<1>1. ApplyAll(ApplyAll(bk, es), f) = Apply(ApplyAll(bk, es), e)
  BY ApplyOne
<1>2. f \in Seq(E) /\ Append(es, e) = es \o f
  BY AppendIsConcat
<1> HIDE DEF f
<1>3. ApplyAll(bk, es \o f) = ApplyAll(ApplyAll(bk, es), f)
  BY <1>2, ApplyConcat
<1> QED
  BY <1>1, <1>2, <1>3

\* Projecting a list is projecting its first observation, and then the rest.
LEMMA ApplyHead ==
    ASSUME NEW E, NEW bk, NEW es \in Seq(E), es # <<>>
    PROVE  ApplyAll(bk, es) = ApplyAll(Apply(bk, Head(es)), Tail(es))
<1>1. es = <<Head(es)>> \o Tail(es) /\ Tail(es) \in Seq(E) /\ <<Head(es)>> \in Seq(E)
  OBVIOUS
<1> DEFINE h == <<Head(es)>>
           t == Tail(es)
<1>2. ApplyAll(bk, h) = Apply(bk, Head(es))
  BY ApplyOne
<1> HIDE DEF h, t
<1>3. h \in Seq(E) /\ t \in Seq(E) /\ es = h \o t
  BY <1>1 DEF h, t
<1>4. ApplyAll(bk, h \o t) = ApplyAll(ApplyAll(bk, h), t)
  BY <1>3, ApplyConcat
<1> QED
  BY <1>2, <1>3, <1>4 DEF t

\* Induction on what is projected: B[n] holds the books there can be after n observations.
LEMMA ApplyKeeps ==
    ASSUME NEW bk, NEW es, Len(es) \in Nat, NEW B, bk \in B[0],
           \A n \in 1..Len(es) : \A k \in B[n - 1] : Apply(k, es[n]) \in B[n]
    PROVE  ApplyAll(bk, es) \in B[Len(es)]
<1> DEFINE m == Len(es)
<1>1. PICK f : /\ f[0] = bk
               /\ \A k \in 1..m : f[k] = Apply(f[k - 1], es[k])
               /\ f[m] = ApplyAll(bk, es)
  BY ApplyRun
<1> DEFINE S == {n \in Nat : n <= m => f[n] \in B[n]}
<1>2. 0 \in S
  BY <1>1
<1>3. ASSUME NEW n \in S PROVE n + 1 \in S
  <2> SUFFICES ASSUME n + 1 <= m PROVE f[n + 1] \in B[n + 1]
    OBVIOUS
  <2>1. n + 1 \in 1..m /\ (n + 1) - 1 = n /\ f[n] \in B[n]
    OBVIOUS
  <2>2. f[n + 1] = Apply(f[n], es[n + 1])
    BY <1>1, <2>1
  <2> QED
    BY <2>1, <2>2
<1>4. S = Nat
  <2> HIDE DEF S
  <2> QED
    BY <1>2, <1>3, Induction DEF S
<1> QED
  BY <1>1, <1>4

------------------------------------------------------------------------------
(* Types. *)

Kinds == {"session_started", "session_resumed", "owner_closed", "turn_started", "turn_done"}
Reasons == {"none", "end_turn", "error", "cancelled", "interrupted", "shutdown"}
Observations ==
    {e \in [type : Kinds, b : Backends, turn : TurnKeys \cup {NoTurn}, reason : Reasons, run : 1..MaxRuns] :
        /\ e.type \in {"turn_started", "turn_done"} => e.turn \in TurnKeys
        /\ e.type # "turn_done" => e.reason = "none"}
Boxes == [pending : Seq(Observations), said : SUBSET Observations]
Generations == [state : {"none", "open", "running", "closed", "interrupted"}, run : 0..MaxRuns]
Books == [turns : [TurnIds -> States], gens : [Backends -> Generations]]
Attempts == 0..MaxRetries

\* An observation names a backend, a process and, if it is about a turn, a turn.
LEMMA Observed ==
    ASSUME NEW e \in Observations
    PROVE  /\ e.b \in Backends
           /\ e.run \in 1..MaxRuns /\ e.run \in Nat
           /\ e.type \in {"turn_started", "turn_done"} => <<e.b, e.turn>> \in TurnIds
<1>1. e \in [type : Kinds, b : Backends, turn : TurnKeys \cup {NoTurn}, reason : Reasons, run : 1..MaxRuns]
      /\ (e.type \in {"turn_started", "turn_done"} => e.turn \in TurnKeys)
  BY DEF Observations
<1>2. e.b \in Backends /\ e.run \in 1..MaxRuns
  BY <1>1
<1> QED
  BY <1>1, <1>2, LedgerAssumption DEF TurnIds

\* What an observation does to a turn and to the process of a generation.
TurnAfter(bk, e, x) ==
    IF x # <<e.b, e.turn>> THEN bk.turns[x]
    ELSE IF e.type = "turn_started" /\ bk.turns[x] = "none" THEN "running"
    ELSE IF e.type = "turn_done" /\ bk.turns[x] = "running" THEN End(e.reason)
    ELSE bk.turns[x]
RunAfter(bk, e, b) ==
    IF b = e.b /\ (Taken(e) \/ bk.gens[b].state = "none") THEN e.run ELSE bk.gens[b].run

\* What one observation makes of the books, turn by turn and backend by backend.
LEMMA Applied ==
    ASSUME NEW bk \in Books, NEW e \in Observations
    PROVE  /\ Apply(bk, e) \in Books
           /\ \A x \in TurnIds : Apply(bk, e).turns[x] = TurnAfter(bk, e, x)
           /\ \A b \in Backends : Apply(bk, e).gens[b].run = RunAfter(bk, e, b)
<1> DEFINE gen == GenerationOf(bk, e)
           at == <<e.b, e.turn>>
           turns == CASE e.type = "turn_started" /\ bk.turns[at] = "none" ->
                           [bk.turns EXCEPT ![at] = "running"]
                      [] e.type = "turn_done" /\ bk.turns[at] = "running" ->
                           [bk.turns EXCEPT ![at] = End(e.reason)]
                      [] OTHER -> bk.turns
           state == IF e.type = "turn_started" THEN "running"
                    ELSE IF e.type = "owner_closed" THEN "closed"
                    ELSE IF Running(turns, e.b) THEN "running" ELSE "open"
           gens == [bk.gens EXCEPT ![e.b] = [state |-> state, run |-> IF Taken(e) THEN e.run ELSE gen.run]]
<1>1. Apply(bk, e) = [turns |-> turns, gens |-> gens]
  BY Zenon DEF Apply
<1>2. bk.turns \in [TurnIds -> States] /\ bk.gens \in [Backends -> Generations] /\ e.b \in Backends
      /\ e.run \in 0..MaxRuns
  <2>1. e.b \in Backends /\ e.run \in 1..MaxRuns /\ MaxRuns \in Nat
    BY Observed, LedgerAssumption
  <2> QED
    BY <2>1 DEF Books
<1>3. turns \in [TurnIds -> States] /\ \A x \in TurnIds : turns[x] = TurnAfter(bk, e, x)
  <2>1. CASE e.type = "turn_started"
    <3>1. at \in TurnIds /\ e.type # "turn_done"
      BY <2>1 DEF Observations, TurnIds
    <3>2. CASE bk.turns[at] = "none"
      <4>1. turns = [bk.turns EXCEPT ![at] = "running"]
        BY <2>1, <3>2
      <4> QED
        BY <1>2, <2>1, <3>1, <3>2, <4>1 DEF TurnAfter, States
    <3>3. CASE bk.turns[at] # "none"
      <4>1. turns = bk.turns
        BY <2>1, <3>1, <3>3
      <4> QED
        BY <1>2, <2>1, <3>1, <3>3, <4>1 DEF TurnAfter
    <3> QED
      BY <3>2, <3>3
  <2>2. CASE e.type = "turn_done"
    <3>1. at \in TurnIds /\ e.type # "turn_started"
      BY <2>2 DEF Observations, TurnIds
    <3>2. CASE bk.turns[at] = "running"
      <4>1. turns = [bk.turns EXCEPT ![at] = End(e.reason)]
        BY <2>2, <3>1, <3>2
      <4>2. End(e.reason) \in States
        BY DEF End, States
      <4> QED
        BY <1>2, <2>2, <3>1, <3>2, <4>1, <4>2 DEF TurnAfter
    <3>3. CASE bk.turns[at] # "running"
      <4>1. turns = bk.turns
        BY <2>2, <3>1, <3>3
      <4> QED
        BY <1>2, <2>2, <3>1, <3>3, <4>1 DEF TurnAfter
    <3> QED
      BY <3>2, <3>3
  <2>3. CASE e.type # "turn_started" /\ e.type # "turn_done"
    <3>1. turns = bk.turns
      BY <2>3
    <3> QED
      BY <1>2, <2>3, <3>1 DEF TurnAfter
  <2> QED
    BY <2>1, <2>2, <2>3
<1> HIDE DEF turns
<1>4. gen.run \in 0..MaxRuns /\ (bk.gens[e.b].state = "none" => gen.run = e.run)
      /\ (bk.gens[e.b].state # "none" => gen.run = bk.gens[e.b].run)
  BY <1>2 DEF GenerationOf, Generations
<1>5. state \in {"open", "running", "closed"}
  OBVIOUS
<1> HIDE DEF gen, state
<1>6. gens \in [Backends -> Generations]
  BY <1>2, <1>4, <1>5 DEF Generations
<1>7. \A b \in Backends : gens[b].run = RunAfter(bk, e, b)
  BY <1>2, <1>4 DEF RunAfter
<1> HIDE DEF gens
<1> QED
  BY <1>1, <1>3, <1>6, <1>7 DEF Books

\* Books stay books, whatever is projected onto them.
LEMMA AppliedAreBooks ==
    ASSUME NEW bk \in Books, NEW es \in Seq(Observations)
    PROVE  ApplyAll(bk, es) \in Books
<1> DEFINE B == [n \in 0..Len(es) |-> Books]
<1>1. Len(es) \in Nat /\ bk \in B[0]
  OBVIOUS
<1>2. \A n \in 1..Len(es) : \A k \in B[n - 1] : Apply(k, es[n]) \in B[n]
  BY Applied
<1>3. B[Len(es)] = Books
  BY <1>1
<1> HIDE DEF B
<1>4. ApplyAll(bk, es) \in B[Len(es)]
  BY <1>1, <1>2, ApplyKeeps
<1> QED
  BY <1>3, <1>4

\* A turn that ended, however, stays as it ended.
LEMMA EndedStay ==
    ASSUME NEW bk \in Books, NEW es \in Seq(Observations),
           NEW x \in TurnIds, bk.turns[x] \notin {"none", "running"}
    PROVE  ApplyAll(bk, es).turns[x] = bk.turns[x]
<1> DEFINE C == {k \in Books : k.turns[x] = bk.turns[x]}
           B == [n \in 0..Len(es) |-> C]
<1>1. Len(es) \in Nat /\ bk \in B[0]
  OBVIOUS
<1>2. ASSUME NEW k \in C, NEW e \in Observations PROVE Apply(k, e) \in C
  <2>1. Apply(k, e) \in Books /\ Apply(k, e).turns[x] = TurnAfter(k, e, x)
    BY Applied
  <2> QED
    BY <2>1 DEF TurnAfter
<1>3. \A n \in 1..Len(es) : \A k \in B[n - 1] : Apply(k, es[n]) \in B[n]
  BY <1>2
<1>4. B[Len(es)] = C
  BY <1>1
<1> HIDE DEF B, C
<1>5. ApplyAll(bk, es) \in B[Len(es)]
  BY <1>1, <1>3, ApplyKeeps
<1> QED
  BY <1>4, <1>5 DEF C

\* The seals of a shutdown interrupt the turns they name, as far as those run.
LEMMA SealsInterrupt ==
    ASSUME NEW bk \in Books, NEW es \in Seq(Observations),
           \A n \in 1..Len(es) : es[n].type = "turn_done" /\ es[n].reason = "shutdown"
    PROVE  \A x \in TurnIds : ApplyAll(bk, es).turns[x] =
                IF bk.turns[x] = "running" /\ \E n \in 1..Len(es) : x = <<es[n].b, es[n].turn>>
                THEN "interrupted" ELSE bk.turns[x]
<1> DEFINE Sealed(n, x) == bk.turns[x] = "running" /\ \E m \in 1..n : x = <<es[m].b, es[m].turn>>
           C(n) == {k \in Books : \A x \in TurnIds :
                        k.turns[x] = IF Sealed(n, x) THEN "interrupted" ELSE bk.turns[x]}
           B == [n \in 0..Len(es) |-> C(n)]
<1>1. Len(es) \in Nat
  OBVIOUS
<1>2. bk \in B[0]
  OBVIOUS
<1>3. ASSUME NEW n \in 1..Len(es), NEW k \in B[n - 1] PROVE Apply(k, es[n]) \in B[n]
  <2>1. es[n] \in Observations /\ k \in Books /\ n - 1 \in 0..Len(es) /\ n \in 0..Len(es)
    OBVIOUS
  <2>2. Apply(k, es[n]) \in Books
        /\ \A x \in TurnIds : Apply(k, es[n]).turns[x] = TurnAfter(k, es[n], x)
    BY <2>1, Applied
  <2>3. ASSUME NEW x \in TurnIds
        PROVE  TurnAfter(k, es[n], x) = IF Sealed(n, x) THEN "interrupted" ELSE bk.turns[x]
    <3>1. k.turns[x] = IF Sealed(n - 1, x) THEN "interrupted" ELSE bk.turns[x]
      BY <2>1
    <3>2. Sealed(n, x) <=> Sealed(n - 1, x) \/ (bk.turns[x] = "running" /\ x = <<es[n].b, es[n].turn>>)
      <4>1. \A m \in Int : m \in 1..n <=> m \in 1..n - 1 \/ m = n
        OBVIOUS
      <4> QED
        BY <4>1
    <3> HIDE DEF Sealed
    <3>3. TurnAfter(k, es[n], x) =
            IF x = <<es[n].b, es[n].turn>> /\ k.turns[x] = "running" THEN "interrupted" ELSE k.turns[x]
      BY <2>1 DEF TurnAfter, End
    <3> QED
      BY <3>1, <3>2, <3>3 DEF Sealed
  <2> QED
    BY <2>1, <2>2, <2>3
<1>4. ApplyAll(bk, es) \in B[Len(es)]
  <2> HIDE DEF B
  <2> QED
    BY <1>1, <1>2, <1>3, ApplyKeeps
<1> QED
  BY <1>1, <1>4

\* The generations are projected for no later process than the observations are of.
LEMMA RunsBound ==
    ASSUME NEW bk \in Books, NEW es \in Seq(Observations), NEW r \in Nat,
           \A b \in Backends : bk.gens[b].run <= r, \A n \in 1..Len(es) : es[n].run <= r
    PROVE  \A b \in Backends : ApplyAll(bk, es).gens[b].run <= r
<1> DEFINE C == {k \in Books : \A b \in Backends : k.gens[b].run <= r}
           B == [n \in 0..Len(es) |-> C]
<1>1. Len(es) \in Nat /\ bk \in B[0]
  OBVIOUS
<1>2. ASSUME NEW k \in C, NEW e \in Observations, e.run <= r PROVE Apply(k, e) \in C
  <2>1. Apply(k, e) \in Books /\ \A b \in Backends : Apply(k, e).gens[b].run = RunAfter(k, e, b)
    BY Applied
  <2> QED
    BY <1>2, <2>1 DEF RunAfter
<1>3. \A n \in 1..Len(es) : \A k \in B[n - 1] : Apply(k, es[n]) \in B[n]
  BY <1>2
<1>4. B[Len(es)] = C
  BY <1>1
<1> HIDE DEF B, C
<1>5. ApplyAll(bk, es) \in B[Len(es)]
  BY <1>1, <1>3, ApplyKeeps
<1> QED
  BY <1>4, <1>5 DEF C

\* The sequence made of a finite set holds all of it.
LEMMA Listing ==
    ASSUME NEW F, IsFiniteSet(F)
    PROVE  /\ SetToSeq(F) \in Seq(F)
           /\ \A x \in F : \E n \in 1..Len(SetToSeq(F)) : SetToSeq(F)[n] = x
<1> DEFINE m == Cardinality(F)
           f == SetToSeq(F)
<1>1. m \in Nat /\ ExistsBijection(1..m, F)
  BY FS_CardinalityType
<1>2. PICK g \in Bijection(1..m, F) : TRUE
  BY <1>1 DEF ExistsBijection
<1>3. g \in [1..m -> F] /\ IsInjective(g)
  BY <1>2 DEF Bijection, Injection, IsInjective
<1>4. f \in [1..m -> F] /\ IsInjective(f)
  BY <1>3 DEF SetToSeq
<1>5. f \in Injection(1..m, F)
  BY <1>4 DEF Injection, IsInjective
<1>6. Cardinality(1..m) = m
  BY <1>1, FS_Interval
<1>7. f \in Surjection(1..m, F)
  <2> HIDE DEF f
  <2> QED
    BY <1>5, <1>6, FS_Injection
<1>8. f \in Seq(F) /\ Len(f) = m
  <2> HIDE DEF f
  <2> QED
    BY <1>1, <1>4
<1> HIDE DEF f
<1>9. \A x \in F : \E n \in 1..m : f[n] = x
  BY <1>7 DEF Surjection
<1> QED
  BY <1>8, <1>9 DEF f

------------------------------------------------------------------------------
(* What was received, and the book that follows from it. *)

Names(e, type, x) == e.type = type /\ <<e.b, e.turn>> = x
StartSaid(said, x) == \E s \in said : Names(s, "turn_started", x)
DoneSaid(said, x) == \E s \in said : Names(s, "turn_done", x)

\* A turn is in the book exactly when its start was received, and has ended in it when
\* an end was.
ToldOnce(said, bk) ==
    \A x \in TurnIds :
        /\ StartSaid(said, x) <=> bk.turns[x] # "none"
        /\ DoneSaid(said, x) => bk.turns[x] \notin {"none", "running"}

\* A crashed turn was started by an earlier process, which reported no end of it.
CrashesUnreported(r, said, bk) ==
    \A x \in TurnIds : bk.turns[x] = "crashed" =>
        \A s \in said : Names(s, "turn_started", x) =>
            s.run < r /\ \A e \in said : Names(e, "turn_done", x) => e.run # s.run

RunsPassed(r, said, bk) ==
    /\ \A e \in said : e.run <= r
    /\ \A b \in Backends : bk.gens[b].run <= r

\* ... and while the process is up:
NothingSealed(r, said) == \A s \in said : s.reason = "shutdown" => s.run < r
OwnsRunning(own, bk) ==
    /\ RunningIn(bk) \subseteq own
    /\ own \subseteq {x \in TurnIds : bk.turns[x] # "none"}
GenerationsTaken(r, said, bk) ==
    /\ \A x \in RunningIn(bk) : bk.gens[x[1]].run = r
    /\ \A s \in said : Taken(s) /\ s.run = r => bk.gens[s.b].run = r

Evidence(r, said, bk) == ToldOnce(said, bk) /\ CrashesUnreported(r, said, bk) /\ RunsPassed(r, said, bk)
EvidenceUp(r, said, own, bk) ==
    Evidence(r, said, bk) /\ NothingSealed(r, said) /\ OwnsRunning(own, bk) /\ GenerationsTaken(r, said, bk)

\* What one observation, or several, may change: nothing but the turns in X starts.
Onward(r, said, bk, said2, bk2, X) ==
    /\ said \subseteq said2
    /\ \A s \in said2 \ said : s.type = "turn_started" => <<s.b, s.turn>> \in X
    /\ \A b \in Backends : bk.gens[b].run = r => bk2.gens[b].run = r
    /\ RunningIn(bk2) \subseteq RunningIn(bk) \cup X

\* ... as TurnLog has it: one turn starts or ends, if any.
EndStates == {"completed", "failed", "cancelled", "interrupted"}
OneTurn(was, is) ==
    \/ is = was
    \/ \E t \in TurnIds :
        /\ \/ was[t] = "none" /\ is[t] = "running"
           \/ was[t] = "running" /\ is[t] \in EndStates
        /\ \A u \in TurnIds \ {t} : is[u] = was[u]

OwnedOnceReceived(own, box, e) ==
    CASE e.type = "turn_started" /\ News(box, e) -> own \cup {<<e.b, e.turn>>}
      [] e.type = "turn_done" -> own \ {<<e.b, e.turn>>}
      [] OTHER -> own
BookOnceReceived(bk, box, e) == IF News(box, e) THEN Apply(bk, e) ELSE bk

Starts(e) == IF e.type = "turn_started" THEN {<<e.b, e.turn>>} ELSE {}

\* An observation this process makes: an end is one of a turn that was started, a start
\* one in a generation of this process.
Observable(r, box, bk, e) ==
    /\ e \in Observations /\ e.run = r /\ e.reason # "shutdown"
    /\ e.type = "turn_done" => StartSaid(box.said, <<e.b, e.turn>>)
    /\ e.type = "turn_started" => bk.gens[e.b].run = r

\* The received observation is appended, and will be projected last.
LEMMA Settling ==
    ASSUME NEW bk, NEW box \in Boxes, NEW e \in Observations
    PROVE  /\ Received(box, e) \in Boxes
           /\ ApplyAll(bk, Received(box, e).pending) = BookOnceReceived(ApplyAll(bk, box.pending), box, e)
<1>1. CASE News(box, e)
  <2>1. Received(box, e) = [pending |-> Append(box.pending, e), said |-> box.said \cup {e}]
    BY <1>1 DEF Received
  <2>2. box.pending \in Seq(Observations) /\ box.said \subseteq Observations
    BY DEF Boxes
  <2>3. ApplyAll(bk, Append(box.pending, e)) = Apply(ApplyAll(bk, box.pending), e)
    BY <2>2, ApplyAppend
  <2> QED
    BY <1>1, <2>1, <2>2, <2>3 DEF Boxes, BookOnceReceived
<1>2. CASE ~News(box, e)
  BY <1>2 DEF Received, BookOnceReceived
<1> QED
  BY <1>1, <1>2

\* What is news was not received before; what is not was, of this process if it is a resume.
LEMMA Newness ==
    ASSUME NEW box \in Boxes, NEW e \in Observations, e.reason # "shutdown"
    PROVE  /\ News(box, e) => \A s \in box.said : e.type = "turn_started" => ~Names(s, "turn_started", <<e.b, e.turn>>)
           /\ ~News(box, e) => \E s \in box.said :
                /\ s.type = e.type /\ s.b = e.b /\ s.turn = e.turn
                /\ e.type = "session_resumed" => s.run = e.run
<1>1. CASE News(box, e)
  <2> SUFFICES ASSUME NEW s \in box.said, e.type = "turn_started", s.type = "turn_started",
                      s.b = e.b, s.turn = e.turn
               PROVE  FALSE
    BY <1>1 DEF Names
  <2>1. s.reason = "none" /\ e.reason = "none"
    BY DEF Boxes, Observations
  <2>2. Identity(s) = Identity(e)
    BY <2>1 DEF Identity
  <2> QED
    BY <1>1, <2>2 DEF News
<1>2. CASE ~News(box, e)
  <2>1. PICK s \in box.said : Identity(s) = Identity(e)
    BY <1>2 DEF News
  <2>2. s.type = e.type /\ s.b = e.b /\ s.turn = e.turn
    BY <2>1 DEF Identity
  <2>3. e.type = "session_resumed" => s.run = e.run
    BY <2>1, <2>2 DEF Identity
  <2> QED
    BY <1>2, <2>2, <2>3
<1> QED
  BY <1>1, <1>2

\* What one observation makes of the evidence.
Receives(r, box, own, bk, e, bk2) ==
    /\ bk2 \in Books
    /\ EvidenceUp(r, Received(box, e).said, OwnedOnceReceived(own, box, e), bk2)
    /\ Onward(r, box.said, bk, Received(box, e).said, bk2, Starts(e))
    /\ e.type = "turn_started" => StartSaid(Received(box, e).said, <<e.b, e.turn>>)
    /\ e.type = "turn_done" => <<e.b, e.turn>> \notin RunningIn(bk2)
    /\ e.type = "session_resumed" \/ (Taken(e) /\ News(box, e)) => bk2.gens[e.b].run = r
    /\ OneTurn(bk.turns, bk2.turns)
    /\ e.type = "owner_closed" => bk2.turns = bk.turns

\* Receiving an observation keeps the evidence, and does to the settled books what it says.
LEMMA Receipt ==
    ASSUME NEW r \in 1..MaxRuns, NEW box \in Boxes, NEW own, NEW bk \in Books, NEW e,
           EvidenceUp(r, box.said, own, bk), Observable(r, box, bk, e),
           NEW bk2, bk2 = BookOnceReceived(bk, box, e)
    PROVE  Receives(r, box, own, bk, e, bk2)
<1> DEFINE at == <<e.b, e.turn>>
           said == box.said
           said2 == Received(box, e).said
           own2 == OwnedOnceReceived(own, box, e)
<1>1. e \in Observations /\ e.run = r /\ e.reason # "shutdown" /\ said \subseteq Observations
  BY DEF Observable, Boxes
<1>2. CASE ~News(box, e)
  <2>1. said2 = said /\ bk2 = bk
    BY <1>2 DEF Received, BookOnceReceived
  <2>2. PICK s \in said : s.type = e.type /\ s.b = e.b /\ s.turn = e.turn
                          /\ (e.type = "session_resumed" => s.run = e.run)
    BY <1>1, <1>2, Newness
  <2>3. e.type = "turn_done" => at \notin RunningIn(bk)
    <3> SUFFICES ASSUME e.type = "turn_done" PROVE at \notin RunningIn(bk)
      OBVIOUS
    <3>1. at \in TurnIds
      BY <1>1 DEF Observations, TurnIds
    <3>2. DoneSaid(said, at)
      BY <2>2 DEF DoneSaid, Names
    <3> QED
      BY <3>1, <3>2 DEF EvidenceUp, Evidence, ToldOnce, RunningIn
  <2>4. OwnsRunning(own2, bk)
    <3>1. own2 = IF e.type = "turn_done" THEN own \ {at} ELSE own
      BY <1>2 DEF OwnedOnceReceived
    <3> QED
      BY <2>3, <3>1 DEF EvidenceUp, OwnsRunning
  <2>5. e.type = "session_resumed" => bk.gens[e.b].run = r
    BY <1>1, <2>2 DEF EvidenceUp, GenerationsTaken, Taken
  <2>6. e.type = "turn_started" => StartSaid(said, at)
    BY <2>2 DEF StartSaid, Names
  <2>7. Onward(r, said, bk, said, bk, Starts(e))
    BY DEF Onward
  <2>8. OneTurn(bk.turns, bk2.turns)
    BY <2>1 DEF OneTurn
  <2> QED
    BY <1>2, <2>1, <2>3, <2>4, <2>5, <2>6, <2>7, <2>8 DEF EvidenceUp, Receives, Taken
<1>3. CASE News(box, e)
  <2>1. said2 = said \cup {e} /\ bk2 = Apply(bk, e)
    BY <1>3 DEF Received, BookOnceReceived
  <2>2. /\ bk2 \in Books
        /\ \A x \in TurnIds : bk2.turns[x] = TurnAfter(bk, e, x)
        /\ \A b \in Backends : bk2.gens[b].run = RunAfter(bk, e, b)
    BY <1>1, <2>1, Applied
  <2>3. /\ \A x \in TurnIds : /\ StartSaid(said, x) <=> bk.turns[x] # "none"
                              /\ DoneSaid(said, x) => bk.turns[x] \notin {"none", "running"}
        /\ RunsPassed(r, said, bk) /\ NothingSealed(r, said) /\ OwnsRunning(own, bk)
    BY DEF EvidenceUp, Evidence, ToldOnce
  <2>4. e.type = "turn_started" => at \in TurnIds /\ bk.turns[at] = "none" /\ bk.gens[e.b].run = r
    <3> SUFFICES ASSUME e.type = "turn_started"
                 PROVE  at \in TurnIds /\ bk.turns[at] = "none" /\ bk.gens[e.b].run = r
      OBVIOUS
    <3>1. at \in TurnIds
      BY <1>1 DEF Observations, TurnIds
    <3>2. ~StartSaid(said, at)
      BY <1>1, <1>3, Newness DEF StartSaid
    <3> QED
      BY <2>3, <3>1, <3>2 DEF Observable
  <2>5. e.type = "turn_done" => at \in TurnIds /\ bk.turns[at] # "none"
    <3> SUFFICES ASSUME e.type = "turn_done" PROVE at \in TurnIds /\ bk.turns[at] # "none"
      OBVIOUS
    <3>1. at \in TurnIds
      BY <1>1 DEF Observations, TurnIds
    <3> QED
      BY <2>3, <3>1 DEF Observable
  <2>6. End(e.reason) \notin {"none", "running", "crashed"}
    BY DEF End
  <2>7. \A x \in TurnIds : bk2.turns[x] =
            IF e.type = "turn_started" /\ x = at THEN "running"
            ELSE IF e.type = "turn_done" /\ x = at /\ bk.turns[x] = "running" THEN End(e.reason)
            ELSE bk.turns[x]
    BY <2>2, <2>4 DEF TurnAfter
  <2>8. \A x \in TurnIds :
            /\ StartSaid(said2, x) <=> StartSaid(said, x) \/ (e.type = "turn_started" /\ x = at)
            /\ DoneSaid(said2, x) <=> DoneSaid(said, x) \/ (e.type = "turn_done" /\ x = at)
    BY <2>1 DEF StartSaid, DoneSaid, Names
  <2>9. ToldOnce(said2, bk2)
    <3> SUFFICES ASSUME NEW x \in TurnIds
                 PROVE  /\ StartSaid(said2, x) <=> bk2.turns[x] # "none"
                        /\ DoneSaid(said2, x) => bk2.turns[x] \notin {"none", "running"}
      BY DEF ToldOnce
    <3> QED
      BY <2>3, <2>4, <2>5, <2>6, <2>7, <2>8
  <2>10. CrashesUnreported(r, said2, bk2)
    <3> SUFFICES ASSUME NEW x \in TurnIds, bk2.turns[x] = "crashed",
                        NEW s \in said2, Names(s, "turn_started", x)
                 PROVE  s.run < r /\ \A d \in said2 : Names(d, "turn_done", x) => d.run # s.run
      BY DEF CrashesUnreported
    <3>1. bk.turns[x] = "crashed"
      BY <2>6, <2>7
    <3>2. s \in said
      BY <2>1, <2>4, <3>1 DEF Names
    <3>3. s.run < r /\ \A d \in said : Names(d, "turn_done", x) => d.run # s.run
      BY <3>1, <3>2 DEF EvidenceUp, Evidence, CrashesUnreported
    <3>4. s.run \in Int /\ r \in Int
      <4>1. s \in Observations
        BY <1>1, <3>2
      <4>2. s.run \in Nat
        BY <4>1, Observed
      <4> QED
        BY <4>2, LedgerAssumption
    <3> QED
      BY <1>1, <2>1, <3>3, <3>4
  <2>11. \A b \in Backends : bk2.gens[b].run = bk.gens[b].run \/ bk2.gens[b].run = r
    BY <1>1, <2>2 DEF RunAfter
  <2>12. RunsPassed(r, said2, bk2) /\ NothingSealed(r, said2)
    BY <1>1, <2>1, <2>3, <2>11 DEF RunsPassed, NothingSealed
  <2>13. /\ RunningIn(bk2) \subseteq RunningIn(bk) \cup Starts(e)
         /\ e.type = "turn_done" => at \notin RunningIn(bk2)
         /\ e.type # "turn_started" => RunningIn(bk2) \subseteq RunningIn(bk)
    BY <2>6, <2>7 DEF RunningIn, Starts
  <2>14. OwnsRunning(own2, bk2)
    <3>1. own2 = IF e.type = "turn_started" THEN own \cup {at}
                 ELSE IF e.type = "turn_done" THEN own \ {at} ELSE own
      BY <1>3 DEF OwnedOnceReceived
    <3> QED
      <4>1. own \subseteq TurnIds /\ RunningIn(bk) \subseteq own /\ \A x \in own : bk.turns[x] # "none"
        BY <2>3 DEF OwnsRunning
      <4>2. RunningIn(bk2) \subseteq own2
        BY <2>13, <3>1, <4>1 DEF Starts
      <4>3. \A x \in TurnIds : bk.turns[x] # "none" => bk2.turns[x] # "none"
        BY <2>6, <2>7
      <4>4. \A x \in own2 : x \in TurnIds /\ bk2.turns[x] # "none"
        BY <2>4, <2>7, <3>1, <4>1, <4>3
      <4> QED
        BY <4>2, <4>4 DEF OwnsRunning
  <2>15. Taken(e) => bk2.gens[e.b].run = r
    BY <1>1, <2>2 DEF RunAfter, Observations
  <2>16. GenerationsTaken(r, said2, bk2)
    <3>1. \A x \in RunningIn(bk) : bk.gens[x[1]].run = r /\ x[1] \in Backends
      BY DEF EvidenceUp, GenerationsTaken, RunningIn, TurnIds
    <3>2. \A x \in RunningIn(bk2) : bk2.gens[x[1]].run = r
      <4> SUFFICES ASSUME NEW x \in RunningIn(bk2) PROVE bk2.gens[x[1]].run = r
        OBVIOUS
      <4>1. CASE x \in RunningIn(bk)
        BY <2>11, <3>1, <4>1
      <4>2. CASE e.type = "turn_started" /\ x = at
        <5>1. x[1] = e.b /\ e.b \in Backends
          BY <1>1, <4>2 DEF Observations
        <5> QED
          BY <2>4, <2>11, <4>2, <5>1
      <4> QED
        BY <2>13, <4>1, <4>2 DEF Starts
    <3>3. \A s \in said2 : Taken(s) /\ s.run = r => bk2.gens[s.b].run = r
      <4> SUFFICES ASSUME NEW s \in said2, Taken(s), s.run = r PROVE bk2.gens[s.b].run = r
        OBVIOUS
      <4>1. CASE s \in said
        <5>1. bk.gens[s.b].run = r /\ s.b \in Backends
          BY <1>1, <4>1 DEF EvidenceUp, GenerationsTaken, Observations
        <5> QED
          BY <2>11, <5>1
      <4>2. CASE s = e
        BY <2>15, <4>2
      <4> QED
        BY <2>1, <4>1, <4>2
    <3> QED
      BY <3>2, <3>3 DEF GenerationsTaken
  <2>17. Onward(r, said, bk, said2, bk2, Starts(e))
    BY <2>1, <2>11, <2>13 DEF Onward, Starts
  <2>18. e.type = "turn_started" => StartSaid(said2, at)
    BY <2>1 DEF StartSaid, Names
  <2>19. EvidenceUp(r, said2, own2, bk2)
    BY <2>9, <2>10, <2>12, <2>14, <2>16 DEF EvidenceUp, Evidence
  <2>20. e.type \notin {"turn_started", "turn_done"} => bk2.turns = bk.turns
    <3> SUFFICES ASSUME e.type \notin {"turn_started", "turn_done"} PROVE bk2.turns = bk.turns
      OBVIOUS
    <3>1. bk.turns \in [TurnIds -> States] /\ bk2.turns \in [TurnIds -> States]
      BY <2>2 DEF Books
    <3>2. \A x \in TurnIds : bk2.turns[x] = bk.turns[x]
      BY <2>7
    <3> QED
      BY <3>1, <3>2
  <2>21. OneTurn(bk.turns, bk2.turns)
    <3>1. CASE e.type = "turn_started"
      <4>1. \A u \in TurnIds \ {at} : bk2.turns[u] = bk.turns[u]
        BY <2>7, <3>1
      <4> QED
        BY <2>4, <2>7, <3>1, <4>1 DEF OneTurn
    <3>2. CASE e.type = "turn_done"
      <4>1. \A u \in TurnIds \ {at} : bk2.turns[u] = bk.turns[u]
        BY <2>7, <3>2
      <4>2. CASE bk.turns[at] = "running"
        <5>1. End(e.reason) \in EndStates
          BY DEF End, EndStates
        <5> QED
          BY <2>5, <2>7, <3>2, <4>1, <4>2, <5>1 DEF OneTurn
      <4>3. CASE bk.turns[at] # "running"
        <5>1. bk.turns \in [TurnIds -> States] /\ bk2.turns \in [TurnIds -> States]
          BY <2>2 DEF Books
        <5>2. \A x \in TurnIds : bk2.turns[x] = bk.turns[x]
          BY <2>7, <3>2, <4>3
        <5>3. bk2.turns = bk.turns
          BY <5>1, <5>2
        <5> QED
          BY <5>3 DEF OneTurn
      <4> QED
        BY <4>2, <4>3
    <3>3. CASE e.type \notin {"turn_started", "turn_done"}
      BY <2>20, <3>3 DEF OneTurn
    <3> QED
      BY <3>1, <3>2, <3>3
  <2> QED
    BY <2>2, <2>13, <2>15, <2>17, <2>18, <2>19, <2>20, <2>21 DEF Taken, Receives
<1> QED
  BY <1>2, <1>3

------------------------------------------------------------------------------
(* The inductive invariant. *)

LedgerTypes ==
    /\ run \in 1..MaxRuns
    /\ life \in {"up", "booting", "closed", "killed"}
    /\ inbox \in Boxes
    /\ owned \subseteq TurnIds /\ IsFiniteSet(owned)
    /\ book \in Books

LedgerInv ==
    /\ Evidence(run, inbox.said, Settled)
    /\ life \in {"up", "booting"} => NothingSealed(run, inbox.said)
    /\ life = "up" => OwnsRunning(owned, Settled) /\ GenerationsTaken(run, inbox.said, Settled)
    /\ life # "up" => owned = {}
    /\ life = "booting" => /\ \A e \in inbox.said : e.run < run
                           /\ \A b \in Backends : Settled.gens[b].run < run
    /\ life = "closed" => inbox.pending = <<>> /\ RunningIn(book) = {}

StopTyped(st) ==
    \/ st \in [at : {"none", "failed"}, kind : {"none"}, b : Backends \cup {None}, status : {"none"},
               intent : {None}, idling : {FALSE}]
    \/ st \in [at : {"destroying"}, kind : {"user", "release", "lost"}, b : Backends,
               status : {"idle", "working"}, intent : Intents \cup {None}, idling : BOOLEAN]

OwnerTypes ==
    /\ binding \in Backends \cup {None}
    /\ \/ row = NoRow
       \/ row \in [intent : Intents, state : Unended \cup {"completed", "failed", "cancelled"},
                   attempt : Attempts, b : Backends]
    /\ \/ sess = NoSession
       \/ sess \in [b : Backends, status : {"opening", "idle", "working"},
                    intent : Intents \cup {None}, idling : BOOLEAN]
    /\ usage \in [Intents -> [b : Backends, attempt : Attempts] \cup {NoUsage}]
    /\ \/ send = NoSend
       \/ send \in [at : {"prior", "refused", "recorded", "baseline", "wire"}, b : Backends, turn : TurnKeys]
    /\ StopTyped(stop)

\* Whoever may end a turn names one that was started.
First(i) == Turn(i, 0)
OwnerInv ==
    /\ life # "up" => sess = NoSession /\ usage = [i \in Intents |-> NoUsage] /\ send = NoSend
                        /\ stop.at # "destroying"
    /\ sess # NoSession => stop.at # "destroying" /\ Settled.gens[sess.b].run = run
    /\ stop.at = "destroying" => Settled.gens[stop.b].run = run
    /\ sess.intent # None => StartSaid(inbox.said, <<sess.b, First(sess.intent)>>)
    /\ stop.intent # None => StartSaid(inbox.said, <<stop.b, First(stop.intent)>>)
    /\ row # NoRow => StartSaid(inbox.said, <<row.b, First(row.intent)>>)
    /\ \A i \in Intents : usage[i] # NoUsage =>
            StartSaid(inbox.said, <<usage[i].b, Turn(i, usage[i].attempt)>>)
    /\ send.at \in {"recorded", "baseline", "wire"} => StartSaid(inbox.said, <<send.b, send.turn>>)

\* What runs of an intent is what the engine accounts it to, or is about to.
RunningOf(bk, i) == {x \in RunningIn(bk) : x[2].intent = i}
OneEach(bk) == \A x, y \in RunningIn(bk) : x[2].intent = y[2].intent => x = y
Accounted(use, bk, i) == RunningOf(bk, i) \subseteq {<<use[i].b, Turn(i, use[i].attempt)>>}
AttemptsBefore(said, rw) ==
    \A s \in said : s.type = "turn_started" /\ s.turn.intent = rw.intent =>
        /\ s.turn.attempt <= rw.attempt
        /\ rw.state = "retrying" => s.turn.attempt < rw.attempt
Sending(use, bk, rw, sd) ==
    /\ rw.intent = sd.turn.intent /\ rw.attempt = sd.turn.attempt
    /\ rw.state \notin {"retrying", "accepted"}
    /\ sd.at \in {"prior", "refused"} => RunningOf(bk, rw.intent) = {}
    /\ sd.at = "wire" => Accounted(use, bk, rw.intent)
    /\ sd.at \in {"recorded", "baseline"} => RunningOf(bk, rw.intent) \subseteq {<<sd.b, sd.turn>>}
AttemptInv ==
    /\ OneEach(Settled)
    /\ life = "up" /\ row.state \in {"retrying", "accepted"} => Accounted(usage, Settled, row.intent)
    /\ row # NoRow => AttemptsBefore(inbox.said, row)
    /\ send # NoSend => Sending(usage, Settled, row, send)

------------------------------------------------------------------------------
(* Observations of the engine, as steps of the ledger. *)

\* The books as they will be are books.
LEMMA SettledIsABook ==
    ASSUME LedgerTypes
    PROVE  Settled \in Books
BY AppliedAreBooks DEF LedgerTypes, Boxes, Settled

Whys == {"end_turn", "error", "cancelled", "interrupted"}
Finishable(b, i) ==
    i # None =>
        /\ b \in Backends /\ i \in Intents
        /\ usage[i] = NoUsage => StartSaid(inbox.said, <<b, First(i)>>)
        /\ usage[i] # NoUsage => StartSaid(inbox.said, <<usage[i].b, Turn(i, usage[i].attempt)>>)

Forgotten(b, i) == IF i = None \/ Foreign(b, i) THEN usage ELSE [usage EXCEPT ![i] = NoUsage]

\* finishTurn ends what the engine accounts the intent to, whether it observes that now or
\* finds it observed.
LEMMA Ending ==
    ASSUME LedgerTypes, OwnerTypes, LedgerInv, Up, NEW b, NEW i, NEW why \in Whys, Finishable(b, i),
           NEW bk, bk = ApplyAll(book, Ended(b, i, why).inbox.pending)
    PROVE  /\ Ended(b, i, why).inbox \in Boxes
           /\ bk \in Books
           /\ Ended(b, i, why).owned \subseteq owned
           /\ EvidenceUp(run, Ended(b, i, why).inbox.said, Ended(b, i, why).owned, bk)
           /\ Onward(run, inbox.said, Settled, Ended(b, i, why).inbox.said, bk, {})
           /\ OneTurn(Settled.turns, bk.turns)
           /\ \A j \in Intents : Accounted(usage, Settled, j) => Accounted(Forgotten(b, i), bk, j)
<1> DEFINE e == DoneOf(b, i, why)
           at == <<b, Turn(i, usage[i].attempt)>>
           box == Ended(b, i, why).inbox
           own == Ended(b, i, why).owned
<1>1. Settled \in Books /\ inbox \in Boxes /\ run \in 1..MaxRuns
  BY SettledIsABook DEF LedgerTypes
<1>2. EvidenceUp(run, inbox.said, owned, Settled)
  BY DEF LedgerInv, Up, EvidenceUp
<1>3. CASE i = None
  <2>1. box = inbox /\ own = owned /\ Forgotten(b, i) = usage
    BY <1>3 DEF Ended, Finishes, Forgotten
  <2>2. bk = Settled
    BY <2>1 DEF Settled
  <2> QED
    BY <1>1, <1>2, <2>1, <2>2 DEF Onward, OneTurn
<1>4. CASE i # None /\ Foreign(b, i)
  <2>1. box = inbox /\ own = owned /\ Forgotten(b, i) = usage
    BY <1>4 DEF Ended, Finishes, Forgotten
  <2>2. bk = Settled
    BY <2>1 DEF Settled
  <2> QED
    BY <1>1, <1>2, <2>1, <2>2 DEF Onward, OneTurn
<1>5. CASE i # None /\ ~Foreign(b, i)
  <2>1. /\ b \in Backends /\ i \in Intents /\ at \in TurnIds
        /\ Turn(i, usage[i].attempt) \in TurnKeys
        /\ StartSaid(inbox.said, at)
        /\ usage[i] # NoUsage => usage[i].b = b
        /\ usage[i] = NoUsage => usage[i].b \notin Backends
    <3>1. b \in Backends /\ i \in Intents
          /\ (usage[i] = NoUsage => StartSaid(inbox.said, <<b, First(i)>>))
          /\ (usage[i] # NoUsage => StartSaid(inbox.said, <<usage[i].b, Turn(i, usage[i].attempt)>>))
      BY <1>5 DEF Finishable
    <3>2. usage[i] \in [b : Backends, attempt : Attempts] \cup {NoUsage}
      BY <3>1 DEF OwnerTypes
    <3>3. usage[i].attempt \in Attempts
      BY <3>2, LedgerAssumption DEF NoUsage, Attempts
    <3>4. usage[i] # NoUsage => usage[i].b = b
      BY <1>5 DEF Foreign
    <3>5. usage[i] = NoUsage => usage[i].attempt = 0 /\ usage[i].b \notin Backends
      BY LedgerAssumption DEF NoUsage
    <3> QED
      BY <3>1, <3>3, <3>4, <3>5 DEF TurnIds, TurnKeys, Turn, First, Attempts
  <2>2. e = [type |-> "turn_done", b |-> b, turn |-> Turn(i, usage[i].attempt), reason |-> why, run |-> run]
    BY DEF DoneOf, Done, Observation
  <2>3. e \in Observations /\ <<e.b, e.turn>> = at
    <3>1. why \in Reasons /\ "turn_done" \in Kinds
      BY DEF Reasons, Whys, Kinds
    <3>2. [type |-> "turn_done", b |-> b, turn |-> Turn(i, usage[i].attempt), reason |-> why, run |-> run]
            \in [type : Kinds, b : Backends, turn : TurnKeys \cup {NoTurn}, reason : Reasons, run : 1..MaxRuns]
      BY <1>1, <2>1, <3>1
    <3>3. e.type = "turn_done" /\ e.turn = Turn(i, usage[i].attempt) /\ e.b = b
      BY <2>2
    <3> HIDE DEF e
    <3>4. e \in Observations
      BY <2>1, <2>2, <3>2, <3>3 DEF Observations
    <3> QED
      BY <3>3, <3>4
  <2>4. Observable(run, inbox, Settled, e)
    BY <2>1, <2>2, <2>3 DEF Observable, Whys
  <2>5. /\ at \notin RunningIn(bk) /\ box \in Boxes /\ bk \in Books /\ own \subseteq owned
        /\ EvidenceUp(run, box.said, own, bk)
        /\ Onward(run, inbox.said, Settled, box.said, bk, {})
        /\ OneTurn(Settled.turns, bk.turns)
    <3>1. CASE Refused(e)
      <4>1. box = inbox /\ own = owned
        BY <3>1 DEF Ended, Finishes
      <4>2. bk = Settled
        BY <4>1 DEF Settled
      <4>3. DoneSaid(inbox.said, at)
        <5>1. PICK s \in inbox.said : Identity(s) = Identity(e)
          BY <3>1 DEF Refused
        <5>2. s.type = "turn_done" /\ <<s.b, s.turn>> = at
          BY <2>2, <5>1 DEF Identity
        <5> QED
          BY <5>2 DEF DoneSaid, Names
      <4>4. at \notin RunningIn(Settled)
        BY <1>2, <2>1, <4>3 DEF EvidenceUp, Evidence, ToldOnce, RunningIn
      <4> QED
        BY <1>1, <1>2, <4>1, <4>2, <4>4 DEF Onward, OneTurn
    <3>2. CASE ~Refused(e)
      <4>1. box = Received(inbox, e) /\ own = OwnedAfter(e)
        BY <1>5, <3>2 DEF Ended, Finishes
      <4>2. own = OwnedOnceReceived(owned, inbox, e) /\ own \subseteq owned
        BY <2>2, <4>1 DEF OwnedAfter, OwnedOnceReceived
      <4>3. box \in Boxes /\ bk = BookOnceReceived(Settled, inbox, e)
        BY <1>1, <2>3, <4>1, Settling DEF Settled
      <4>4. e.type = "turn_done" /\ e.type # "turn_started"
        BY <2>2
      <4> HIDE DEF e, box, own, at
      <4>5. Starts(e) = {}
        BY <4>4 DEF Starts
      <4>6. Receives(run, inbox, owned, Settled, e, bk)
        BY <1>1, <1>2, <2>4, <4>3, Receipt
      <4> QED
        BY <2>3, <4>1, <4>2, <4>3, <4>4, <4>5, <4>6 DEF Receives
    <3> QED
      BY <3>1, <3>2
  <2>6. \A j \in Intents : Accounted(usage, Settled, j) => Accounted(Forgotten(b, i), bk, j)
    <3> SUFFICES ASSUME NEW j \in Intents, Accounted(usage, Settled, j)
                 PROVE  Accounted(Forgotten(b, i), bk, j)
      OBVIOUS
    <3>1. Forgotten(b, i) = [usage EXCEPT ![i] = NoUsage] /\ usage \in [Intents -> [b : Backends, attempt : Attempts] \cup {NoUsage}]
      BY <1>5 DEF Forgotten, OwnerTypes
    <3>2. RunningOf(bk, j) \subseteq RunningOf(Settled, j)
      BY <2>5 DEF RunningOf, Onward
    <3>3. CASE j = i
      <4>1. \A x \in RunningOf(bk, i) : x = <<usage[i].b, Turn(i, usage[i].attempt)>> /\ x # at /\ x[1] \in Backends
        BY <2>5, <3>2, <3>3 DEF Accounted, RunningOf, RunningIn, TurnIds
      <4>2. RunningOf(bk, i) = {}
        BY <2>1, <4>1
      <4> QED
        BY <3>3, <4>2 DEF Accounted
    <3>4. CASE j # i
      <4>1. Forgotten(b, i)[j] = usage[j]
        BY <3>1, <3>4
      <4> QED
        BY <3>2, <4>1 DEF Accounted
    <3> QED
      BY <3>3, <3>4
  <2> QED
    BY <2>5, <2>6
<1> QED
  BY <1>3, <1>4, <1>5

\* What each of these steps keeps, and what goes on from it.
LedgerStep(X) ==
    /\ LedgerTypes' /\ LedgerInv'
    /\ Onward(run, inbox.said, Settled, inbox'.said, Settled', X)
    /\ OneTurn(Settled.turns, Settled'.turns)

\* The ledger's part of the invariant survives a step of a living process that keeps the
\* evidence.
LEMMA LedgerGoesOn ==
    ASSUME LedgerTypes, Up, LedgerKept, inbox' \in Boxes,
           owned' \subseteq TurnIds, IsFiniteSet(owned'),
           EvidenceUp(run, inbox'.said, owned', Settled')
    PROVE  LedgerTypes' /\ LedgerInv'
<1>1. LedgerTypes'
  BY DEF LedgerTypes, LedgerKept
<1>2. life' = "up" /\ run' = run
  BY DEF Up, LedgerKept
<1>3. LedgerInv'
  BY <1>2 DEF LedgerInv, EvidenceUp
<1> QED
  BY <1>1, <1>3

\* Observe is a step of the ledger, and starts the turn it reports and no other.
LEMMA Observing ==
    ASSUME LedgerTypes, LedgerInv, Up, LedgerKept, NEW e, Observable(run, inbox, Settled, e),
           inbox' = Received(inbox, e), owned' = OwnedAfter(e),
           NEW X, X = Starts(e)
    PROVE  /\ LedgerStep(X)
           /\ e.type = "turn_started" => StartSaid(inbox'.said, <<e.b, e.turn>>)
           /\ e.type = "session_resumed" \/ (Taken(e) /\ News(inbox, e)) => Settled'.gens[e.b].run = run
<1>1. Settled \in Books /\ inbox \in Boxes /\ run \in 1..MaxRuns /\ book' = book
  BY SettledIsABook DEF LedgerTypes, LedgerKept
<1>2. EvidenceUp(run, inbox.said, owned, Settled)
  BY DEF LedgerInv, Up, EvidenceUp
<1>3. e \in Observations
  BY DEF Observable
<1>4. inbox' \in Boxes /\ Settled' = BookOnceReceived(Settled, inbox, e)
  BY <1>1, <1>3, Settling DEF Settled
<1>5. owned' = OwnedOnceReceived(owned, inbox, e)
  BY DEF OwnedAfter, OwnedOnceReceived
<1>6. /\ EvidenceUp(run, inbox'.said, owned', Settled')
      /\ Onward(run, inbox.said, Settled, inbox'.said, Settled', X)
      /\ e.type = "turn_started" => StartSaid(inbox'.said, <<e.b, e.turn>>)
      /\ e.type = "session_resumed" \/ (Taken(e) /\ News(inbox, e)) => Settled'.gens[e.b].run = run
      /\ OneTurn(Settled.turns, Settled'.turns)
  <2> DEFINE bk2 == BookOnceReceived(Settled, inbox, e)
  <2>1. Receives(run, inbox, owned, Settled, e, bk2)
    BY <1>1, <1>2, Receipt
  <2>2. inbox' = Received(inbox, e) /\ Settled' = bk2 /\ owned' = OwnedOnceReceived(owned, inbox, e)
    BY <1>4, <1>5
  <2> HIDE DEF bk2
  <2> QED
    BY <2>1, <2>2 DEF Receives
<1>7. owned' \subseteq TurnIds /\ IsFiniteSet(owned')
  <2>1. owned \subseteq TurnIds /\ IsFiniteSet(owned)
    BY DEF LedgerTypes
  <2>2. CASE e.type = "turn_started" /\ News(inbox, e)
    <3>1. owned' = owned \cup {<<e.b, e.turn>>} /\ <<e.b, e.turn>> \in TurnIds
      BY <1>3, <2>2, Observed DEF OwnedAfter
    <3> QED
      BY <2>1, <3>1, FS_AddElement
  <2>3. CASE e.type = "turn_done"
    <3>1. owned' \subseteq owned
      BY <2>3 DEF OwnedAfter
    <3> QED
      BY <2>1, <3>1, FS_Subset
  <2>4. CASE ~(e.type = "turn_started" /\ News(inbox, e)) /\ e.type # "turn_done"
    <3>1. owned' = owned
      BY <2>4 DEF OwnedAfter
    <3> QED
      BY <2>1, <3>1
  <2> QED
    BY <2>2, <2>3, <2>4
<1>8. LedgerTypes' /\ LedgerInv'
  BY <1>4, <1>6, <1>7, LedgerGoesOn
<1> QED
  BY <1>6, <1>8 DEF LedgerStep

\* So is Finish, which starts none; what is accounted to the other intents stays so.
LEMMA Finishing ==
    ASSUME LedgerTypes, OwnerTypes, LedgerInv, Up, LedgerKept, NEW b, NEW i, NEW why \in Whys,
           Finishable(b, i), Finish(b, i, why)
    PROVE  /\ LedgerStep({})
           /\ usage' = Forgotten(b, i)
           /\ \A j \in Intents : Accounted(usage, Settled, j) => Accounted(usage', Settled', j)
<1>1. inbox' = Ended(b, i, why).inbox /\ owned' = Ended(b, i, why).owned /\ usage' = Forgotten(b, i)
      /\ book' = book
  BY DEF Finish, ForgetUsage, Forgotten, LedgerKept
<1>2. Settled' = ApplyAll(book, Ended(b, i, why).inbox.pending)
  BY <1>1 DEF Settled
<1>3. /\ inbox' \in Boxes
      /\ owned' \subseteq owned
      /\ EvidenceUp(run, inbox'.said, owned', Settled')
      /\ Onward(run, inbox.said, Settled, inbox'.said, Settled', {})
      /\ OneTurn(Settled.turns, Settled'.turns)
      /\ \A j \in Intents : Accounted(usage, Settled, j) => Accounted(usage', Settled', j)
  BY <1>1, <1>2, Ending
<1>4. owned' \subseteq TurnIds /\ IsFiniteSet(owned')
  BY <1>3, FS_Subset DEF LedgerTypes
<1>5. LedgerTypes' /\ LedgerInv'
  BY <1>3, <1>4, LedgerGoesOn
<1> QED
  BY <1>1, <1>3, <1>5 DEF LedgerStep

\* So is the loss of a backend.
LEMMA Losing ==
    ASSUME LedgerTypes, OwnerTypes, LedgerInv, Up, LedgerKept, NEW b \in Backends,
           Finishable(b, IntentLost(b)), ObserveLoss(b)
    PROVE  /\ LedgerStep({})
           /\ usage' = Forgotten(b, IntentLost(b))
           /\ \A j \in Intents : Accounted(usage, Settled, j) => Accounted(usage', Settled', j)
<1> DEFINE i == IntentLost(b)
           E == Ended(b, i, "interrupted")
           mid == ApplyAll(book, E.inbox.pending)
           e == Closed(b)
<1>1. /\ inbox' = IF LossRefused(b) THEN inbox ELSE Received(E.inbox, e)
      /\ owned' = E.owned /\ usage' = Forgotten(b, i)
      /\ book' = book
  BY DEF ObserveLoss, ForgetUsage, Forgotten, LedgerKept
<1>2. /\ E.inbox \in Boxes /\ mid \in Books
      /\ E.owned \subseteq owned
      /\ EvidenceUp(run, E.inbox.said, E.owned, mid)
      /\ Onward(run, inbox.said, Settled, E.inbox.said, mid, {})
      /\ OneTurn(Settled.turns, mid.turns)
      /\ \A j \in Intents : Accounted(usage, Settled, j) => Accounted(usage', mid, j)
  <2>1. "interrupted" \in Whys
    BY DEF Whys
  <2> QED
    BY <1>1, <2>1, Ending
<1>3. CASE LossRefused(b)
  <2>1. E.inbox = inbox
    BY <1>3 DEF LossRefused, FinishRefused, Ended, Finishes
  <2>2. Settled' = mid /\ inbox' = E.inbox
    BY <1>1, <1>3, <2>1 DEF Settled
  <2>3. owned' \subseteq TurnIds /\ IsFiniteSet(owned')
    BY <1>1, <1>2, FS_Subset DEF LedgerTypes
  <2> HIDE DEF E, mid, i, e
  <2>4. LedgerTypes' /\ LedgerInv'
    BY <1>1, <1>2, <2>2, <2>3, LedgerGoesOn
  <2> QED
    BY <1>1, <1>2, <2>2, <2>4 DEF LedgerStep, i
<1>4. CASE ~LossRefused(b)
  <2>1. e = [type |-> "owner_closed", b |-> b, turn |-> NoTurn, reason |-> "none", run |-> run]
    BY DEF Closed, Observation
  <2>2. e.type = "owner_closed" /\ e.run = run /\ e.reason = "none" /\ e.b = b
    BY DEF Closed, Observation
  <2>3. e \in Observations
    <3>1. e \in [type : Kinds, b : Backends, turn : TurnKeys \cup {NoTurn}, reason : Reasons, run : 1..MaxRuns]
      BY DEF LedgerTypes, Kinds, Reasons, Closed, Observation
    <3> HIDE DEF e
    <3> QED
      BY <2>2, <3>1 DEF Observations
  <2> HIDE DEF e
  <2>4. Observable(run, E.inbox, mid, e)
    BY <2>2, <2>3 DEF Observable
  <2>5. inbox' \in Boxes /\ Settled' = BookOnceReceived(mid, E.inbox, e)
    BY <1>1, <1>2, <1>4, <2>3, Settling DEF Settled
  <2>6. owned' = OwnedOnceReceived(E.owned, E.inbox, e)
    BY <1>1, <2>2 DEF OwnedOnceReceived
  <2>7. run \in 1..MaxRuns /\ Starts(e) = {}
    BY <2>2 DEF LedgerTypes, Starts
  <2>8. inbox' = Received(E.inbox, e)
    BY <1>1, <1>4
  <2> HIDE DEF E, mid, i
  <2>9. /\ EvidenceUp(run, inbox'.said, owned', Settled')
        /\ Onward(run, E.inbox.said, mid, inbox'.said, Settled', Starts(e))
        /\ e.type = "owner_closed" => Settled'.turns = mid.turns
    <3>1. PICK box, own, c, f : box = E.inbox /\ own = E.owned /\ c = mid /\ f = e
      OBVIOUS
    <3>2. PICK bk2 : bk2 = BookOnceReceived(c, box, f)
      OBVIOUS
    <3>3. /\ run \in 1..MaxRuns /\ box \in Boxes /\ c \in Books
          /\ EvidenceUp(run, box.said, own, c) /\ Observable(run, box, c, f)
      BY <1>2, <2>4, <2>7, <3>1
    <3>4. Receives(run, box, own, c, f, bk2)
      BY <3>2, <3>3, Receipt
    <3> QED
      BY <2>5, <2>6, <2>8, <3>1, <3>2, <3>4 DEF Receives
  <2>10. Onward(run, inbox.said, Settled, inbox'.said, Settled', {})
    BY <1>2, <2>7, <2>9 DEF Onward
  <2>11. OneTurn(Settled.turns, Settled'.turns)
    BY <1>2, <2>2, <2>9
  <2>12. \A j \in Intents : Accounted(usage, Settled, j) => Accounted(usage', Settled', j)
    BY <1>2, <2>2, <2>9 DEF Accounted, RunningOf, RunningIn
  <2>13. owned' \subseteq TurnIds /\ IsFiniteSet(owned')
    BY <1>1, <1>2, FS_Subset DEF LedgerTypes
  <2>14. LedgerTypes' /\ LedgerInv'
    BY <2>5, <2>9, <2>13, LedgerGoesOn
  <2> QED
    BY <1>1, <2>10, <2>11, <2>12, <2>14 DEF LedgerStep, i
<1> QED
  BY <1>3, <1>4

------------------------------------------------------------------------------
(* The other steps of the ledger. *)

\* Projecting what is pending changes nothing of the book it comes to.
LEMMA Draining ==
    ASSUME LedgerTypes, LedgerInv, life \in {"up", "booting"}, inbox.pending # <<>>,
           DrainFirst, UNCHANGED <<run, life, owned>>
    PROVE  LedgerTypes' /\ LedgerInv' /\ Settled' = Settled /\ inbox'.said = inbox.said
<1>1. inbox.pending \in Seq(Observations) /\ inbox.said \subseteq Observations /\ book \in Books
      /\ inbox = [pending |-> inbox.pending, said |-> inbox.said]
  BY DEF LedgerTypes, Boxes
<1>2. Head(inbox.pending) \in Observations /\ Tail(inbox.pending) \in Seq(Observations)
  BY <1>1
<1>3. book' = Apply(book, Head(inbox.pending)) /\ inbox' = [inbox EXCEPT !.pending = Tail(@)]
  BY DEF DrainFirst
<1>4. inbox'.pending = Tail(inbox.pending) /\ inbox'.said = inbox.said /\ inbox' \in Boxes
  BY <1>1, <1>2, <1>3 DEF Boxes
<1>5. Settled' = Settled
  BY <1>1, <1>3, <1>4, ApplyHead DEF Settled
<1>6. book' \in Books
  BY <1>1, <1>2, <1>3, Applied
<1>7. LedgerTypes'
  BY <1>4, <1>6 DEF LedgerTypes
<1>8. life' \in {"up", "booting"} /\ life' = life /\ run' = run /\ owned' = owned
  OBVIOUS
<1>9. LedgerInv'
  BY <1>4, <1>5, <1>8 DEF LedgerInv
<1> QED
  BY <1>4, <1>5, <1>7, <1>9

\* All turns that run are owned, and no seal of this process was received before: an
\* orderly shutdown interrupts what runs, and nothing else.
LEMMA Sealing ==
    ASSUME LedgerTypes, LedgerInv, Shutdown
    PROVE  /\ LedgerTypes' /\ LedgerInv'
           /\ \A x \in TurnIds : Settled'.turns[x] =
                IF Settled.turns[x] = "running" THEN "interrupted" ELSE Settled.turns[x]
           /\ inbox.said \subseteq inbox'.said
           /\ \A s \in inbox'.said \ inbox.said : s.type = "turn_done"
           /\ RunningIn(Settled') = {}
<1> DEFINE D == {Done(o[1], o[2], "shutdown") : o \in owned}
           F == {e \in D : News(inbox, e)}
<1>1. Settled \in Books /\ inbox \in Boxes /\ run \in 1..MaxRuns /\ run \in Nat
  BY SettledIsABook, LedgerAssumption DEF LedgerTypes
<1>2. EvidenceUp(run, inbox.said, owned, Settled)
  BY DEF LedgerInv, Shutdown, EvidenceUp
<1>3. owned \subseteq TurnIds /\ IsFiniteSet(owned)
  BY DEF LedgerTypes
<1>4. \A o \in owned : LET e == Done(o[1], o[2], "shutdown") IN
        e \in Observations /\ e.type = "turn_done" /\ e.reason = "shutdown" /\ e.run = run /\ <<e.b, e.turn>> = o
  <2> SUFFICES ASSUME NEW o \in owned, NEW e, e = Done(o[1], o[2], "shutdown")
               PROVE  e \in Observations /\ e.type = "turn_done" /\ e.reason = "shutdown"
                      /\ e.run = run /\ <<e.b, e.turn>> = o
    OBVIOUS
  <2>1. o[1] \in Backends /\ o[2] \in TurnKeys /\ o = <<o[1], o[2]>>
    BY <1>3 DEF TurnIds
  <2>2. e = [type |-> "turn_done", b |-> o[1], turn |-> o[2], reason |-> "shutdown", run |-> run]
    BY DEF Done, Observation
  <2>3. "turn_done" \in Kinds /\ "shutdown" \in Reasons
    BY DEF Kinds, Reasons
  <2>4. e \in [type : Kinds, b : Backends, turn : TurnKeys \cup {NoTurn}, reason : Reasons, run : 1..MaxRuns]
    BY <1>1, <2>1, <2>2, <2>3
  <2>5. /\ e.type = "turn_done" /\ e.turn \in TurnKeys /\ e.reason = "shutdown" /\ e.run = run
        /\ <<e.b, e.turn>> = o
    BY <2>1, <2>2
  <2>6. e \in Observations
    BY <2>4, <2>5 DEF Observations
  <2> QED
    BY <2>5, <2>6
<1>5. \A e \in F : e \in Observations /\ e.type = "turn_done" /\ e.reason = "shutdown" /\ e.run = run
                     /\ <<e.b, e.turn>> \in owned
  BY <1>4
<1>6. IsFiniteSet(F)
  <2> DEFINE f == [o \in owned |-> Done(o[1], o[2], "shutdown")]
  <2>1. f \in Surjection(owned, D)
    BY DEF Surjection
  <2>2. IsFiniteSet(D)
    BY <1>3, <2>1, FS_Surjection
  <2> QED
    BY <2>2, FS_Subset
<1>7. \A o \in owned : Done(o[1], o[2], "shutdown") \in F
  <2> SUFFICES ASSUME NEW o \in owned, NEW e, e = Done(o[1], o[2], "shutdown"), ~News(inbox, e) PROVE FALSE
    OBVIOUS
  <2>1. e.reason = "shutdown" /\ e.run = run
    BY <1>4
  <2>2. PICK s \in inbox.said : Identity(s) = Identity(e)
    BY DEF News
  <2>3. (IF s.type = "session_resumed" \/ s.reason = "shutdown" THEN s.run ELSE 0) = run /\ s.type = e.type
    BY <2>1, <2>2 DEF Identity
  <2>4. e.type = "turn_done"
    BY <1>4
  <2>5. s.reason = "shutdown" /\ s.run = run
    BY <1>1, <2>3, <2>4
  <2> QED
    BY <1>1, <1>2, <2>5 DEF EvidenceUp, NothingSealed
<1> DEFINE es == Seals
<1>8. /\ es \in Seq(F)
      /\ \A x \in F : \E n \in 1..Len(es) : es[n] = x
  <2> HIDE DEF F
  <2>1. es = SetToSeq(F)
    BY DEF Seals, F
  <2> QED
    BY <1>6, <2>1, Listing
<1> HIDE DEF F, es
<1>9. es \in Seq(Observations) /\ \A n \in 1..Len(es) : es[n] \in F
  <2>1. F \subseteq Observations
    BY <1>5
  <2> QED
    BY <1>8, <2>1, SeqMonotonic, ElementOfSeq
<1>10. ToSet(es) = F
  BY <1>8, <1>9 DEF ToSet
<1>11. inbox'.pending = <<>> /\ inbox'.said = inbox.said \cup F /\ owned' = {} /\ life' = "closed" /\ run' = run
       /\ inbox' = [pending |-> <<>>, said |-> inbox.said \cup F]
       /\ book' = ApplyAll(book, inbox.pending \o es)
  BY <1>10 DEF Shutdown, es
<1>12. book' = ApplyAll(Settled, es) /\ book' \in Books
  <2>1. inbox.pending \in Seq(Observations)
    BY <1>1 DEF Boxes
  <2> QED
    BY <1>1, <1>9, <1>11, <2>1, ApplyConcat, AppliedAreBooks DEF Settled
<1>13. Settled' = book'
  BY <1>11, ApplyNone DEF Settled
<1>14. \A x \in TurnIds : book'.turns[x] = IF Settled.turns[x] = "running" THEN "interrupted" ELSE Settled.turns[x]
  <2>1. \A n \in 1..Len(es) : es[n].type = "turn_done" /\ es[n].reason = "shutdown"
    BY <1>5, <1>9
  <2>2. \A x \in TurnIds : book'.turns[x] =
            IF Settled.turns[x] = "running" /\ \E n \in 1..Len(es) : x = <<es[n].b, es[n].turn>>
            THEN "interrupted" ELSE Settled.turns[x]
    BY <1>1, <1>9, <1>12, <2>1, SealsInterrupt
  <2>3. ASSUME NEW x \in TurnIds, Settled.turns[x] = "running"
        PROVE  \E n \in 1..Len(es) : x = <<es[n].b, es[n].turn>>
    <3>1. x \in owned
      BY <1>2, <2>3 DEF EvidenceUp, OwnsRunning, RunningIn
    <3>2. PICK e : e = Done(x[1], x[2], "shutdown") /\ e \in F /\ <<e.b, e.turn>> = x
      BY <1>4, <1>7, <3>1
    <3> QED
      BY <1>8, <3>2
  <2> QED
    BY <2>2, <2>3
<1>15. RunningIn(book') = {}
  BY <1>14 DEF RunningIn
<1>16. inbox' \in Boxes
  <2>1. inbox.said \cup F \in SUBSET Observations
    BY <1>1, <1>5 DEF Boxes
  <2>2. <<>> \in Seq(Observations)
    OBVIOUS
  <2> QED
    BY <1>11, <2>1, <2>2 DEF Boxes
<1>17. LedgerTypes'
  BY <1>11, <1>12, <1>16, FS_EmptySet DEF LedgerTypes, Shutdown
<1>18. ToldOnce(inbox'.said, book')
  <2> SUFFICES ASSUME NEW x \in TurnIds
               PROVE  /\ StartSaid(inbox'.said, x) <=> book'.turns[x] # "none"
                      /\ DoneSaid(inbox'.said, x) => book'.turns[x] \notin {"none", "running"}
    BY DEF ToldOnce
  <2>1. /\ StartSaid(inbox.said, x) <=> Settled.turns[x] # "none"
        /\ DoneSaid(inbox.said, x) => Settled.turns[x] \notin {"none", "running"}
    BY <1>2 DEF EvidenceUp, Evidence, ToldOnce
  <2>2. StartSaid(inbox'.said, x) <=> StartSaid(inbox.said, x)
    BY <1>5, <1>11 DEF StartSaid, Names
  <2>3. DoneSaid(inbox'.said, x) => DoneSaid(inbox.said, x) \/ x \in owned
    BY <1>5, <1>11 DEF DoneSaid, Names
  <2>4. x \in owned => Settled.turns[x] # "none"
    BY <1>2 DEF EvidenceUp, OwnsRunning
  <2> QED
    BY <1>14, <2>1, <2>2, <2>3, <2>4
<1>19. CrashesUnreported(run, inbox'.said, book')
  <2> SUFFICES ASSUME NEW x \in TurnIds, book'.turns[x] = "crashed",
                      NEW s \in inbox'.said, Names(s, "turn_started", x)
               PROVE  s.run < run /\ \A d \in inbox'.said : Names(d, "turn_done", x) => d.run # s.run
    BY DEF CrashesUnreported
  <2>1. Settled.turns[x] = "crashed" /\ s \in inbox.said
    BY <1>5, <1>11, <1>14 DEF Names
  <2>2. s.run < run /\ \A d \in inbox.said : Names(d, "turn_done", x) => d.run # s.run
    BY <1>2, <2>1 DEF EvidenceUp, Evidence, CrashesUnreported
  <2>3. s.run \in Nat
    <3>1. s \in Observations
      BY <1>1, <2>1 DEF Boxes
    <3> QED
      BY <3>1, Observed
  <2>4. \A d \in F : d.run # s.run
    <3>1. run # s.run
      BY <1>1, <2>2, <2>3
    <3> QED
      BY <1>5, <3>1
  <2> QED
    BY <1>11, <2>2, <2>4
<1>20. RunsPassed(run, inbox'.said, book')
  <2>0. \A e \in F : e.run <= run
    <3>1. run <= run
      BY <1>1
    <3> QED
      BY <1>5, <3>1
  <2>1. \A n \in 1..Len(es) : es[n].run <= run
    BY <1>9, <2>0
  <2>2. (\A b \in Backends : Settled.gens[b].run <= run) /\ \A e \in inbox.said : e.run <= run
    BY <1>2 DEF EvidenceUp, Evidence, RunsPassed
  <2>3. \A b \in Backends : book'.gens[b].run <= run
    BY <1>1, <1>9, <1>12, <2>1, <2>2, RunsBound
  <2> QED
    BY <1>11, <2>0, <2>2, <2>3 DEF RunsPassed
<1>21. LedgerInv'
  BY <1>11, <1>13, <1>15, <1>18, <1>19, <1>20 DEF LedgerInv, Evidence
<1> QED
  BY <1>5, <1>11, <1>13, <1>14, <1>15, <1>17, <1>21

\* A crash of the process changes nothing that is settled.
LEMMA Crashing ==
    ASSUME LedgerTypes, LedgerInv, Crash
    PROVE  LedgerTypes' /\ LedgerInv' /\ Settled' = Settled /\ inbox' = inbox /\ life' # "up"
<1>1. run' = run /\ inbox' = inbox /\ book' = book /\ owned' = {} /\ life' = "killed"
  BY DEF Crash
<1>2. Settled' = Settled
  BY <1>1 DEF Settled
<1>3. LedgerTypes'
  BY <1>1, FS_EmptySet DEF LedgerTypes
<1>4. LedgerInv'
  BY <1>1, <1>2 DEF LedgerInv
<1> QED
  BY <1>1, <1>2, <1>3, <1>4

\* All that was received is of an earlier process than the one that boots.
LEMMA Booting ==
    ASSUME LedgerTypes, LedgerInv, Boot
    PROVE  LedgerTypes' /\ LedgerInv' /\ Settled' = Settled /\ inbox' = inbox /\ life' # "up"
<1>1. run' = run + 1 /\ inbox' = inbox /\ book' = book /\ owned' = owned /\ life' = "booting" /\ run < MaxRuns
      /\ life \in {"closed", "killed"}
  BY DEF Boot
<1>2. Settled' = Settled /\ Settled \in Books
  BY <1>1, SettledIsABook DEF Settled
<1>3. run \in Nat /\ MaxRuns \in Nat /\ run \in 1..MaxRuns /\ inbox.said \subseteq Observations
  BY LedgerAssumption DEF LedgerTypes, Boxes
<1>4. LedgerTypes'
  BY <1>1, <1>3 DEF LedgerTypes
<1>5. \A e \in inbox.said : e.run \in Nat /\ e.run <= run
  BY <1>3, Observed DEF LedgerInv, Evidence, RunsPassed
<1>6. \A b \in Backends : Settled.gens[b].run \in Nat /\ Settled.gens[b].run <= run
  <2>1. \A b \in Backends : Settled.gens[b] \in Generations
    BY <1>2 DEF Books
  <2>2. \A b \in Backends : Settled.gens[b].run <= run
    BY DEF LedgerInv, Evidence, RunsPassed
  <2> QED
    BY <1>3, <2>1, <2>2 DEF Generations
<1>7. (\A e \in inbox.said : e.run < run') /\ \A b \in Backends : Settled.gens[b].run < run'
  BY <1>1, <1>3, <1>5, <1>6
<1>8. NothingSealed(run', inbox.said) /\ RunsPassed(run', inbox.said, Settled)
  BY <1>1, <1>3, <1>5, <1>6, <1>7 DEF NothingSealed, RunsPassed
<1>9. CrashesUnreported(run', inbox.said, Settled)
  BY <1>7 DEF LedgerInv, Evidence, CrashesUnreported
<1>10. ToldOnce(inbox.said, Settled) /\ owned = {}
  BY <1>1 DEF LedgerInv, Evidence
<1>11. LedgerInv'
  BY <1>1, <1>2, <1>7, <1>8, <1>9, <1>10 DEF LedgerInv, Evidence
<1> QED
  BY <1>1, <1>2, <1>4, <1>11

\* Reconciliation takes all that runs as crashed: nothing was received of this process.
LEMMA Reconciling ==
    ASSUME LedgerTypes, LedgerInv, ReconcileInterrupted
    PROVE  /\ LedgerTypes' /\ LedgerInv' /\ inbox' = inbox
           /\ \A x \in TurnIds : Settled'.turns[x] =
                IF Settled.turns[x] = "running" THEN "crashed" ELSE Settled.turns[x]
           /\ RunningIn(Settled') = {}
<1>1. /\ run' = run /\ inbox' = inbox /\ owned' = owned /\ life' = "up" /\ life = "booting"
      /\ book' = Reconciled(book) /\ inbox.pending = <<>>
  BY DEF ReconcileInterrupted
<1>2. Settled = book /\ Settled' = book' /\ book \in Books
  BY <1>1, ApplyNone DEF Settled, LedgerTypes
<1>3. /\ Evidence(run, inbox.said, book)
      /\ NothingSealed(run, inbox.said)
      /\ owned = {}
      /\ \A e \in inbox.said : e.run < run
      /\ \A b \in Backends : book.gens[b].run < run
  BY <1>1, <1>2 DEF LedgerInv
<1>4. run \in Nat /\ (\A b \in Backends : book.gens[b] \in Generations /\ book.gens[b].run # run)
      /\ book.turns \in [TurnIds -> States]
  <2>1. \A b \in Backends : book.gens[b] \in Generations /\ book.gens[b].run \in Nat
    BY <1>2, LedgerAssumption DEF Books, Generations
  <2>2. run \in Nat /\ book.turns \in [TurnIds -> States]
    BY <1>2 DEF LedgerTypes, Books
  <2> QED
    BY <1>3, <2>1, <2>2
<1> DEFINE turns == [x \in DOMAIN book.turns |->
                        IF book.turns[x] = "running" /\ book.gens[x[1]].run # run THEN "crashed" ELSE book.turns[x]]
           gens == [b \in Backends |->
                    IF book.gens[b].run # run /\ book.gens[b].state \in {"running", "open"}
                    THEN [book.gens[b] EXCEPT !.state = IF @ = "running" THEN "interrupted" ELSE "closed"]
                    ELSE book.gens[b]]
<1>5. book' = [turns |-> turns, gens |-> gens]
  BY <1>1 DEF Reconciled
<1>6. \A x \in TurnIds : turns[x] = IF book.turns[x] = "running" THEN "crashed" ELSE book.turns[x]
  BY <1>4 DEF TurnIds
<1>7. turns \in [TurnIds -> States]
  BY <1>4, <1>6 DEF States
<1>8. gens \in [Backends -> Generations] /\ \A b \in Backends : gens[b].run = book.gens[b].run
  BY <1>4 DEF Generations
<1> HIDE DEF turns, gens
<1>9. book' \in Books
  BY <1>5, <1>7, <1>8 DEF Books
<1>10. \A x \in TurnIds : book'.turns[x] = IF book.turns[x] = "running" THEN "crashed" ELSE book.turns[x]
  BY <1>5, <1>6
<1>11. RunningIn(book') = {}
  BY <1>10 DEF RunningIn
<1>12. LedgerTypes'
  BY <1>1, <1>9 DEF LedgerTypes
<1>13. ToldOnce(inbox.said, book')
  BY <1>3, <1>10 DEF Evidence, ToldOnce
<1>14. CrashesUnreported(run, inbox.said, book')
  <2> SUFFICES ASSUME NEW x \in TurnIds, book'.turns[x] = "crashed",
                      NEW s \in inbox.said, Names(s, "turn_started", x)
               PROVE  s.run < run /\ \A d \in inbox.said : Names(d, "turn_done", x) => d.run # s.run
    BY DEF CrashesUnreported
  <2>1. CASE book.turns[x] = "running"
    <3>1. ~DoneSaid(inbox.said, x)
      BY <1>3, <2>1 DEF Evidence, ToldOnce
    <3> QED
      BY <1>3, <3>1 DEF DoneSaid
  <2>2. CASE book.turns[x] # "running"
    <3>1. book.turns[x] = "crashed"
      BY <1>10, <2>2
    <3> QED
      BY <1>3, <3>1 DEF Evidence, CrashesUnreported
  <2> QED
    BY <2>1, <2>2
<1>15. RunsPassed(run, inbox.said, book')
  BY <1>3, <1>5, <1>8 DEF Evidence, RunsPassed
<1>16. OwnsRunning(owned, book')
  BY <1>3, <1>11 DEF OwnsRunning
<1>17. GenerationsTaken(run, inbox.said, book')
  <2>1. \A s \in inbox.said : s.run # run
    <3> SUFFICES ASSUME NEW s \in inbox.said PROVE s.run # run
      OBVIOUS
    <3>1. s \in Observations
      BY DEF LedgerTypes, Boxes
    <3>2. s.run \in Nat /\ s.run < run
      BY <1>3, <3>1, Observed
    <3> QED
      BY <1>4, <3>2
  <2> QED
    BY <1>11, <2>1 DEF GenerationsTaken
<1>18. LedgerInv'
  BY <1>1, <1>2, <1>3, <1>13, <1>14, <1>15, <1>16, <1>17 DEF LedgerInv, Evidence
<1> QED
  BY <1>1, <1>2, <1>10, <1>11, <1>12, <1>18

------------------------------------------------------------------------------
(* The steps of the owner. *)

IInv == LedgerTypes /\ LedgerInv /\ OwnerTypes /\ OwnerInv /\ AttemptInv

\* What no step but a start takes away.
Persists ==
    /\ run' = run /\ life' = life
    /\ LedgerTypes' /\ LedgerInv'
    /\ \A x : StartSaid(inbox.said, x) => StartSaid(inbox'.said, x)
    /\ \A b \in Backends : Settled.gens[b].run = run => Settled'.gens[b].run = run
Quiet ==
    /\ Persists
    /\ \A j : RunningOf(Settled', j) \subseteq RunningOf(Settled, j)
    /\ OneEach(Settled')
    /\ \A rw : AttemptsBefore(inbox.said, rw) => AttemptsBefore(inbox'.said, rw)

\* A step of the ledger takes back nothing that was said or ended.
LEMMA Persisting ==
    ASSUME NEW X, LedgerStep(X), run' = run, life' = life
    PROVE  Persists
<1>1. Onward(run, inbox.said, Settled, inbox'.said, Settled', X) /\ LedgerTypes' /\ LedgerInv'
  BY DEF LedgerStep
<1>2. \A x : StartSaid(inbox.said, x) => StartSaid(inbox'.said, x)
  BY <1>1 DEF Onward, StartSaid
<1> QED
  BY <1>1, <1>2 DEF Onward, Persists

\* And one that starts no turn leaves no more turns running than there were.
LEMMA Quietly ==
    ASSUME LedgerStep({}), run' = run, life' = life, OneEach(Settled)
    PROVE  Quiet
<1>1. Onward(run, inbox.said, Settled, inbox'.said, Settled', {})
  BY DEF LedgerStep
<1>2. RunningIn(Settled') \subseteq RunningIn(Settled)
  BY <1>1 DEF Onward
<1>3. \A j : RunningOf(Settled', j) \subseteq RunningOf(Settled, j)
  BY <1>2 DEF RunningOf
<1>4. OneEach(Settled')
  BY <1>2 DEF OneEach
<1>5. \A rw : AttemptsBefore(inbox.said, rw) => AttemptsBefore(inbox'.said, rw)
  BY <1>1 DEF Onward, AttemptsBefore
<1>6. Persists
  BY Persisting
<1> QED
  BY <1>3, <1>4, <1>5, <1>6 DEF Quiet

\* A start makes one turn run, of an intent of which none did.
LEMMA Starting ==
    ASSUME NEW x, LedgerStep({x}), OneEach(Settled), RunningOf(Settled, x[2].intent) = {}
    PROVE  /\ OneEach(Settled')
           /\ RunningOf(Settled', x[2].intent) \subseteq {x}
           /\ \A j : j # x[2].intent => RunningOf(Settled', j) \subseteq RunningOf(Settled, j)
           /\ \A rw : AttemptsBefore(inbox.said, rw) /\ (rw.intent = x[2].intent =>
                            x[2].attempt <= rw.attempt /\ rw.state # "retrying")
                        => AttemptsBefore(inbox'.said, rw)
<1>1. Onward(run, inbox.said, Settled, inbox'.said, Settled', {x})
  BY DEF LedgerStep
<1>2. RunningIn(Settled') \subseteq RunningIn(Settled) \cup {x}
  BY <1>1 DEF Onward
<1>3. RunningOf(Settled', x[2].intent) \subseteq {x}
  BY <1>2 DEF RunningOf
<1>4. \A j : j # x[2].intent => RunningOf(Settled', j) \subseteq RunningOf(Settled, j)
  BY <1>2 DEF RunningOf
<1>5. OneEach(Settled')
  BY <1>2 DEF OneEach, RunningOf
<1>6. ASSUME NEW rw, AttemptsBefore(inbox.said, rw),
             rw.intent = x[2].intent => x[2].attempt <= rw.attempt /\ rw.state # "retrying"
      PROVE  AttemptsBefore(inbox'.said, rw)
  <2> SUFFICES ASSUME NEW s \in inbox'.said, s.type = "turn_started", s.turn.intent = rw.intent
               PROVE  s.turn.attempt <= rw.attempt /\ (rw.state = "retrying" => s.turn.attempt < rw.attempt)
    BY DEF AttemptsBefore
  <2>1. CASE s \in inbox.said
    BY <1>6, <2>1 DEF AttemptsBefore
  <2>2. CASE s \notin inbox.said
    <3>1. <<s.b, s.turn>> = x
      BY <1>1, <2>2 DEF Onward
    <3>2. s.turn = x[2]
      BY <3>1
    <3> QED
      BY <1>6, <3>2
  <2> QED
    BY <2>1, <2>2
<1> QED
  BY <1>3, <1>4, <1>5, <1>6

\* A step that leaves the ledger alone is such a step.
LEMMA LedgerUnchanged ==
    ASSUME IInv, UNCHANGED ledger
    PROVE  Quiet /\ Settled' = Settled /\ inbox' = inbox /\ run' = run /\ life' = life
<1>1. run' = run /\ life' = life /\ inbox' = inbox /\ owned' = owned /\ book' = book
  BY DEF ledger
<1>2. Settled' = Settled
  BY <1>1 DEF Settled
<1>3. LedgerTypes' /\ LedgerInv'
  BY <1>1, <1>2 DEF IInv, LedgerTypes, LedgerInv
<1> QED
  BY <1>1, <1>2, <1>3 DEF Quiet, Persists, IInv, AttemptInv

------------------------------------------------------------------------------
(* Steps that observe nothing. *)

\* The parts of the invariant.
LEMMA InvParts ==
    ASSUME IInv
    PROVE  LedgerTypes /\ LedgerInv /\ OwnerTypes /\ OwnerInv /\ AttemptInv
BY DEF IInv

\* What a step that observes nothing must keep of its owners for the invariant to survive.
LEMMA Unobserved ==
    ASSUME IInv, UNCHANGED ledger, OwnerTypes',
           /\ sess' # NoSession => Up /\ stop'.at # "destroying" /\ Settled.gens[sess'.b].run = run
           /\ stop'.at = "destroying" => Up /\ Settled.gens[stop'.b].run = run
           /\ sess'.intent # None => StartSaid(inbox.said, <<sess'.b, First(sess'.intent)>>)
           /\ stop'.intent # None => StartSaid(inbox.said, <<stop'.b, First(stop'.intent)>>)
           /\ row'.intent = row.intent /\ row'.b = row.b,
           \/ send' = NoSend
           \/ Up /\ send'.at \in {"recorded", "baseline", "wire"} /\ StartSaid(inbox.said, <<send'.b, send'.turn>>)
                 /\ Sending(usage', Settled, row', send')
           \/ send' = send /\ (send # NoSend => Sending(usage', Settled, row', send)),
           \/ usage' = usage
           \/ Up /\ \A i \in Intents : usage'[i] # usage[i] =>
                        StartSaid(inbox.said, <<usage'[i].b, Turn(i, usage'[i].attempt)>>),
           Up /\ row'.state \in {"retrying", "accepted"} => Accounted(usage', Settled, row'.intent),
           row' # NoRow => row # NoRow /\ AttemptsBefore(inbox.said, row')
    PROVE  IInv'
<1>1. LedgerTypes' /\ LedgerInv' /\ Settled' = Settled /\ inbox' = inbox /\ run' = run /\ life' = life
  BY LedgerUnchanged DEF Quiet, Persists
<1>2. OwnerTypes /\ OwnerInv /\ AttemptInv
  BY InvParts
<1>3. OwnerInv'
  <2>1. life' # "up" => sess' = NoSession /\ usage' = [i \in Intents |-> NoUsage] /\ send' = NoSend
                        /\ stop'.at # "destroying"
    BY <1>1, <1>2 DEF OwnerInv, Up
  <2>2. row' # NoRow => StartSaid(inbox.said, <<row'.b, First(row'.intent)>>)
    BY <1>2 DEF OwnerInv
  <2>3. ASSUME NEW i \in Intents, usage'[i] # NoUsage
        PROVE  StartSaid(inbox.said, <<usage'[i].b, Turn(i, usage'[i].attempt)>>)
    <3>1. CASE usage'[i] = usage[i]
      BY <1>2, <2>3, <3>1 DEF OwnerInv
    <3>2. CASE usage'[i] # usage[i]
      BY <3>2
    <3> QED
      BY <3>1, <3>2
  <2>4. send'.at \in {"recorded", "baseline", "wire"} => StartSaid(inbox.said, <<send'.b, send'.turn>>)
    BY <1>2 DEF OwnerInv, NoSend
  <2> QED
    BY <1>1, <2>1, <2>2, <2>3, <2>4 DEF OwnerInv
<1>4. AttemptInv'
  BY <1>1, <1>2 DEF AttemptInv, Up
<1> QED
  BY <1>1, <1>3, <1>4 DEF IInv

\* The steps that observe nothing keep the invariant.
LEMMA WithoutObservation ==
    ASSUME IInv,
           SessionOpens \/ SendWithdrawn \/ DispatchRecorded \/ PromptGoesOut \/ Accepted
           \/ TurnEnds \/ (\E kind \in {"user", "release"} : StopSession(kind)) \/ StopRefused
    PROVE  IInv' /\ UNCHANGED ledger
<1>1. OwnerTypes /\ OwnerInv /\ AttemptInv
  BY InvParts
<1>2. CASE SessionOpens
  <2>1. UNCHANGED <<ledger, row, usage, send, stop, missing>> /\ sess' = [sess EXCEPT !.status = "idle"]
        /\ binding' = sess.b /\ Up /\ sess # NoSession
    BY <1>2 DEF SessionOpens, NoSession
  <2>2. sess'.b = sess.b /\ sess'.intent = sess.intent /\ OwnerTypes'
    BY <1>1, <2>1 DEF OwnerTypes
  <2> QED
    BY <1>1, <2>1, <2>2, Unobserved DEF OwnerInv, AttemptInv, Up
<1>3. CASE SendWithdrawn
  <2>1. UNCHANGED <<ledger, binding, row, sess, usage, stop, missing>> /\ send' = NoSend /\ Up
    BY <1>3 DEF SendWithdrawn
  <2>2. OwnerTypes'
    BY <1>1, <2>1 DEF OwnerTypes
  <2> QED
    BY <1>1, <2>1, <2>2, Unobserved DEF OwnerInv, AttemptInv, Up
<1>4. CASE DispatchRecorded
  <2>1. UNCHANGED <<ledger, binding, row, sess, usage, stop, missing>>
        /\ send.at = "recorded" /\ send' = [send EXCEPT !.at = "baseline"] /\ Up /\ send # NoSend
    BY <1>4 DEF DispatchRecorded, Owns, NoSend
  <2>2. send'.at = "baseline" /\ send'.b = send.b /\ send'.turn = send.turn /\ OwnerTypes'
    BY <1>1, <2>1 DEF OwnerTypes
  <2>3. Sending(usage', Settled, row', send')
    BY <1>1, <2>1, <2>2 DEF AttemptInv, Sending
  <2> QED
    BY <1>1, <2>1, <2>2, <2>3, Unobserved DEF OwnerInv, AttemptInv, Up
<1>5. CASE PromptGoesOut
  <2>1. UNCHANGED <<ledger, binding, row, sess, stop, missing>>
        /\ send.at = "baseline" /\ send' = [send EXCEPT !.at = "wire"] /\ Up /\ send # NoSend
        /\ usage' = [usage EXCEPT ![send.turn.intent] = [b |-> send.b, attempt |-> send.turn.attempt]]
    BY <1>5 DEF PromptGoesOut, Owns, NoSend
  <2> DEFINE i == send.turn.intent
             n == send.turn.attempt
  <2>2. send'.at = "wire" /\ send'.b = send.b /\ send'.turn = send.turn
        /\ i \in Intents /\ n \in Attempts /\ Turn(i, n) = send.turn
    BY <1>1, <2>1 DEF OwnerTypes, TurnKeys, Turn, Attempts
  <2>3. usage' \in [Intents -> [b : Backends, attempt : Attempts] \cup {NoUsage}]
        /\ usage'[i] = [b |-> send.b, attempt |-> n] /\ \A j \in Intents \ {i} : usage'[j] = usage[j]
    BY <1>1, <2>1, <2>2 DEF OwnerTypes
  <2>4. OwnerTypes'
    BY <1>1, <2>1, <2>3 DEF OwnerTypes
  <2>5. Sending(usage', Settled, row', send')
    <3>1. Sending(usage, Settled, row, send) /\ row' = row
      BY <1>1, <2>1 DEF AttemptInv
    <3>2. RunningOf(Settled, row.intent) \subseteq {<<send.b, send.turn>>} /\ row.intent = i
      BY <2>1, <3>1 DEF Sending
    <3>3. Accounted(usage', Settled, row.intent)
      BY <2>2, <2>3, <3>2 DEF Accounted
    <3> QED
      BY <2>2, <3>1, <3>3 DEF Sending
  <2>6. StartSaid(inbox.said, <<send.b, send.turn>>)
    BY <1>1, <2>1 DEF OwnerInv
  <2>7. row'.state \notin {"retrying", "accepted"}
    BY <2>5 DEF Sending
  <2>8. \A j \in Intents : usage'[j] # usage[j] =>
                        StartSaid(inbox.said, <<usage'[j].b, Turn(j, usage'[j].attempt)>>)
    BY <2>2, <2>3, <2>6
  <2> HIDE DEF i, n
  <2> QED
    BY <1>1, <2>1, <2>2, <2>4, <2>5, <2>6, <2>7, <2>8, Unobserved DEF OwnerInv, AttemptInv, Up
<1>6. CASE Accepted
  <2>1. UNCHANGED <<ledger, binding, sess, usage, stop, missing>> /\ Up /\ send' = NoSend
        /\ send.at = "wire" /\ send # NoSend
        /\ row' = IF Owns(send.b) /\ OnItsWay THEN [row EXCEPT !.state = "accepted"] ELSE row
    BY <1>6 DEF Accepted, NoSend
  <2>2. CASE row' = row
    <3>1. OwnerTypes'
      BY <1>1, <2>1, <2>2 DEF OwnerTypes
    <3> QED
      BY <1>1, <2>1, <2>2, <3>1, Unobserved DEF OwnerInv, AttemptInv, Up
  <2>3. CASE OnItsWay /\ row' = [row EXCEPT !.state = "accepted"]
    <3>1. row # NoRow
      BY <2>3 DEF OnItsWay, NoRow
    <3>2. row'.state = "accepted" /\ row'.intent = row.intent /\ row'.b = row.b /\ row'.attempt = row.attempt
          /\ OwnerTypes'
      BY <1>1, <2>1, <2>3, <3>1 DEF OwnerTypes, Unended
    <3>3. Accounted(usage, Settled, row.intent)
      BY <1>1, <2>1 DEF AttemptInv, Sending
    <3>4. AttemptsBefore(inbox.said, row')
      BY <1>1, <3>1, <3>2 DEF AttemptInv, AttemptsBefore
    <3> QED
      BY <1>1, <2>1, <3>1, <3>2, <3>3, <3>4, Unobserved DEF OwnerInv, AttemptInv, Up
  <2> QED
    BY <2>1, <2>2, <2>3
<1>7. CASE TurnEnds
  <2>1. UNCHANGED <<ledger, binding, usage, send, stop, missing>> /\ Up /\ send = NoSend
        /\ row.state = "accepted" /\ row # NoRow /\ sess # NoSession
        /\ row' = [row EXCEPT !.state = "completed"]
        /\ sess' = [sess EXCEPT !.status = "idle", !.idling = TRUE]
    BY <1>7 DEF TurnEnds, Answering, NoRow, NoSession
  <2>2. row'.state = "completed" /\ row'.intent = row.intent /\ row'.b = row.b /\ row'.attempt = row.attempt
        /\ sess'.b = sess.b /\ sess'.intent = sess.intent
    BY <1>1, <2>1 DEF OwnerTypes
  <2>3. OwnerTypes'
    BY <1>1, <2>1 DEF OwnerTypes
  <2>4. AttemptsBefore(inbox.said, row')
    BY <1>1, <2>1, <2>2 DEF AttemptInv, AttemptsBefore
  <2> QED
    BY <1>1, <2>1, <2>2, <2>3, <2>4, Unobserved DEF OwnerInv, AttemptInv, Up
<1>8. CASE \E kind \in {"user", "release"} : StopSession(kind)
  <2>1. PICK kind \in {"user", "release"} : StopSession(kind)
    BY <1>8
  <2>2. UNCHANGED <<ledger, binding, usage, send, missing>> /\ Up /\ sess # NoSession
        /\ stop' = Stopping(kind) /\ sess.status \in {"idle", "working"}
        /\ sess' = NoSession
        /\ row' = IF kind = "user" THEN RowCancelled ELSE row
    BY <2>1 DEF StopSession, Live, NoSession
  <2>3. row' = row \/ (row # NoRow /\ row' = [row EXCEPT !.state = "cancelled"])
    BY <2>2 DEF RowCancelled, NoRow
  <2>4. sess'.intent = None /\ stop'.b = sess.b /\ stop'.intent = sess.intent /\ stop'.at = "destroying"
        /\ row'.intent = row.intent /\ row'.b = row.b /\ row'.attempt = row.attempt
        /\ (row' # row => row'.state = "cancelled") /\ OwnerTypes'
    BY <1>1, <2>2, <2>3 DEF OwnerTypes, StopTyped, NoSession, Stopping
  <2>5. row' # NoRow => row # NoRow /\ AttemptsBefore(inbox.said, row')
    BY <1>1, <2>3, <2>4 DEF AttemptInv, AttemptsBefore
  <2>6. send # NoSend => Sending(usage', Settled, row', send')
    BY <1>1, <2>2, <2>4 DEF AttemptInv, Sending
  <2>7. row'.state \in {"retrying", "accepted"} => row' = row
    BY <2>4
  <2> QED
    BY <1>1, <2>2, <2>4, <2>5, <2>6, <2>7, Unobserved DEF OwnerInv, AttemptInv, Up
<1>9. CASE StopRefused
  <2>1. UNCHANGED <<ledger, binding, row, usage, send, missing>> /\ Up /\ stop.at = "destroying"
        /\ stop' = FailedStop
    BY <1>9 DEF StopRefused
  <2>1a. PICK idling \in {stop.idling, FALSE} :
            sess' = [b |-> stop.b, status |-> stop.status, intent |-> stop.intent, idling |-> idling]
    BY <1>9 DEF StopRefused
  <2>2. stop'.at = "failed" /\ stop'.intent = None /\ sess'.b = stop.b /\ sess'.intent = stop.intent
    BY <2>1, <2>1a DEF FailedStop, NoStop
  <2>3. stop' = [at |-> "failed", kind |-> "none", b |-> stop.b, status |-> "none", intent |-> None,
                 idling |-> FALSE]
    BY <2>1 DEF FailedStop, NoStop
  <2>3a. stop.b \in Backends /\ stop.status \in {"idle", "working"} /\ stop.intent \in Intents \cup {None}
         /\ idling \in BOOLEAN
    BY <1>1, <2>1, <2>1a DEF OwnerTypes, StopTyped
  <2>3b. StopTyped(stop')
    BY <2>3, <2>3a DEF StopTyped
  <2>4. OwnerTypes'
    BY <1>1, <2>1, <2>1a, <2>3a, <2>3b DEF OwnerTypes
  <2> QED
    BY <1>1, <2>1, <2>2, <2>4, Unobserved DEF OwnerInv, AttemptInv, Up
<1>10. UNCHANGED ledger
  BY DEF SessionOpens, SendWithdrawn, DispatchRecorded, PromptGoesOut, Accepted, TurnEnds, StopSession, StopRefused
<1> QED
  BY <1>2, <1>3, <1>4, <1>5, <1>6, <1>7, <1>8, <1>9, <1>10

------------------------------------------------------------------------------
(* Steps that start no turn. *)

\* What a step that starts no turn must keep of its owners for the invariant to survive.
LEMMA StartsNoTurn ==
    ASSUME IInv, Quiet, Up, OwnerTypes',
           \A j \in Intents : Accounted(usage, Settled, j) => Accounted(usage', Settled', j),
           \A i \in Intents : usage'[i] # NoUsage => usage'[i] = usage[i],
           sess' # NoSession => /\ stop'.at # "destroying"
                                /\ Settled.gens[sess'.b].run = run \/ Settled'.gens[sess'.b].run = run,
           stop'.at = "destroying" => Settled.gens[stop'.b].run = run,
           sess'.intent # None => StartSaid(inbox.said, <<sess'.b, First(sess'.intent)>>),
           stop'.intent # None => StartSaid(inbox.said, <<stop'.b, First(stop'.intent)>>),
           \/ row' = row
           \/ /\ row # NoRow /\ row'.intent = row.intent /\ row'.b = row.b /\ row'.attempt = row.attempt
              /\ row'.state \notin {"retrying", "accepted"},
           \/ send' = NoSend
           \/ send' = send
           \/ send'.at \in {"prior", "refused"} /\ Sending(usage', Settled', row', send')
    PROVE  IInv'
<1>1. LedgerTypes' /\ LedgerInv' /\ run' = run /\ life' = life
      /\ (\A x : StartSaid(inbox.said, x) => StartSaid(inbox'.said, x))
      /\ (\A b \in Backends : Settled.gens[b].run = run => Settled'.gens[b].run = run)
      /\ (\A j : RunningOf(Settled', j) \subseteq RunningOf(Settled, j))
      /\ OneEach(Settled')
      /\ (\A rw : AttemptsBefore(inbox.said, rw) => AttemptsBefore(inbox'.said, rw))
  BY DEF Quiet, Persists
<1>2. OwnerTypes /\ OwnerInv /\ AttemptInv
  BY InvParts
<1>3. OwnerInv'
  <2>1. sess' # NoSession => stop'.at # "destroying" /\ Settled'.gens[sess'.b].run = run
    <3>1. sess' # NoSession => sess'.b \in Backends
      BY DEF OwnerTypes
    <3> QED
      BY <1>1, <3>1
  <2>2. stop'.at = "destroying" => Settled'.gens[stop'.b].run = run
    <3>1. stop'.at = "destroying" => stop'.b \in Backends
      BY DEF OwnerTypes, StopTyped
    <3> QED
      BY <1>1, <3>1
  <2>3. row' # NoRow => StartSaid(inbox'.said, <<row'.b, First(row'.intent)>>)
    BY <1>1, <1>2 DEF OwnerInv
  <2>4. \A i \in Intents : usage'[i] # NoUsage =>
            StartSaid(inbox'.said, <<usage'[i].b, Turn(i, usage'[i].attempt)>>)
    BY <1>1, <1>2 DEF OwnerInv
  <2>5. send'.at \in {"recorded", "baseline", "wire"} => StartSaid(inbox'.said, <<send'.b, send'.turn>>)
    BY <1>1, <1>2 DEF OwnerInv, NoSend
  <2> QED
    BY <1>1, <2>1, <2>2, <2>3, <2>4, <2>5 DEF OwnerInv, Up
<1>4. AttemptInv'
  <2>1. row'.state \in {"retrying", "accepted"} => Accounted(usage', Settled', row'.intent)
    <3> SUFFICES ASSUME row'.state \in {"retrying", "accepted"} PROVE Accounted(usage', Settled', row'.intent)
      OBVIOUS
    <3>1. row' = row /\ row # NoRow
      BY DEF NoRow
    <3>2. row.intent \in Intents /\ Accounted(usage, Settled, row.intent)
      BY <1>2, <3>1 DEF OwnerTypes, AttemptInv, Up
    <3> QED
      BY <3>1, <3>2
  <2>2. row' # NoRow => AttemptsBefore(inbox'.said, row')
    <3>1. row' # NoRow => AttemptsBefore(inbox.said, row')
      BY <1>2 DEF AttemptInv, AttemptsBefore
    <3> QED
      BY <1>1, <3>1
  <2>3. send' # NoSend => Sending(usage', Settled', row', send')
    <3> SUFFICES ASSUME send' = send, send # NoSend PROVE Sending(usage', Settled', row', send)
      BY DEF NoSend
    <3>1. Sending(usage, Settled, row, send)
      BY <1>2 DEF AttemptInv
    <3>2. row # NoRow /\ row.intent \in Intents
      <4>1. send.turn.intent \in Intents
        BY <1>2 DEF OwnerTypes, TurnKeys
      <4> QED
        BY <3>1, <4>1, LedgerAssumption DEF Sending, NoRow
    <3>3. RunningOf(Settled', row.intent) \subseteq RunningOf(Settled, row.intent)
          /\ (Accounted(usage, Settled, row.intent) => Accounted(usage', Settled', row.intent))
      BY <1>1, <3>2
    <3>4. row'.intent = row.intent /\ row'.attempt = row.attempt /\ row'.state \notin {"retrying", "accepted"}
      BY <3>1 DEF Sending
    <3> QED
      BY <3>1, <3>3, <3>4 DEF Sending
  <2> QED
    BY <1>1, <2>1, <2>2, <2>3 DEF AttemptInv
<1> QED
  BY <1>1, <1>3, <1>4 DEF IInv

\* Who ends the turn of a session, of a stop or of the recovery row names one that was started.
LEMMA WhatMayEnd ==
    ASSUME IInv
    PROVE  /\ sess # NoSession => Finishable(sess.b, sess.intent)
           /\ stop.at = "destroying" => Finishable(stop.b, stop.intent)
           /\ row # NoRow /\ usage[row.intent] # NoUsage => Finishable(usage[row.intent].b, row.intent)
           /\ \A b \in Backends : Finishable(b, IntentLost(b))
<1>1. OwnerTypes /\ OwnerInv
  BY InvParts
<1>2. sess # NoSession => Finishable(sess.b, sess.intent)
  BY <1>1 DEF OwnerTypes, OwnerInv, Finishable
<1>3. stop.at = "destroying" => Finishable(stop.b, stop.intent)
  BY <1>1 DEF OwnerTypes, StopTyped, OwnerInv, Finishable
<1>4. row # NoRow /\ usage[row.intent] # NoUsage => Finishable(usage[row.intent].b, row.intent)
  BY <1>1 DEF OwnerTypes, OwnerInv, Finishable
<1>5. ASSUME NEW b \in Backends PROVE Finishable(b, IntentLost(b))
  BY <1>1, LedgerAssumption DEF OwnerTypes, OwnerInv, Finishable, IntentLost, NoRow
<1> QED
  BY <1>2, <1>3, <1>4, <1>5

\* Finish starts no turn, and forgets the attempt it ended.
LEMMA QuietFinish ==
    ASSUME IInv, Up, LedgerKept, NEW b, NEW i, NEW why \in Whys, Finishable(b, i), Finish(b, i, why)
    PROVE  /\ Quiet /\ OneTurn(Settled.turns, Settled'.turns)
           /\ \A j \in Intents : Accounted(usage, Settled, j) => Accounted(usage', Settled', j)
           /\ \A j \in Intents : usage'[j] # NoUsage => usage'[j] = usage[j]
           /\ usage' \in [Intents -> [b : Backends, attempt : Attempts] \cup {NoUsage}]
           /\ i \in Intents /\ ~Foreign(b, i) => usage'[i] = NoUsage
<1>1. LedgerTypes /\ LedgerInv /\ OwnerTypes /\ OwnerInv /\ AttemptInv
  BY InvParts
<1>2. /\ LedgerStep({})
      /\ usage' = Forgotten(b, i)
      /\ \A j \in Intents : Accounted(usage, Settled, j) => Accounted(usage', Settled', j)
  BY <1>1, Finishing
<1>3. Quiet
  BY <1>1, <1>2, Quietly DEF LedgerKept, AttemptInv
<1>4. OneTurn(Settled.turns, Settled'.turns)
  BY <1>2 DEF LedgerStep
<1>5. usage \in [Intents -> [b : Backends, attempt : Attempts] \cup {NoUsage}]
  BY <1>1 DEF OwnerTypes
<1> QED
  BY <1>2, <1>3, <1>4, <1>5, LedgerAssumption DEF Forgotten

\* Nor does the loss of a backend.
LEMMA QuietLoss ==
    ASSUME IInv, Up, LedgerKept, NEW b \in Backends, ObserveLoss(b)
    PROVE  /\ Quiet /\ OneTurn(Settled.turns, Settled'.turns)
           /\ \A j \in Intents : Accounted(usage, Settled, j) => Accounted(usage', Settled', j)
           /\ \A j \in Intents : usage'[j] # NoUsage => usage'[j] = usage[j]
           /\ usage' \in [Intents -> [b : Backends, attempt : Attempts] \cup {NoUsage}]
<1>1. LedgerTypes /\ LedgerInv /\ OwnerTypes /\ OwnerInv /\ AttemptInv /\ Finishable(b, IntentLost(b))
  BY InvParts, WhatMayEnd
<1>2. /\ LedgerStep({})
      /\ usage' = Forgotten(b, IntentLost(b))
      /\ \A j \in Intents : Accounted(usage, Settled, j) => Accounted(usage', Settled', j)
  BY <1>1, Losing
<1>3. Quiet
  BY <1>1, <1>2, Quietly DEF LedgerKept, AttemptInv
<1>4. OneTurn(Settled.turns, Settled'.turns)
  BY <1>2 DEF LedgerStep
<1>5. usage \in [Intents -> [b : Backends, attempt : Attempts] \cup {NoUsage}]
  BY <1>1 DEF OwnerTypes
<1> QED
  BY <1>2, <1>3, <1>4, <1>5 DEF Forgotten

\* The failure that is given up, and the failure that is tried again.
LEMMA GivingUp ==
    ASSUME IInv, Up, Live, row # NoRow, LedgerKept, GiveUp, send' = NoSend, UNCHANGED <<binding, stop, missing>>
    PROVE  IInv' /\ OneTurn(Settled.turns, Settled'.turns)
<1>1. OwnerTypes /\ OwnerInv /\ sess # NoSession /\ Finishable(sess.b, sess.intent)
  BY InvParts, WhatMayEnd DEF Live, NoSession
<1>2. Finish(sess.b, sess.intent, "error") /\ row' = [row EXCEPT !.state = "failed"]
      /\ sess' = [sess EXCEPT !.status = "idle", !.intent = None]
  BY DEF GiveUp
<1> DEFINE b == sess.b
           i == sess.intent
<1>3. /\ Quiet /\ OneTurn(Settled.turns, Settled'.turns)
      /\ \A j \in Intents : Accounted(usage, Settled, j) => Accounted(usage', Settled', j)
      /\ \A j \in Intents : usage'[j] # NoUsage => usage'[j] = usage[j]
      /\ usage' \in [Intents -> [b : Backends, attempt : Attempts] \cup {NoUsage}]
  <2> HIDE DEF b, i
  <2>1. Finishable(b, i) /\ Finish(b, i, "error") /\ "error" \in Whys
    BY <1>1, <1>2 DEF b, i, Whys
  <2> QED
    BY <2>1, QuietFinish
<1>4. row'.intent = row.intent /\ row'.b = row.b /\ row'.attempt = row.attempt /\ row'.state = "failed"
      /\ sess'.b = sess.b /\ sess'.intent = None /\ OwnerTypes'
  BY <1>1, <1>2, <1>3 DEF OwnerTypes
<1> QED
  BY <1>1, <1>3, <1>4, StartsNoTurn DEF OwnerInv

\* A failed prompt that waits for its retry keeps the invariant: its attempt stays
\* accounted until the next one is.
LEMMA WaitingForRetry ==
    ASSUME IInv, Up, row # NoRow, row.attempt < MaxRetries, WaitForRetry, Accounted(usage, Settled, row.intent),
           send' = NoSend, UNCHANGED ledger, UNCHANGED <<binding, sess, usage, stop, missing>>
    PROVE  IInv'
<1>1. OwnerTypes /\ OwnerInv /\ AttemptInv
  BY InvParts
<1>2. row' = [row EXCEPT !.state = "retrying", !.attempt = @ + 1]
  BY DEF WaitForRetry
<1>3. row'.state = "retrying" /\ row'.intent = row.intent /\ row'.b = row.b /\ row'.attempt = row.attempt + 1
      /\ row.attempt \in Nat /\ row'.attempt \in Attempts
  BY <1>1, <1>2, LedgerAssumption DEF OwnerTypes, Attempts
<1>4. OwnerTypes'
  BY <1>1, <1>2, <1>3 DEF OwnerTypes, Unended
<1>5. AttemptsBefore(inbox.said, row')
  <2>1. AttemptsBefore(inbox.said, row) /\ inbox \in Boxes
    BY <1>1, InvParts DEF AttemptInv, LedgerTypes
  <2> SUFFICES ASSUME NEW s \in inbox.said, s.type = "turn_started", s.turn.intent = row.intent
               PROVE  s.turn.attempt < row.attempt + 1 /\ s.turn.attempt <= row.attempt + 1
    BY <1>3 DEF AttemptsBefore
  <2>2. s \in Observations /\ s.turn.attempt <= row.attempt
    BY <2>1 DEF AttemptsBefore, Boxes
  <2>3. s.turn \in TurnKeys
    BY <2>2, Observed DEF TurnIds
  <2>4. s.turn.attempt \in 0..MaxRetries
    BY <2>3 DEF TurnKeys
  <2> QED
    BY <1>3, <2>2, <2>4, LedgerAssumption
<1> QED
  BY <1>1, <1>3, <1>4, <1>5, Unobserved DEF OwnerInv, Up

\* The steps that end a turn touch no other turn, and keep the invariant.
LEMMA EndingTurns ==
    ASSUME IInv, Rejected \/ TurnFails \/ ReportIdle \/ Abort \/ StopSettles
    PROVE  IInv' /\ OneTurn(Settled.turns, Settled'.turns)
<1>1. OwnerTypes /\ OwnerInv /\ AttemptInv
  BY InvParts
<1>2. UNCHANGED ledger => OneTurn(Settled.turns, Settled'.turns)
  BY LedgerUnchanged DEF OneTurn
<1>3. CASE Rejected
  <2>1. Up /\ Live /\ send # NoSend /\ OnItsWay /\ row # NoRow /\ send' = NoSend
        /\ LedgerKept /\ UNCHANGED <<binding, stop, missing>>
    BY <1>3 DEF Rejected, Owns, NoSend, OnItsWay, NoRow
  <2>2. CASE GiveUp
    BY <2>1, <2>2, GivingUp
  <2>3. CASE /\ send.at = "wire" /\ row.attempt < MaxRetries
             /\ WaitForRetry /\ UNCHANGED <<sess, usage, inbox, owned>>
    <3>1. Accounted(usage, Settled, row.intent)
      BY <1>1, <2>1, <2>3 DEF AttemptInv, Sending
    <3>2. UNCHANGED ledger
      BY <2>1, <2>3 DEF LedgerKept, ledger
    <3> QED
      BY <1>2, <2>1, <2>3, <3>1, <3>2, WaitingForRetry
  <2> QED
    BY <1>3, <2>2, <2>3 DEF Rejected
<1>4. CASE TurnFails
  <2>1. Up /\ Live /\ send = NoSend /\ send' = NoSend /\ row.state = "accepted" /\ row # NoRow
        /\ LedgerKept /\ UNCHANGED <<binding, stop, missing>>
    BY <1>4 DEF TurnFails, Answering, NoRow
  <2>2. CASE GiveUp
    BY <2>1, <2>2, GivingUp
  <2>3. CASE row.attempt < MaxRetries /\ WaitForRetry /\ UNCHANGED <<sess, usage, inbox, owned>>
    <3>1. Accounted(usage, Settled, row.intent)
      BY <1>1, <2>1 DEF AttemptInv, Up
    <3>2. UNCHANGED ledger
      BY <2>1, <2>3 DEF LedgerKept, ledger
    <3> QED
      BY <1>2, <2>1, <2>3, <3>1, <3>2, WaitingForRetry
  <2> QED
    BY <1>4, <2>2, <2>3 DEF TurnFails
<1>5. CASE ReportIdle
  <2>1. Up /\ sess # NoSession /\ Finish(sess.b, sess.intent, "end_turn")
        /\ sess' = [sess EXCEPT !.intent = None, !.idling = FALSE]
        /\ LedgerKept /\ UNCHANGED <<binding, row, send, stop, missing>>
    BY <1>5 DEF ReportIdle, Live, NoSession
  <2> DEFINE b == sess.b
             i == sess.intent
  <2>2. /\ Quiet /\ OneTurn(Settled.turns, Settled'.turns)
        /\ \A j \in Intents : Accounted(usage, Settled, j) => Accounted(usage', Settled', j)
        /\ \A j \in Intents : usage'[j] # NoUsage => usage'[j] = usage[j]
        /\ usage' \in [Intents -> [b : Backends, attempt : Attempts] \cup {NoUsage}]
    <3> HIDE DEF b, i
    <3>1. Finishable(b, i) /\ Finish(b, i, "end_turn") /\ "end_turn" \in Whys
      BY <2>1, WhatMayEnd DEF b, i, Whys
    <3> QED
      BY <2>1, <3>1, QuietFinish
  <2>3. sess'.b = sess.b /\ sess'.intent = None /\ OwnerTypes'
    BY <1>1, <2>1, <2>2 DEF OwnerTypes
  <2> QED
    BY <1>1, <2>1, <2>2, <2>3, StartsNoTurn DEF OwnerInv
<1>6. CASE Abort
  <2>1. Up /\ sess # NoSession /\ Finish(sess.b, sess.intent, "cancelled") /\ row' = RowCancelled
        /\ sess' = [sess EXCEPT !.intent = None,
            !.status = IF FinishRefused(sess.b, sess.intent, "cancelled") THEN @ ELSE "idle"]
        /\ LedgerKept /\ UNCHANGED <<binding, send, stop, missing>>
    BY <1>6 DEF Abort, Live, NoSession
  <2> DEFINE b == sess.b
             i == sess.intent
  <2>2. /\ Quiet /\ OneTurn(Settled.turns, Settled'.turns)
        /\ \A j \in Intents : Accounted(usage, Settled, j) => Accounted(usage', Settled', j)
        /\ \A j \in Intents : usage'[j] # NoUsage => usage'[j] = usage[j]
        /\ usage' \in [Intents -> [b : Backends, attempt : Attempts] \cup {NoUsage}]
    <3> HIDE DEF b, i
    <3>1. Finishable(b, i) /\ Finish(b, i, "cancelled") /\ "cancelled" \in Whys
      BY <2>1, WhatMayEnd DEF b, i, Whys
    <3> QED
      BY <2>1, <3>1, QuietFinish
  <2>3. row' = row \/ (row # NoRow /\ row' = [row EXCEPT !.state = "cancelled"])
    BY <2>1 DEF RowCancelled, NoRow
  <2> DEFINE s == IF FinishRefused(sess.b, sess.intent, "cancelled") THEN sess.status ELSE "idle"
  <2>4. sess' = [sess EXCEPT !.intent = None, !.status = s] /\ s \in {sess.status, "idle"}
    BY <2>1
  <2> HIDE DEF s
  <2>5. sess'.b = sess.b /\ sess'.intent = None
        /\ sess' \in [b : Backends, status : {"opening", "idle", "working"},
                     intent : Intents \cup {None}, idling : BOOLEAN]
    BY <1>1, <2>1, <2>4 DEF OwnerTypes
  <2>5a. row' = NoRow
         \/ row' \in [intent : Intents, state : Unended \cup {"completed", "failed", "cancelled"},
                      attempt : Attempts, b : Backends]
    BY <1>1, <2>3 DEF OwnerTypes
  <2>5b. OwnerTypes'
    BY <1>1, <2>1, <2>2, <2>5, <2>5a DEF OwnerTypes
  <2>6. \/ row' = row
        \/ /\ row # NoRow /\ row'.intent = row.intent /\ row'.b = row.b /\ row'.attempt = row.attempt
           /\ row'.state \notin {"retrying", "accepted"}
    BY <1>1, <2>3 DEF OwnerTypes
  <2> QED
    BY <1>1, <2>1, <2>2, <2>5, <2>5b, <2>6, StartsNoTurn DEF OwnerInv
<1>7. CASE StopSettles
  <2>1. Up /\ stop.at = "destroying" /\ Finish(stop.b, stop.intent, Why(stop.kind))
        /\ \/ stop' = FailedStop /\ UNCHANGED binding
           \/ stop' = NoStop /\ binding' \in {None, binding}
        /\ LedgerKept /\ UNCHANGED <<row, sess, send, missing>>
    BY <1>7 DEF StopSettles
  <2> DEFINE b == stop.b
             i == stop.intent
             w == Why(stop.kind)
  <2>2. /\ Quiet /\ OneTurn(Settled.turns, Settled'.turns)
        /\ \A j \in Intents : Accounted(usage, Settled, j) => Accounted(usage', Settled', j)
        /\ \A j \in Intents : usage'[j] # NoUsage => usage'[j] = usage[j]
        /\ usage' \in [Intents -> [b : Backends, attempt : Attempts] \cup {NoUsage}]
    <3> HIDE DEF b, i, w
    <3>1. Finishable(b, i) /\ Finish(b, i, w) /\ w \in Whys
      BY <2>1, WhatMayEnd DEF b, i, w, Whys, Why
    <3> QED
      BY <2>1, <3>1, QuietFinish
  <2>3. stop' = [at |-> "failed", kind |-> "none", b |-> stop.b, status |-> "none", intent |-> None,
                 idling |-> FALSE]
        \/ stop' = [at |-> "none", kind |-> "none", b |-> None, status |-> "none", intent |-> None,
                    idling |-> FALSE]
    BY <2>1 DEF FailedStop, NoStop
  <2>4. stop'.at \in {"none", "failed"} /\ stop'.intent = None /\ stop'.kind = "none"
    BY <2>3
  <2>4a. stop.b \in Backends
    BY <1>1, <2>1 DEF OwnerTypes, StopTyped
  <2>4b. StopTyped(stop')
    <3>1. PICK x \in Backends \cup {None}, at \in {"none", "failed"} :
            stop' = [at |-> at, kind |-> "none", b |-> x, status |-> "none", intent |-> None, idling |-> FALSE]
      BY <2>3, <2>4a
    <3> QED
      BY <3>1 DEF StopTyped
  <2>4c. binding' \in Backends \cup {None} /\ UNCHANGED <<row, sess, send>>
    BY <1>1, <2>1 DEF OwnerTypes
  <2>5. OwnerTypes'
    BY <1>1, <2>2, <2>4b, <2>4c DEF OwnerTypes
  <2> QED
    BY <1>1, <2>1, <2>2, <2>4, <2>5, StartsNoTurn DEF OwnerInv
<1> QED
  BY <1>3, <1>4, <1>5, <1>6, <1>7

\* So do the steps that find a backend gone.
LEMMA FindingLosses ==
    ASSUME IInv, ResumeFindsLoss \/ PollFindsLoss
    PROVE  IInv' /\ OneTurn(Settled.turns, Settled'.turns)
<1>1. OwnerTypes /\ OwnerInv /\ AttemptInv
  BY InvParts
<1>2. CASE ResumeFindsLoss
  <2>1. Up /\ binding \in Backends /\ ObserveLoss(binding) /\ binding' \in {binding, None}
        /\ LedgerKept /\ UNCHANGED <<row, sess, send, stop>>
    BY <1>1, <1>2 DEF ResumeFindsLoss, OwnerTypes
  <2>2. /\ Quiet /\ OneTurn(Settled.turns, Settled'.turns)
        /\ \A j \in Intents : Accounted(usage, Settled, j) => Accounted(usage', Settled', j)
        /\ \A j \in Intents : usage'[j] # NoUsage => usage'[j] = usage[j]
        /\ usage' \in [Intents -> [b : Backends, attempt : Attempts] \cup {NoUsage}]
    BY <2>1, QuietLoss
  <2>3. OwnerTypes'
    BY <1>1, <2>1, <2>2 DEF OwnerTypes
  <2> QED
    BY <1>1, <2>1, <2>2, <2>3, StartsNoTurn DEF OwnerInv
<1>3. CASE PollFindsLoss
  <2>1. /\ Up /\ sess # NoSession /\ ObserveLoss(sess.b)
        /\ \/ UNCHANGED <<sess, stop>>
           \/ stop' = Stopping("lost") /\ sess' = NoSession
        /\ sess.status \in {"idle", "working"}
        /\ LedgerKept /\ UNCHANGED <<binding, row, send>>
    BY <1>3 DEF PollFindsLoss, Live, NoSession
  <2>2. sess.b \in Backends
    BY <1>1, <2>1 DEF OwnerTypes
  <2>3. /\ Quiet /\ OneTurn(Settled.turns, Settled'.turns)
        /\ \A j \in Intents : Accounted(usage, Settled, j) => Accounted(usage', Settled', j)
        /\ \A j \in Intents : usage'[j] # NoUsage => usage'[j] = usage[j]
        /\ usage' \in [Intents -> [b : Backends, attempt : Attempts] \cup {NoUsage}]
    BY <2>1, <2>2, QuietLoss
  <2>4. CASE UNCHANGED <<sess, stop>>
    <3>1. OwnerTypes'
      BY <1>1, <2>1, <2>3, <2>4 DEF OwnerTypes
    <3> QED
      BY <1>1, <2>1, <2>3, <2>4, <3>1, StartsNoTurn DEF OwnerInv
  <2>5. CASE stop' = Stopping("lost") /\ sess' = NoSession
    <3>1. stop'.b = sess.b /\ stop'.intent = sess.intent /\ sess'.intent = None
      BY <2>5 DEF NoSession, Stopping
    <3>2. OwnerTypes'
      BY <1>1, <2>1, <2>3, <2>5 DEF OwnerTypes, StopTyped, Stopping
    <3> QED
      BY <1>1, <2>1, <2>3, <2>5, <3>1, <3>2, StartsNoTurn DEF OwnerInv
  <2> QED
    BY <2>1, <2>4, <2>5
<1> QED
  BY <1>2, <1>3

\* A session opened, or resumed, has its generation for this process from then on.
LEMMA Opening ==
    ASSUME IInv, Up, LedgerKept, ~Unsettled, NEW b \in Backends, NEW e,
           \/ e = Opened(b) /\ \A s \in inbox.said : s.b # b
           \/ e = Resumed(b),
           Observe(e), sess' = [b |-> b, status |-> "opening", intent |-> None, idling |-> FALSE],
           UNCHANGED <<binding, row, usage, send, stop, missing>>
    PROVE  IInv' /\ OneTurn(Settled.turns, Settled'.turns)
<1>1. LedgerTypes /\ LedgerInv /\ OwnerTypes /\ OwnerInv /\ AttemptInv
  BY InvParts
<1>2. e \in [type : {"session_started", "session_resumed"}, b : Backends, turn : {NoTurn}, reason : {"none"},
             run : 1..MaxRuns] /\ e.b = b /\ e.run = run
  BY <1>1 DEF Opened, Resumed, Observation, LedgerTypes
<1>3. e.type \in {"session_started", "session_resumed"} /\ e.reason = "none" /\ e.turn = NoTurn
  BY <1>2
<1>4. e \in Observations
  <2>1. e \in [type : Kinds, b : Backends, turn : TurnKeys \cup {NoTurn}, reason : Reasons, run : 1..MaxRuns]
    BY <1>2 DEF Kinds, Reasons
  <2> QED
    BY <1>3, <2>1 DEF Observations
<1>5. Observable(run, inbox, Settled, e) /\ Starts(e) = {}
  BY <1>2, <1>3, <1>4 DEF Observable, Starts
<1>6. e.type = "session_started" => News(inbox, e)
  <2> SUFFICES ASSUME e.type = "session_started", NEW s \in inbox.said PROVE Identity(s) # Identity(e)
    BY DEF News
  <2>1. s.b # e.b
    BY <1>2 DEF Resumed, Observation
  <2> QED
    BY <2>1 DEF Identity
<1>7. LedgerStep({}) /\ Settled'.gens[b].run = run
  <2>1. inbox' = Received(inbox, e) /\ owned' = OwnedAfter(e)
    BY DEF Observe
  <2>2. LedgerStep({})
        /\ (e.type = "session_resumed" \/ (Taken(e) /\ News(inbox, e)) => Settled'.gens[e.b].run = run)
    BY <1>1, <1>5, <2>1, Observing
  <2> QED
    BY <1>2, <1>3, <1>6, <2>2 DEF Taken
<1>8. Quiet
  BY <1>1, <1>7, Quietly DEF LedgerKept, AttemptInv
<1>9. \A j \in Intents : Accounted(usage, Settled, j) => Accounted(usage', Settled', j)
  BY <1>8 DEF Quiet, Accounted
<1>10. sess'.b = b /\ sess'.intent = None /\ OwnerTypes'
  <2> DEFINE s == [b |-> b, status |-> "opening", intent |-> None, idling |-> FALSE]
  <2>1. s \in [b : Backends, status : {"opening", "idle", "working"},
              intent : Intents \cup {None}, idling : BOOLEAN] /\ s.b = b /\ s.intent = None
    OBVIOUS
  <2>2. sess' = s
    OBVIOUS
  <2> HIDE DEF s
  <2> QED
    BY <1>1, <2>1, <2>2 DEF OwnerTypes
<1>11. stop.at # "destroying"
  BY DEF Unsettled
<1>12. IInv'
  BY <1>1, <1>7, <1>8, <1>9, <1>10, <1>11, StartsNoTurn DEF OwnerInv
<1> QED
  BY <1>7, <1>12 DEF LedgerStep

------------------------------------------------------------------------------
(* Steps that start a turn. *)

\* A turn that starts is the only one of its intent.
LEMMA OneStart ==
    ASSUME IInv, Up, LedgerKept, NEW b \in Backends, NEW t \in TurnKeys,
           Observe(Started(b, t)), Settled.gens[b].run = run, RunningOf(Settled, t.intent) = {}
    PROVE  /\ Persists /\ OneTurn(Settled.turns, Settled'.turns)
           /\ StartSaid(inbox'.said, <<b, t>>)
           /\ OneEach(Settled')
           /\ RunningOf(Settled', t.intent) \subseteq {<<b, t>>}
           /\ \A rw : AttemptsBefore(inbox.said, rw) /\ (rw.intent = t.intent =>
                            t.attempt <= rw.attempt /\ rw.state # "retrying")
                        => AttemptsBefore(inbox'.said, rw)
<1>1. LedgerTypes /\ LedgerInv /\ AttemptInv
  BY InvParts
<1> DEFINE e == Started(b, t)
           x == <<b, t>>
<1>2. e.type = "turn_started" /\ e.b = b /\ e.turn = t /\ e.run = run /\ e.reason = "none"
  BY DEF Started, Observation
<1>3. e \in Observations
  <2>1. e \in [type : Kinds, b : Backends, turn : TurnKeys \cup {NoTurn}, reason : Reasons, run : 1..MaxRuns]
    BY <1>1 DEF Started, Observation, Kinds, Reasons, LedgerTypes
  <2> HIDE DEF e
  <2> QED
    BY <1>2, <2>1 DEF Observations
<1>4. inbox' = Received(inbox, e) /\ owned' = OwnedAfter(e)
  BY DEF Observe
<1> HIDE DEF e
<1>5. Observable(run, inbox, Settled, e)
  BY <1>2, <1>3 DEF Observable
<1>6. {x} = Starts(e)
  BY <1>2 DEF Starts
<1>7. x[2] = t
  OBVIOUS
<1>8. LedgerStep({x}) /\ StartSaid(inbox'.said, x)
  <2> HIDE DEF x
  <2>1. LedgerStep({x}) /\ (e.type = "turn_started" => StartSaid(inbox'.said, <<e.b, e.turn>>))
    <3> DEFINE X == {x}
    <3>1. X = Starts(e)
      BY <1>6
    <3> HIDE DEF X
    <3>2. LedgerStep(X) /\ (e.type = "turn_started" => StartSaid(inbox'.said, <<e.b, e.turn>>))
      BY <1>1, <1>4, <1>5, <3>1, Observing
    <3> QED
      BY <3>2 DEF X
  <2> QED
    BY <1>2, <2>1 DEF x
<1>9. Persists /\ OneTurn(Settled.turns, Settled'.turns)
  <2> DEFINE X == {x}
  <2>1. LedgerStep(X) /\ run' = run /\ life' = life
    BY <1>8 DEF LedgerKept
  <2> HIDE DEF X
  <2>2. Persists
    BY <2>1, Persisting
  <2> QED
    BY <2>1, <2>2 DEF LedgerStep
<1>10. OneEach(Settled) /\ RunningOf(Settled, x[2].intent) = {}
  BY <1>1, <1>7 DEF AttemptInv
<1>11. /\ OneEach(Settled')
       /\ RunningOf(Settled', x[2].intent) \subseteq {x}
       /\ \A rw : AttemptsBefore(inbox.said, rw) /\ (rw.intent = x[2].intent =>
                            x[2].attempt <= rw.attempt /\ rw.state # "retrying")
                        => AttemptsBefore(inbox'.said, rw)
  <2> HIDE DEF x
  <2> QED
    BY <1>8, <1>10, Starting
<1> QED
  BY <1>7, <1>8, <1>9, <1>11

\* The prompt is on its way, and the row and the session name its intent.
LEMMA StartsATurn ==
    ASSUME IInv, Up, LedgerKept, NEW t \in TurnKeys,
           Observe(Started(sess.b, t)), sess # NoSession, RunningOf(Settled, t.intent) = {},
           OwnerTypes', UNCHANGED <<usage, stop>>,
           sess'.b = sess.b, sess'.intent # None => \/ sess'.intent = sess.intent
                                                    \/ sess'.intent = t.intent /\ t.attempt = 0
                                                    \/ sess'.intent = row.intent /\ row.b = sess.b /\ row # NoRow,
           row'.intent = t.intent, row'.attempt = t.attempt, row'.state \notin {"retrying", "accepted"},
           \/ row'.b = sess.b /\ t.attempt = 0
           \/ row'.b = row.b /\ row'.intent = row.intent /\ row # NoRow,
           AttemptsBefore(inbox.said, row'),
           send' = [at |-> "recorded", b |-> sess.b, turn |-> t]
    PROVE  IInv' /\ OneTurn(Settled.turns, Settled'.turns)
<1>1. OwnerTypes /\ OwnerInv /\ AttemptInv
  BY InvParts
<1>2. sess.b \in Backends /\ Settled.gens[sess.b].run = run
  BY <1>1 DEF OwnerTypes, OwnerInv
<1>3. /\ Persists /\ OneTurn(Settled.turns, Settled'.turns)
      /\ StartSaid(inbox'.said, <<sess.b, t>>)
      /\ OneEach(Settled')
      /\ RunningOf(Settled', t.intent) \subseteq {<<sess.b, t>>}
      /\ \A rw : AttemptsBefore(inbox.said, rw) /\ (rw.intent = t.intent =>
                            t.attempt <= rw.attempt /\ rw.state # "retrying")
                        => AttemptsBefore(inbox'.said, rw)
  <2> DEFINE b == sess.b
  <2>1. b \in Backends /\ Settled.gens[b].run = run /\ Observe(Started(b, t))
    BY <1>2
  <2> HIDE DEF b
  <2>2. /\ Persists /\ OneTurn(Settled.turns, Settled'.turns)
        /\ StartSaid(inbox'.said, <<b, t>>)
        /\ OneEach(Settled')
        /\ RunningOf(Settled', t.intent) \subseteq {<<b, t>>}
        /\ \A rw : AttemptsBefore(inbox.said, rw) /\ (rw.intent = t.intent =>
                              t.attempt <= rw.attempt /\ rw.state # "retrying")
                          => AttemptsBefore(inbox'.said, rw)
    BY <2>1, OneStart
  <2> QED
    BY <2>2 DEF b
<1>4. /\ run' = run /\ life' = life /\ LedgerTypes' /\ LedgerInv'
      /\ \A x : StartSaid(inbox.said, x) => StartSaid(inbox'.said, x)
      /\ \A b \in Backends : Settled.gens[b].run = run => Settled'.gens[b].run = run
  BY <1>3 DEF Persists
<1>5. t = Turn(t.intent, t.attempt) /\ t.attempt \in Nat /\ t.intent \in Intents
      /\ (t.attempt = 0 => t = First(t.intent))
  BY LedgerAssumption DEF TurnKeys, Turn, First
<1>6. send'.at = "recorded" /\ send'.b = sess.b /\ send'.turn = t
  OBVIOUS
<1>7. OwnerInv'
  <2>1. sess' # NoSession => stop'.at # "destroying" /\ Settled'.gens[sess'.b].run = run
    BY <1>1, <1>2, <1>4 DEF OwnerInv
  <2>2. stop'.at = "destroying" => Settled'.gens[stop'.b].run = run
    BY <1>1 DEF OwnerInv
  <2>3. sess'.intent # None => StartSaid(inbox'.said, <<sess'.b, First(sess'.intent)>>)
    BY <1>1, <1>3, <1>4, <1>5 DEF OwnerInv
  <2>4. stop'.intent # None => StartSaid(inbox'.said, <<stop'.b, First(stop'.intent)>>)
    BY <1>1, <1>4 DEF OwnerInv
  <2>5. StartSaid(inbox'.said, <<row'.b, First(row'.intent)>>)
    BY <1>1, <1>3, <1>4, <1>5 DEF OwnerInv
  <2>6. \A i \in Intents : usage'[i] # NoUsage =>
            StartSaid(inbox'.said, <<usage'[i].b, Turn(i, usage'[i].attempt)>>)
    BY <1>1, <1>4 DEF OwnerInv
  <2>7. StartSaid(inbox'.said, <<send'.b, send'.turn>>)
    BY <1>3, <1>6
  <2> QED
    BY <1>4, <2>1, <2>2, <2>3, <2>4, <2>5, <2>6, <2>7 DEF OwnerInv, Up
<1>8. AttemptInv'
  <2>1. AttemptsBefore(inbox'.said, row')
    BY <1>3, <1>5
  <2>2. Sending(usage', Settled', row', send')
    BY <1>3, <1>6 DEF Sending
  <2> QED
    BY <1>3, <2>1, <2>2 DEF AttemptInv
<1> QED
  BY <1>3, <1>4, <1>7, <1>8 DEF IInv

\* What runs was received as started.
LEMMA RunningWasSaid ==
    ASSUME LedgerInv, NEW i, NEW x \in RunningOf(Settled, i)
    PROVE  /\ x \in TurnIds /\ x[2].intent = i
           /\ \E s \in inbox.said : s.type = "turn_started" /\ <<s.b, s.turn>> = x /\ s.turn = x[2]
<1>1. x \in TurnIds /\ Settled.turns[x] = "running" /\ x[2].intent = i
  BY DEF RunningOf, RunningIn
<1>2. StartSaid(inbox.said, x)
  BY <1>1 DEF LedgerInv, Evidence, ToldOnce
<1>3. PICK s \in inbox.said : s.type = "turn_started" /\ <<s.b, s.turn>> = x
  BY <1>2 DEF StartSaid, Names
<1>4. s.turn = x[2]
  BY <1>3
<1> QED
  BY <1>1, <1>3, <1>4

\* A message starts the first attempt of its intent.
LEMMA Sends ==
    ASSUME IInv, NEW i \in Intents, SendMessage(i)
    PROVE  IInv' /\ OneTurn(Settled.turns, Settled'.turns)
<1>1. LedgerTypes /\ LedgerInv /\ OwnerTypes /\ OwnerInv /\ AttemptInv
  BY InvParts
<1> DEFINE t == Turn(i, 0)
<1>2. /\ Up /\ sess # NoSession /\ LedgerKept /\ UNCHANGED <<binding, usage, stop>>
      /\ \A s \in inbox.said : s.turn.intent # i
      /\ row' = [intent |-> i, state |-> "sending", attempt |-> 0, b |-> sess.b]
      /\ sess' = [sess EXCEPT !.status = "working", !.intent = i]
      /\ Observe(Started(sess.b, t))
      /\ send' = [at |-> "recorded", b |-> sess.b, turn |-> t]
  BY DEF SendMessage, Live, NoSession, Begin
<1>3. t \in TurnKeys /\ t.intent = i /\ t.attempt = 0
  BY LedgerAssumption DEF Turn, TurnKeys
<1>4. RunningOf(Settled, i) = {}
  BY <1>1, <1>2, RunningWasSaid
<1>5. AttemptsBefore(inbox.said, row')
  BY <1>2 DEF AttemptsBefore
<1>6. sess'.b = sess.b /\ sess'.intent = i /\ sess.b \in Backends
  BY <1>1, <1>2 DEF OwnerTypes
<1>7. OwnerTypes'
  <2>1. row' \in [intent : Intents, state : Unended \cup {"completed", "failed", "cancelled"},
                  attempt : Attempts, b : Backends]
    BY <1>2, <1>6, LedgerAssumption DEF Unended, Attempts
  <2>2. send' \in [at : {"prior", "refused", "recorded", "baseline", "wire"}, b : Backends, turn : TurnKeys]
    BY <1>2, <1>3, <1>6
  <2>3. sess' \in [b : Backends, status : {"opening", "idle", "working"},
                   intent : Intents \cup {None}, idling : BOOLEAN]
    BY <1>1, <1>2 DEF OwnerTypes
  <2> QED
    BY <1>1, <1>2, <2>1, <2>2, <2>3 DEF OwnerTypes
<1>8. row'.intent = t.intent /\ row'.attempt = t.attempt /\ row'.state = "sending" /\ row'.b = sess.b
  BY <1>2, <1>3
<1> HIDE DEF t
<1> QED
  BY <1>2, <1>3, <1>4, <1>5, <1>6, <1>7, <1>8, StartsATurn

\* An attempt that is not accounted for, or that is the row's own, does not run: nothing
\* of the intent does.
LEMMA NothingRunsOfARetry ==
    ASSUME IInv, Up, row.state = "retrying", ~AttemptOpen(row.intent)
    PROVE  RunningOf(Settled, row.intent) = {}
<1>1. LedgerTypes /\ LedgerInv /\ OwnerTypes /\ OwnerInv /\ AttemptInv /\ row # NoRow
  BY InvParts DEF NoRow
<1> DEFINE i == row.intent
<1> SUFFICES ASSUME NEW x \in RunningOf(Settled, i) PROVE FALSE
  OBVIOUS
<1>2. Accounted(usage, Settled, i) /\ AttemptsBefore(inbox.said, row) /\ i \in Intents
  BY <1>1 DEF AttemptInv, Up, OwnerTypes
<1>3. x = <<usage[i].b, Turn(i, usage[i].attempt)>>
  BY <1>2 DEF Accounted
<1>4. PICK s \in inbox.said : s.type = "turn_started" /\ s.turn = x[2] /\ x \in TurnIds /\ x[2].intent = i
  <2> HIDE DEF i
  <2> QED
    BY <1>1, RunningWasSaid
<1>5. usage[i].b \in Backends /\ usage[i] # NoUsage
  BY <1>3, <1>4, LedgerAssumption DEF TurnIds, NoUsage
<1>6. usage[i].attempt = row.attempt
  BY <1>5 DEF AttemptOpen
<1>7. s.turn.attempt = row.attempt /\ s.turn.intent = i
  BY <1>3, <1>4, <1>6 DEF Turn
<1>8. s.turn.attempt < row.attempt /\ row.attempt \in Nat
  BY <1>1, <1>2, <1>4, <1>7, LedgerAssumption DEF AttemptsBefore, OwnerTypes, Attempts
<1> QED
  BY <1>7, <1>8

\* A retry starts the attempt its row says.
LEMMA Dispatches ==
    ASSUME IInv, Dispatch
    PROVE  IInv' /\ OneTurn(Settled.turns, Settled'.turns)
<1>1. LedgerTypes /\ LedgerInv /\ OwnerTypes /\ OwnerInv /\ AttemptInv
  BY InvParts
<1> DEFINE i == row.intent
           t == Turn(i, row.attempt)
<1>2. /\ Up /\ sess # NoSession /\ row.state = "retrying" /\ row.b = sess.b /\ row # NoRow
      /\ row' = [row EXCEPT !.state = "dispatching"]
      /\ sess' = [sess EXCEPT !.status = "working", !.intent = i]
      /\ IF AttemptOpen(i)
         THEN /\ Finish(usage[i].b, i, "error")
              /\ send' = [at |-> IF FinishRefused(usage[i].b, i, "error") THEN "refused" ELSE "prior",
                          b |-> sess.b, turn |-> t]
         ELSE /\ Observe(Started(sess.b, t))
              /\ send' = [at |-> "recorded", b |-> sess.b, turn |-> t]
              /\ UNCHANGED usage
      /\ LedgerKept /\ UNCHANGED <<binding, stop, missing>>
  BY DEF Dispatch, Live, NoSession, Begin, NoRow
<1>3. i \in Intents /\ row.attempt \in Attempts /\ sess.b \in Backends
  BY <1>1, <1>2 DEF OwnerTypes
<1>4. t \in TurnKeys /\ t.intent = i /\ t.attempt = row.attempt
  BY <1>3 DEF Turn, TurnKeys, Attempts
<1>5. /\ row'.intent = i /\ row'.attempt = row.attempt /\ row'.b = row.b /\ row'.state = "dispatching"
      /\ row' \in [intent : Intents, state : Unended \cup {"completed", "failed", "cancelled"},
                  attempt : Attempts, b : Backends]
  BY <1>1, <1>2 DEF OwnerTypes, Unended
<1>6. /\ sess'.b = sess.b /\ sess'.intent = i
      /\ sess' \in [b : Backends, status : {"opening", "idle", "working"},
                   intent : Intents \cup {None}, idling : BOOLEAN]
  BY <1>1, <1>2, <1>3 DEF OwnerTypes
<1>7. CASE AttemptOpen(i)
  <2> DEFINE b == usage[i].b
  <2>1. usage[i] # NoUsage /\ ~Foreign(b, i) /\ Finish(b, i, "error") /\ "error" \in Whys
        /\ \E at \in {"prior", "refused"} : send' = [at |-> at, b |-> sess.b, turn |-> t]
    BY <1>2, <1>7 DEF AttemptOpen, Foreign, Whys
  <2>2. Finishable(b, i)
    BY <1>2, <2>1, WhatMayEnd
  <2>3. /\ Quiet /\ OneTurn(Settled.turns, Settled'.turns)
        /\ \A j \in Intents : Accounted(usage, Settled, j) => Accounted(usage', Settled', j)
        /\ \A j \in Intents : usage'[j] # NoUsage => usage'[j] = usage[j]
        /\ usage' \in [Intents -> [b : Backends, attempt : Attempts] \cup {NoUsage}]
        /\ usage'[i] = NoUsage
    <3> HIDE DEF b, i
    <3> QED
      BY <1>2, <1>3, <2>1, <2>2, QuietFinish
  <2>4. RunningOf(Settled', i) = {}
    <3>1. Accounted(usage', Settled', i)
      BY <1>1, <1>2, <1>3, <2>3 DEF AttemptInv, Up
    <3>2. \A x \in RunningOf(Settled', i) : x \in TurnIds /\ x = <<None, Turn(i, 0)>>
      BY <2>3, <3>1 DEF Accounted, NoUsage, RunningOf, RunningIn
    <3> QED
      BY <3>2, LedgerAssumption DEF TurnIds
  <2>5. send'.at \in {"prior", "refused"} /\ send'.turn = t
        /\ send' \in [at : {"prior", "refused", "recorded", "baseline", "wire"}, b : Backends, turn : TurnKeys]
    BY <1>3, <1>4, <2>1
  <2>6. Sending(usage', Settled', row', send')
    BY <1>4, <1>5, <2>4, <2>5 DEF Sending
  <2>7. OwnerTypes'
    BY <1>1, <1>2, <1>5, <1>6, <2>3, <2>5 DEF OwnerTypes
  <2>8. StartSaid(inbox.said, <<sess'.b, First(sess'.intent)>>)
    BY <1>1, <1>2, <1>6 DEF OwnerInv
  <2> HIDE DEF i, t, b
  <2> QED
    BY <1>1, <1>2, <1>5, <1>6, <2>3, <2>5, <2>6, <2>7, <2>8, StartsNoTurn DEF OwnerInv, i
<1>8. CASE ~AttemptOpen(i)
  <2>1. /\ Observe(Started(sess.b, t)) /\ UNCHANGED usage
        /\ send' = [at |-> "recorded", b |-> sess.b, turn |-> t]
    BY <1>2, <1>8
  <2>2. RunningOf(Settled, i) = {}
    BY <1>2, <1>8, NothingRunsOfARetry
  <2>3. send' \in [at : {"prior", "refused", "recorded", "baseline", "wire"}, b : Backends, turn : TurnKeys]
    BY <1>3, <1>4, <2>1
  <2>4. OwnerTypes'
    BY <1>1, <1>2, <1>5, <1>6, <2>1, <2>3 DEF OwnerTypes
  <2>5. AttemptsBefore(inbox.said, row')
    BY <1>1, <1>2, <1>5 DEF AttemptInv, AttemptsBefore
  <2>6. sess'.intent = row.intent /\ row'.intent = row.intent
    BY <1>5, <1>6
  <2> HIDE DEF i, t
  <2> QED
    BY <1>2, <1>4, <1>5, <1>6, <2>1, <2>2, <2>4, <2>5, <2>6, StartsATurn
<1> QED
  BY <1>7, <1>8

\* A prompt that waited for the attempt before it starts its own.
LEMMA StartsAfterPrior ==
    ASSUME IInv, PriorEnded
    PROVE  IInv' /\ OneTurn(Settled.turns, Settled'.turns)
<1>1. LedgerTypes /\ LedgerInv /\ OwnerTypes /\ OwnerInv /\ AttemptInv
  BY InvParts
<1> DEFINE t == send.turn
<1>2. /\ Up /\ sess # NoSession /\ send.at = "prior" /\ send # NoSend /\ send.b = sess.b
      /\ Observe(Started(sess.b, t))
      /\ send' = [at |-> "recorded", b |-> sess.b, turn |-> t]
      /\ LedgerKept /\ UNCHANGED <<binding, row, sess, usage, stop>>
  BY DEF PriorEnded, Owns, Live, NoSession, NoSend, Begin
<1>3. t \in TurnKeys /\ sess.b \in Backends
  BY <1>1, <1>2 DEF OwnerTypes
<1>4. Sending(usage, Settled, row, send)
  BY <1>1, <1>2 DEF AttemptInv
<1>5. row.intent = t.intent /\ row.attempt = t.attempt /\ row.state \notin {"retrying", "accepted"}
      /\ RunningOf(Settled, t.intent) = {}
  BY <1>2, <1>4 DEF Sending
<1>6. row # NoRow
  BY <1>3, <1>5, LedgerAssumption DEF NoRow, TurnKeys
<1>7. OwnerTypes'
  <2>1. send' \in [at : {"prior", "refused", "recorded", "baseline", "wire"}, b : Backends, turn : TurnKeys]
    BY <1>2, <1>3
  <2> QED
    BY <1>1, <1>2, <2>1 DEF OwnerTypes
<1>8. AttemptsBefore(inbox.said, row)
  BY <1>1, <1>6 DEF AttemptInv
<1>9. row' = row /\ sess' = sess
  BY <1>2
<1> HIDE DEF t
<1> QED
  BY <1>2, <1>3, <1>5, <1>6, <1>7, <1>8, <1>9, StartsATurn

------------------------------------------------------------------------------
(* Steps of the process. *)

\* Several turns end with their process, as TurnLog has it.
AllEnd(was, is, how) ==
    \A x \in TurnIds : is[x] = was[x] \/ (was[x] = "running" /\ is[x] = how)

\* A shutdown and a crash end the running turns alike, or none.
LEMMA ProcessEnds ==
    ASSUME IInv, ShutsDown \/ Crashes
    PROVE  IInv' /\ AllEnd(Settled.turns, Settled'.turns, "interrupted")
<1>1. LedgerTypes /\ LedgerInv /\ OwnerTypes /\ OwnerInv /\ AttemptInv
  BY InvParts
<1>2. /\ sess' = NoSession /\ usage' = [i \in Intents |-> NoUsage] /\ send' = NoSend /\ stop' = NoStop
      /\ UNCHANGED <<binding, row, missing>>
  BY DEF ShutsDown, Crashes, MemoryGone
<1>3. sess'.intent = None /\ stop'.intent = None /\ stop'.at = "none" /\ send'.at = "none"
      /\ \A i \in Intents : usage'[i] = NoUsage
  BY <1>2 DEF NoSession, NoStop, NoSend
<1>4. OwnerTypes'
  BY <1>1, <1>2 DEF OwnerTypes, StopTyped, NoStop
<1>5. /\ LedgerTypes' /\ LedgerInv' /\ life' # "up"
      /\ inbox.said \subseteq inbox'.said
      /\ \A s \in inbox'.said \ inbox.said : s.type # "turn_started"
      /\ RunningIn(Settled') \subseteq RunningIn(Settled)
      /\ AllEnd(Settled.turns, Settled'.turns, "interrupted")
  <2>1. CASE ShutsDown
    <3>1. Shutdown /\ life' = "closed"
      BY <2>1 DEF ShutsDown, Shutdown
    <3>2. /\ LedgerTypes' /\ LedgerInv'
          /\ \A x \in TurnIds : Settled'.turns[x] =
                IF Settled.turns[x] = "running" THEN "interrupted" ELSE Settled.turns[x]
          /\ inbox.said \subseteq inbox'.said
          /\ \A s \in inbox'.said \ inbox.said : s.type = "turn_done"
          /\ RunningIn(Settled') = {}
      BY <1>1, <3>1, Sealing
    <3> QED
      BY <3>1, <3>2 DEF AllEnd
  <2>2. CASE Crashes
    <3>1. LedgerTypes' /\ LedgerInv' /\ Settled' = Settled /\ inbox' = inbox /\ life' # "up"
      BY <1>1, <2>2, Crashing DEF Crashes
    <3> QED
      BY <3>1 DEF AllEnd
  <2> QED
    BY <2>1, <2>2
<1>6. OwnerInv'
  <2>1. row' # NoRow => StartSaid(inbox'.said, <<row'.b, First(row'.intent)>>)
    BY <1>1, <1>2, <1>5 DEF OwnerInv, StartSaid
  <2> QED
    BY <1>2, <1>3, <1>5, <2>1 DEF OwnerInv
<1>7. AttemptInv'
  <2>1. OneEach(Settled')
    BY <1>1, <1>5 DEF AttemptInv, OneEach
  <2>2. row' # NoRow => AttemptsBefore(inbox'.said, row')
    BY <1>1, <1>2, <1>5 DEF AttemptInv, AttemptsBefore
  <2> QED
    BY <1>2, <1>5, <2>1, <2>2 DEF AttemptInv
<1> QED
  BY <1>4, <1>5, <1>6, <1>7 DEF IInv

\* Boot ends as crashed what the dead processes left running.
LEMMA Reconciles ==
    ASSUME IInv, Reconcile
    PROVE  IInv' /\ AllEnd(Settled.turns, Settled'.turns, "crashed")
<1>1. LedgerTypes /\ LedgerInv /\ OwnerTypes /\ OwnerInv /\ AttemptInv
  BY InvParts
<1>2. /\ ReconcileInterrupted /\ life = "booting"
      /\ row' = IF row.state \in {"sending", "dispatching"} THEN [row EXCEPT !.state = "failed"] ELSE row
      /\ UNCHANGED <<binding, sess, usage, send, stop, missing>>
  BY DEF Reconcile, ReconcileInterrupted
<1>3. /\ LedgerTypes' /\ LedgerInv' /\ inbox' = inbox
      /\ \A x \in TurnIds : Settled'.turns[x] =
            IF Settled.turns[x] = "running" THEN "crashed" ELSE Settled.turns[x]
      /\ RunningIn(Settled') = {}
  BY <1>1, <1>2, Reconciling
<1>4. sess = NoSession /\ send = NoSend /\ stop.at # "destroying"
      /\ \A i \in Intents : usage[i] = NoUsage
  BY <1>1, <1>2 DEF OwnerInv
<1>5. /\ row' = row \/ row # NoRow
      /\ row'.intent = row.intent /\ row'.b = row.b /\ row'.attempt = row.attempt
      /\ row' = row \/ row'.state = "failed"
      /\ row' = NoRow \/ row' \in [intent : Intents, state : Unended \cup {"completed", "failed", "cancelled"},
                  attempt : Attempts, b : Backends]
  BY <1>1, <1>2 DEF OwnerTypes, NoRow
<1>6. OwnerTypes'
  BY <1>1, <1>2, <1>5 DEF OwnerTypes
<1>7. OwnerInv'
  BY <1>1, <1>2, <1>3, <1>4, <1>5 DEF OwnerInv, NoSession, NoSend
<1>8. AttemptInv'
  <2>1. OneEach(Settled') /\ Accounted(usage', Settled', row'.intent)
    BY <1>3 DEF OneEach, Accounted, RunningOf
  <2>2. row' # NoRow => AttemptsBefore(inbox'.said, row')
    BY <1>1, <1>3, <1>5 DEF AttemptInv, AttemptsBefore
  <2> QED
    BY <1>2, <1>4, <2>1, <2>2 DEF AttemptInv
<1> QED
  BY <1>3, <1>6, <1>7, <1>8 DEF IInv, AllEnd

\* The projection behind the lock keeps the invariant.
LEMMA LedgerRuns ==
    ASSUME IInv, Ledger
    PROVE  IInv' /\ OneTurn(Settled.turns, Settled'.turns)
<1>1. LedgerTypes /\ LedgerInv /\ OwnerTypes /\ OwnerInv /\ AttemptInv
  BY InvParts
<1>2. UNCHANGED <<binding, row, sess, usage, send, stop, missing>>
  BY DEF Ledger
<1>3. /\ LedgerTypes' /\ LedgerInv' /\ Settled' = Settled /\ inbox'.said = inbox.said
      /\ (run' = run /\ life' = life) \/ (life # "up" /\ life' # "up")
  <2>1. CASE Drain \/ BootDrain
    <3>1. life \in {"up", "booting"} /\ inbox.pending # <<>> /\ DrainFirst /\ UNCHANGED <<run, life, owned>>
      BY <2>1 DEF Drain, BootDrain
    <3> QED
      BY <1>1, <3>1, Draining
  <2>2. CASE Boot
    <3>1. LedgerTypes' /\ LedgerInv' /\ Settled' = Settled /\ inbox' = inbox /\ life' # "up"
      BY <1>1, <2>2, Booting
    <3>2. life # "up"
      BY <2>2 DEF Boot
    <3> QED
      BY <3>1, <3>2
  <2> QED
    BY <2>1, <2>2 DEF Ledger
<1>4. OwnerTypes'
  BY <1>1, <1>2 DEF OwnerTypes
<1>5. OwnerInv'
  BY <1>1, <1>2, <1>3 DEF OwnerInv
<1>6. AttemptInv'
  BY <1>1, <1>2, <1>3 DEF AttemptInv
<1> QED
  BY <1>3, <1>4, <1>5, <1>6 DEF IInv, OneTurn

------------------------------------------------------------------------------
(* The invariant, and what follows from it. *)

\* The invariant is inductive, and a step starts or ends one turn, or ends several alike.
LEMMA Stepwise ==
    ASSUME IInv, [Next]_vars
    PROVE  /\ IInv'
           /\ \/ OneTurn(Settled.turns, Settled'.turns)
              \/ \E how \in {"interrupted", "crashed"} : AllEnd(Settled.turns, Settled'.turns, how)
<1>1. UNCHANGED ledger => OneTurn(Settled.turns, Settled'.turns)
  BY LedgerUnchanged DEF OneTurn
<1>2. CASE UNCHANGED vars
  <2>1. UNCHANGED ledger /\ UNCHANGED <<binding, row, sess, usage, send, stop, missing>>
    BY <1>2 DEF vars
  <2>2. LedgerTypes' /\ LedgerInv' /\ Settled' = Settled /\ inbox' = inbox /\ run' = run /\ life' = life
    BY <2>1, LedgerUnchanged DEF Quiet, Persists
  <2>3. OwnerTypes' /\ OwnerInv' /\ AttemptInv'
    BY <2>1, <2>2 DEF IInv, OwnerTypes, OwnerInv, AttemptInv
  <2> QED
    BY <1>1, <2>1, <2>2, <2>3 DEF IInv
<1>3. CASE \E b \in Backends : CreateSession(b)
  <2>1. PICK b \in Backends : CreateSession(b)
    BY <1>3
  <2> DEFINE e == Opened(b)
  <2>2. /\ Up /\ LedgerKept /\ ~Unsettled /\ e = Opened(b) /\ \A s \in inbox.said : s.b # b
        /\ Observe(e) /\ sess' = [b |-> b, status |-> "opening", intent |-> None, idling |-> FALSE]
        /\ UNCHANGED <<binding, row, usage, send, stop, missing>>
    BY <2>1 DEF CreateSession, NoSession
  <2> HIDE DEF e
  <2> QED
    BY <2>2, Opening
<1>4. CASE ResumeSession
  <2> DEFINE e == Resumed(binding)
             b == binding
  <2>1. /\ b \in Backends /\ Up /\ LedgerKept /\ ~Unsettled /\ e = Resumed(b)
        /\ Observe(e) /\ sess' = [b |-> b, status |-> "opening", intent |-> None, idling |-> FALSE]
        /\ UNCHANGED <<binding, row, usage, send, stop, missing>>
    BY <1>4 DEF ResumeSession, NoSession
  <2> HIDE DEF e, b
  <2> QED
    BY <2>1, Opening
<1>5. CASE \/ SessionOpens \/ SendWithdrawn \/ DispatchRecorded \/ PromptGoesOut \/ Accepted
           \/ TurnEnds \/ (\E kind \in {"user", "release"} : StopSession(kind)) \/ StopRefused
  BY <1>1, <1>5, WithoutObservation
<1>6. CASE Rejected \/ TurnFails \/ ReportIdle \/ Abort \/ StopSettles
  BY <1>6, EndingTurns
<1>7. CASE ResumeFindsLoss \/ PollFindsLoss
  BY <1>7, FindingLosses
<1>8. CASE \E i \in Intents : SendMessage(i)
  BY <1>8, Sends
<1>9. CASE Dispatch
  BY <1>9, Dispatches
<1>10. CASE PriorEnded
  BY <1>10, StartsAfterPrior
<1>11. CASE ShutsDown \/ Crashes
  BY <1>11, ProcessEnds
<1>12. CASE Reconcile
  BY <1>12, Reconciles
<1>13. CASE Ledger
  BY <1>13, LedgerRuns
<1> QED
  BY <1>2, <1>3, <1>4, <1>5, <1>6, <1>7, <1>8, <1>9, <1>10, <1>11, <1>12, <1>13 DEF Next

\* It holds of the first process, whose books are empty.
LEMMA Initially ==
    ASSUME Init
    PROVE  IInv /\ Settled = book /\ \A x \in TurnIds : book.turns[x] = "none"
<1>1. /\ run = 1 /\ life = "up" /\ inbox = [pending |-> <<>>, said |-> {}] /\ owned = {}
      /\ book = [turns |-> [x \in Backends \X TurnKeys |-> "none"],
                 gens |-> [b \in Backends |-> [state |-> "none", run |-> 0]]]
  BY DEF Init, LedgerInit
<1>2. /\ binding = None /\ row = NoRow /\ sess = NoSession /\ usage = [i \in Intents |-> NoUsage]
      /\ send = NoSend /\ stop = NoStop
  BY DEF Init
<1>3. Settled = book
  <2>1. inbox.pending = <<>>
    BY <1>1
  <2> QED
    BY <2>1, ApplyNone DEF Settled
<1>4. inbox.said = {} /\ inbox.pending = <<>>
  BY <1>1
<1>5. \A x \in TurnIds : book.turns[x] = "none"
  BY <1>1 DEF TurnIds
<1>6. \A b \in Backends : book.gens[b].run = 0
  BY <1>1
<1>7. LedgerTypes
  <2>1. <<>> \in Seq(Observations)
    OBVIOUS
  <2>2. inbox \in Boxes
    BY <1>1, <2>1 DEF Boxes
  <2>3. book \in Books
    BY <1>1, LedgerAssumption DEF Books, TurnIds, States, Generations
  <2>4. owned \subseteq TurnIds /\ IsFiniteSet(owned)
    BY <1>1, FS_EmptySet
  <2> QED
    BY <1>1, <2>2, <2>3, <2>4, LedgerAssumption DEF LedgerTypes
<1>8. RunningIn(Settled) = {}
  BY <1>3, <1>5 DEF RunningIn
<1>9. LedgerInv
  <2>1. Evidence(run, inbox.said, Settled)
    BY <1>1, <1>3, <1>4, <1>5, <1>6 DEF Evidence, ToldOnce, CrashesUnreported, RunsPassed, StartSaid, DoneSaid
  <2>2. NothingSealed(run, inbox.said) /\ OwnsRunning(owned, Settled) /\ GenerationsTaken(run, inbox.said, Settled)
    BY <1>1, <1>4, <1>8 DEF NothingSealed, OwnsRunning, GenerationsTaken
  <2> QED
    BY <1>1, <2>1, <2>2 DEF LedgerInv
<1>10. OwnerTypes
  BY <1>2 DEF OwnerTypes, StopTyped, NoStop
<1>11. OwnerInv
  BY <1>1, <1>2 DEF OwnerInv, NoSession, NoStop, NoSend
<1>12. AttemptInv
  BY <1>2, <1>8 DEF AttemptInv, OneEach, NoRow
<1> QED
  BY <1>3, <1>5, <1>7, <1>9, <1>10, <1>11, <1>12 DEF IInv

\* What the ledger, the row, the engine and the session know of the turns agrees, always.
THEOREM Agreement == Spec => []IInv
<1>1. Init => IInv
  BY Initially
<1>2. IInv /\ [Next]_vars => IInv'
  BY Stepwise
<1> QED
  BY <1>1, <1>2, PTL DEF Spec

\* An intent is worked on once at a time, whatever its retries, its stops and the turns its
\* sessions report late (adapter-engine.ts).
THEOREM OneAttemptAtATime == Spec => []OneAttemptRuns
<1>1. IInv => OneAttemptRuns
  BY DEF IInv, AttemptInv, OneEach, OneAttemptRuns
<1> QED
  BY <1>1, Agreement, PTL

\* An orderly shutdown leaves nothing running and nothing unprojected (managed-session.ts).
THEOREM OrderlyShutdown == Spec => []ShutdownSettles
<1>1. IInv => ShutdownSettles
  BY DEF IInv, LedgerInv, ShutdownSettles, RunningIn
<1> QED
  BY <1>1, Agreement, PTL

\* No turn counts as crashed whose end the process that ran it had received
\* (managed-session.ts, ledger.ts).
THEOREM CrashesAreUnreported == Spec => []CrashOnlyIfUnreported
<1>1. IInv => CrashOnlyIfUnreported
  <2> SUFFICES ASSUME IInv, NEW x \in TurnIds, book.turns[x] = "crashed",
                      NEW s \in inbox.said, NEW e \in inbox.said,
                      s.type = "turn_started", e.type = "turn_done", s.run = e.run,
                      <<s.b, s.turn>> = x, <<e.b, e.turn>> = x
               PROVE  FALSE
    BY DEF CrashOnlyIfUnreported
  <2>1. book \in Books /\ inbox.pending \in Seq(Observations)
    BY DEF IInv, LedgerTypes, Boxes
  <2>2. Settled.turns[x] = "crashed"
    BY <2>1, EndedStay DEF Settled
  <2>3. CrashesUnreported(run, inbox.said, Settled)
    BY DEF IInv, LedgerInv, Evidence
  <2> QED
    BY <2>2, <2>3 DEF CrashesUnreported, Names
<1> QED
  BY <1>1, Agreement, PTL

\* What runs while the process is up belongs to a generation of this process (ledger.ts).
THEOREM NothingIsOrphaned == Spec => []NoOrphanRuns
<1>1. IInv => NoOrphanRuns
  BY DEF IInv, LedgerInv, GenerationsTaken, NoOrphanRuns
<1> QED
  BY <1>1, Agreement, PTL

\* The ledger implements the log that records every turn the moment it is reported
\* (event-inbox.ts, ledger.ts, managed-session.ts).
THEOREM ProjectedLate == Spec => ActsAsIfProjectedAtOnce
<1>1. Init => Log!Init
  <2> SUFFICES ASSUME Init PROVE Projection = [t \in TurnIds |-> "none"]
    BY DEF Log!Init
  <2>1. Projection = book.turns
    BY Initially DEF Projection
  <2> QED
    BY <2>1 DEF Init, LedgerInit, TurnIds
<1>2. IInv /\ IInv' /\ [Next]_vars => [Log!Next]_Projection
  <2> SUFFICES ASSUME IInv, IInv', [Next]_vars, Projection' # Projection PROVE Log!Next
    OBVIOUS
  <2> DEFINE was == Projection
             is == Projection'
  <2>1. was = Settled.turns /\ is = Settled'.turns
    BY DEF Projection
  <2>2. DOMAIN is = TurnIds
    <3>1. (Settled \in Books)'
      BY SettledIsABook, PTL DEF IInv
    <3> QED
      BY <2>1, <3>1 DEF Books
  <2>3. OneTurn(was, is) \/ \E how \in {"interrupted", "crashed"} : AllEnd(was, is, how)
    BY <2>1, Stepwise
  <2> HIDE DEF was, is
  <2>4. ASSUME OneTurn(was, is), is # was
        PROVE  \E t \in TurnIds : Log!Start(was, is, t) \/ Log!Finish(was, is, t)
    BY <2>4 DEF OneTurn, EndStates, Log!Start, Log!Finish, Log!Others
  <2>5. ASSUME NEW how \in {"interrupted", "crashed"}, AllEnd(was, is, how)
        PROVE  Log!FinishAll(was, is, how)
    BY <2>5 DEF AllEnd, Log!FinishAll
  <2>6. is # was
    BY DEF was, is
  <2>7. \/ \E t \in TurnIds : Log!Start(was, is, t) \/ Log!Finish(was, is, t)
        \/ \E how \in {"interrupted", "crashed"} : Log!FinishAll(was, is, how)
    BY <2>3, <2>4, <2>5, <2>6
  <2> QED
    BY <2>2, <2>7 DEF Log!Next, was, is
<1> QED
  BY <1>1, <1>2, Agreement, PTL DEF Spec, ActsAsIfProjectedAtOnce, Log!Spec

===============================================================================
