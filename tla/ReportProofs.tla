---------------------------- MODULE ReportProofs ----------------------------
(***************************************************************************)
(* What is reported of a run when it is over, proved of Observers: the     *)
(* exported trace tells every call with its result and brings the session  *)
(* back, and the diff of two states names every change.                    *)
(*                                                                         *)
(* Tools, Merge and Compared are defined by recursion, so these proofs are *)
(* inductions: a first place where what is claimed fails is taken          *)
(* (LeastIn), and shown not to fail there.                                 *)
(***************************************************************************)
EXTENDS ObserversProofs, SequenceTheorems, WellFoundedInduction

---------------------------------------------------------------------------
(* Tools.                                                                  *)

\* A set of natural numbers has a least element.
LEMMA LeastIn ==
  ASSUME NEW S, S \subseteq Nat, S # {}
  PROVE  \E n \in S : \A m \in S : n <= m
  <1>1. PICK n \in S : \A m \in S : <<m, n>> \notin OpToRel(<, Nat)
    BY NatLessThanWellFounded, WFMin
  <1>2. ASSUME NEW m \in S PROVE n <= m
    <2>1. m < n => <<m, n>> \in OpToRel(<, Nat)
      BY SMT DEF OpToRel
    <2>2. ~(m < n)
      BY <1>1, <2>1, Zenon
    <2> QED  BY <2>2
  <1> QED  BY <1>2

\* The tools after each event.
LEMMA ToolsStepwise ==
  ASSUME NEW e, Len(e) \in Nat
  PROVE  \E f : /\ f[0] = <<>> /\ Tools(e) = f[Len(e)]
                /\ \A n \in 1 .. Len(e) : f[n] = AddTool(f[n - 1], e[n])
  <1> DEFINE N == Len(e)
             Step(g, n) == IF n = 0 THEN <<>> ELSE AddTool(g[n - 1], e[n])
             Bad == {n \in Nat : n <= N /\ ~\E g : g = [k \in 0 .. n |-> Step(g, k)]}
  <1>1. Bad = {}
    <2>1. SUFFICES ASSUME Bad # {} PROVE FALSE
      OBVIOUS
    <2>2. PICK n \in Bad : \A m \in Bad : n <= m
      BY <2>1, LeastIn
    <2>3. n # 0
      <3>1. [k \in 0 .. 0 |-> <<>>] = [k \in 0 .. 0 |-> Step([j \in 0 .. 0 |-> <<>>], k)]
        OBVIOUS
      <3> QED  BY <3>1
    <2>4. n - 1 \in Nat /\ n - 1 \notin Bad /\ n - 1 <= N
      BY <2>2, <2>3
    <2>5. PICK g : g = [k \in 0 .. n - 1 |-> Step(g, k)]
      BY <2>4
    <2> DEFINE h == [k \in 0 .. n |-> IF k = n THEN AddTool(g[n - 1], e[n]) ELSE g[k]]
    <2>6. \A k \in 0 .. n : h[k] = Step(h, k)
      <3>1. ASSUME NEW k \in 0 .. n PROVE h[k] = Step(h, k)
        <4>1. CASE k = 0
          BY <2>3, <2>5, <4>1
        <4>2. CASE k = n
          BY <2>3, <4>2
        <4>3. CASE k # n /\ k # 0
          <5>1. k \in 0 .. n - 1 /\ k - 1 \in 0 .. n - 1 /\ k - 1 # n /\ k - 1 \in 0 .. n
            BY <4>3
          <5>2. h[k] = g[k] /\ h[k - 1] = g[k - 1]
            BY <4>3, <5>1
          <5>3. g[k] = Step(g, k)
            BY <5>1, <2>5, Zenon
          <5> QED  BY <4>3, <5>2, <5>3
        <4> QED  BY <4>1, <4>2, <4>3
      <3> QED  BY <3>1
    <2>7. h = [k \in 0 .. n |-> Step(h, k)]
      BY <2>6
    <2> QED  BY <2>2, <2>7
  <1>2. \E g : g = [k \in 0 .. N |-> Step(g, k)]
    BY <1>1
  <1> DEFINE f == CHOOSE g : g = [k \in 0 .. N |-> Step(g, k)]
  <1>3. f = [k \in 0 .. N |-> Step(f, k)]
    BY <1>2, Zenon
  <1>4. Tools(e) = f[N]
    BY DEF Tools
  <1> HIDE DEF f
  <1>5. f[0] = <<>> /\ \A n \in 1 .. N : f[n] = AddTool(f[n - 1], e[n])
    BY <1>3
  <1> QED  BY <1>4, <1>5

---------------------------------------------------------------------------
(* Calls and results with one id are brackets.                             *)

\* The events of a session as ExportReplayEvents takes them.
Log(e) ==
    /\ Len(e) \in Nat /\ DOMAIN e = 1 .. Len(e)
    /\ \A k \in 1 .. Len(e) :
         /\ e[k].seq = k /\ e[k].wall \in Int
         /\ e[k].kind \in {"session", "message", "usage", "call", "result"}

\* The texts that lines have.
Worded(e) == \A k \in 1 .. Len(e) : e[k].text \in {"plain", "json", "head"}

\* How many calls like call i are open after n events.
Balance(e, i, n) == Count(e, e[i], "call", i, n) - Count(e, e[i], "result", i, n)

\* The event counts at its place and nowhere before.
LEMMA CountStep ==
  ASSUME NEW e, NEW x, NEW kind, NEW i \in Nat, NEW n \in Nat, i <= n + 1
  PROVE  /\ Count(e, x, kind, i, n) \in Nat
         /\ Count(e, x, kind, i, n + 1)
              = Count(e, x, kind, i, n)
                + IF e[n + 1].kind = kind /\ e[n + 1].id = x.id THEN 1 ELSE 0
         /\ i = n + 1 => Count(e, x, kind, i, n) = 0
  <1> DEFINE S == {k \in i .. n : e[k].kind = kind /\ e[k].id = x.id}
             T == {k \in i .. n + 1 : e[k].kind = kind /\ e[k].id = x.id}
  <1>1. IsFiniteSet(S)
    <2>1. IsFiniteSet(i .. n) /\ S \subseteq i .. n
      BY FS_Interval
    <2> QED  BY <2>1, FS_Subset
  <1>2. n + 1 \notin S /\ T = IF e[n + 1].kind = kind /\ e[n + 1].id = x.id
                             THEN S \cup {n + 1} ELSE S
    OBVIOUS
  <1>3. i = n + 1 => S = {}
    OBVIOUS
  <1> HIDE DEF S, T
  <1>4. Cardinality(S) \in Nat /\ Cardinality(S \cup {n + 1}) = Cardinality(S) + 1
    BY <1>1, <1>2, FS_CardinalityType, FS_AddElement
  <1>5. i = n + 1 => Cardinality(S) = 0
    BY <1>3, FS_EmptySet
  <1>6. /\ Cardinality(T) = Cardinality(S)
                            + IF e[n + 1].kind = kind /\ e[n + 1].id = x.id THEN 1 ELSE 0
    BY <1>2, <1>4
  <1> USE DEF S, T
  <1> QED  BY <1>4, <1>5, <1>6 DEF Count

\* What an event does to the balance of a call.
LEMMA BalanceStep ==
  ASSUME NEW e, Log(e), NEW i \in 1 .. Len(e), NEW n \in i .. Len(e) - 1
  PROVE  /\ Balance(e, i, n) \in Int
         /\ e[n + 1].id # e[i].id => Balance(e, i, n + 1) = Balance(e, i, n)
         /\ e[n + 1].kind \notin {"call", "result"} => Balance(e, i, n + 1) = Balance(e, i, n)
         /\ e[n + 1].id = e[i].id /\ e[n + 1].kind = "call" =>
              Balance(e, i, n + 1) = Balance(e, i, n) + 1
         /\ e[n + 1].id = e[i].id /\ e[n + 1].kind = "result" =>
              Balance(e, i, n + 1) = Balance(e, i, n) - 1
  <1> DEFINE C(m) == Count(e, e[i], "call", i, m)
             R(m) == Count(e, e[i], "result", i, m)
  <1>1. /\ C(n) \in Nat /\ R(n) \in Nat
        /\ C(n + 1) = C(n) + IF e[n + 1].kind = "call" /\ e[n + 1].id = e[i].id THEN 1 ELSE 0
        /\ R(n + 1) = R(n) + IF e[n + 1].kind = "result" /\ e[n + 1].id = e[i].id THEN 1 ELSE 0
    BY CountStep
  <1> HIDE DEF C, R
  <1>2. Balance(e, i, n) = C(n) - R(n) /\ Balance(e, i, n + 1) = C(n + 1) - R(n + 1)
    BY DEF Balance, C, R
  <1> QED  BY <1>1, <1>2

\* The balance of a call begins with itself.
LEMMA BalanceStarts ==
  ASSUME NEW e, Log(e), NEW i \in 1 .. Len(e), e[i].kind = "call"
  PROVE  Balance(e, i, i) = 1
  <1>1. {k \in i .. i : e[k].kind = "call" /\ e[k].id = e[i].id} = {i}
    BY DEF Log
  <1>2. {k \in i .. i : e[k].kind = "result" /\ e[k].id = e[i].id} = {}
    BY DEF Log
  <1>3. Count(e, e[i], "call", i, i) = 1 /\ Count(e, e[i], "result", i, i) = 0
    BY <1>1, <1>2, FS_Singleton, FS_EmptySet DEF Count
  <1> QED  BY <1>3 DEF Balance

\* A result closes a call when the balance of the call comes to zero.
LEMMA ClosesIs ==
  ASSUME NEW e, Log(e), NEW i \in 1 .. Len(e), NEW j \in 1 .. Len(e)
  PROVE  Closes(e, i, j) <=>
           /\ i < j /\ e[i].id # "" /\ e[j].kind = "result" /\ e[j].id = e[i].id
           /\ Balance(e, i, j) = 0
           /\ \A k \in i .. j - 1 : Balance(e, i, k) > 0
  <1>1. \A k \in i .. Len(e) :
          Count(e, e[i], "call", i, k) \in Nat /\ Count(e, e[i], "result", i, k) \in Nat
    BY CountStep
  <1>2. Len(e) \in Nat
    BY DEF Log
  <1>3. \A k \in i .. Len(e) : Balance(e, i, k) > 0 <=>
          Count(e, e[i], "result", i, k) < Count(e, e[i], "call", i, k)
    BY <1>1, <1>2 DEF Balance
  <1>4. i < j => (Balance(e, i, j) = 0 <=>
          Count(e, e[i], "result", i, j) = Count(e, e[i], "call", i, j))
    BY <1>1, <1>2 DEF Balance
  <1>5. \A k \in i .. j - 1 : k \in i .. Len(e)
    BY <1>2
  <1> QED  BY <1>3, <1>4, <1>5 DEF Closes

\* At most one result closes a call.
LEMMA ClosesOnce ==
  ASSUME NEW e, Log(e), NEW i \in 1 .. Len(e), NEW j \in 1 .. Len(e), NEW k \in 1 .. Len(e),
         Closes(e, i, j), Closes(e, i, k)
  PROVE  j = k
  <1>1. /\ Balance(e, i, j) = 0 /\ \A m \in i .. j - 1 : Balance(e, i, m) > 0
        /\ Balance(e, i, k) = 0 /\ \A m \in i .. k - 1 : Balance(e, i, m) > 0
        /\ i < j /\ i < k
    BY ClosesIs
  <1>2. ~(j < k) /\ ~(k < j)
    BY <1>1 DEF Log
  <1> QED  BY <1>2 DEF Log

---------------------------------------------------------------------------
(* The tools p after the first n events of e.                              *)

\* The event that a tool was made for.
Of(p, q) == p[q].call.seq

\* A call that has no result yet.
IsOpen(p, q) == p[q].name = "tool" /\ p[q].result = NoResult /\ p[q].id # ""

\* The open calls with the id of tool q, from q on.
OpenFrom(p, q) == {r \in q .. Len(p) : IsOpen(p, r) /\ p[r].id = p[q].id}

\* Each tool stands for a call or for a result, and they are in order.
Shaped(e, n, p) ==
    /\ \E S : p \in Seq(S)
    /\ \A q \in 1 .. Len(p) :
         p[q] = [key |-> p[q].key, id |-> p[q].id, name |-> p[q].name, call |-> p[q].call,
                 result |-> p[q].result]
    /\ \A q \in 1 .. Len(p) :
         /\ Of(p, q) \in 1 .. n /\ p[q].call = e[Of(p, q)] /\ p[q].id = p[q].call.id
         /\ \/ p[q].name = "tool" /\ p[q].call.kind = "call"
            \/ p[q].name = "unknown" /\ p[q].call.kind = "result" /\ p[q].result = p[q].call
    /\ \A q, r \in 1 .. Len(p) : q < r => Of(p, q) < Of(p, r)

\* Every call has a tool, and so has every result that closes no call.
Listed(e, n, p) ==
    \A k \in 1 .. n :
        /\ e[k].kind = "call" => \E q \in 1 .. Len(p) : Of(p, q) = k
        /\ e[k].kind = "result" =>
             ((\E q \in 1 .. Len(p) : Of(p, q) = k) <=> ~\E i \in Calls(e) : Closes(e, i, k))

\* The tool of a call has the result that closes the call, or the call is still open.
Matched(e, n, p) ==
    \A q \in 1 .. Len(p) : p[q].name = "tool" =>
        IF p[q].result = NoResult
        THEN p[q].id # "" => \A k \in Of(p, q) .. n : Balance(e, Of(p, q), k) > 0
        ELSE \E j \in 1 .. n : Closes(e, Of(p, q), j) /\ p[q].result = e[j]

\* The balance of an open call is the number of the open calls from it on.
Balanced(e, n, p) ==
    \A q \in 1 .. Len(p) : IsOpen(p, q) => Balance(e, Of(p, q), n) = Cardinality(OpenFrom(p, q))

\* Keys are unique: one that is not the id of the call alone has the event's number.
Keyed(p) ==
    /\ \A q \in 1 .. Len(p) :
         p[q].key \in {<<"seq", Of(p, q)>>, <<"call", p[q].id>>, <<"call", p[q].id, Of(p, q)>>,
                       <<"result", Of(p, q)>>}
    /\ \A q, r \in 1 .. Len(p) : p[q].key = p[r].key => q = r

Paired(e, n, p) ==
    Shaped(e, n, p) /\ Listed(e, n, p) /\ Matched(e, n, p) /\ Balanced(e, n, p) /\ Keyed(p)

\* The open calls are finitely many.
LEMMA OpenAreFinite ==
  ASSUME NEW p, Len(p) \in Nat, NEW q \in 1 .. Len(p)
  PROVE  IsFiniteSet(OpenFrom(p, q)) /\ Cardinality(OpenFrom(p, q)) \in Nat
  <1>1. IsFiniteSet(q .. Len(p)) /\ OpenFrom(p, q) \subseteq q .. Len(p)
    BY FS_Interval DEF OpenFrom
  <1> QED  BY <1>1, FS_Subset, FS_CardinalityType

\* The tools are a sequence.
LEMMA ShapedHas ==
  ASSUME NEW e, NEW n, NEW p, Shaped(e, n, p)
  PROVE  Len(p) \in Nat /\ DOMAIN p = 1 .. Len(p)
  BY DEF Shaped

\* An event that is neither call nor result changes no tool.
LEMMA OtherKeeps ==
  ASSUME NEW e, Log(e), NEW n \in 0 .. Len(e) - 1, NEW p, Paired(e, n, p),
         e[n + 1].kind \notin {"call", "result"}
  PROVE  Paired(e, n + 1, p)
  <1>1. Len(e) \in Nat /\ Len(p) \in Nat
    BY ShapedHas DEF Paired, Log
  <1>2. Shaped(e, n + 1, p)
    <2>1. Shaped(e, n, p)
      BY DEF Paired
    <2>2. \A q \in 1 .. Len(p) : Of(p, q) \in 1 .. n + 1
      BY <1>1, <2>1 DEF Shaped
    <2> QED  BY <2>1, <2>2 DEF Shaped
  <1>3. Listed(e, n + 1, p)
    <2>1. \A k \in 1 .. n + 1 : k \in 1 .. n \/ k = n + 1
      BY <1>1
    <2> QED  BY <2>1 DEF Paired, Listed
  <1>4. ASSUME NEW q \in 1 .. Len(p)
        PROVE  /\ Of(p, q) \in 1 .. Len(e) /\ n \in Of(p, q) .. Len(e) - 1
               /\ Balance(e, Of(p, q), n + 1) = Balance(e, Of(p, q), n)
    <2>1. Of(p, q) \in 1 .. Len(e) /\ n \in Of(p, q) .. Len(e) - 1
      BY <1>1 DEF Paired, Shaped
    <2> QED  BY <2>1, BalanceStep
  <1>5. Matched(e, n + 1, p)
    <2>1. ASSUME NEW q \in 1 .. Len(p), p[q].name = "tool", p[q].result = NoResult, p[q].id # "",
                 NEW k \in Of(p, q) .. n + 1
          PROVE  Balance(e, Of(p, q), k) > 0
      <3>1. \A m \in Of(p, q) .. n : Balance(e, Of(p, q), m) > 0
        BY <2>1 DEF Paired, Matched
      <3>2. k \in Of(p, q) .. n \/ k = n + 1
        BY <1>1, <1>4
      <3>3. n \in Of(p, q) .. n
        BY <1>1, <1>4
      <3> QED  BY <1>4, <3>1, <3>2, <3>3
    <2>2. 1 .. n \subseteq 1 .. n + 1
      BY <1>1
    <2> QED  BY <2>1, <2>2 DEF Paired, Matched
  <1>6. Balanced(e, n + 1, p)
    BY <1>4 DEF Paired, Balanced
  <1> QED  BY <1>2, <1>3, <1>5, <1>6 DEF Paired

\* A tool is appended.
LEMMA AppendHas ==
  ASSUME NEW p, \E S : p \in Seq(S), NEW t
  PROVE  LET a == Append(p, t) IN
         /\ Len(p) \in Nat /\ Len(a) = Len(p) + 1 /\ \E S : a \in Seq(S)
         /\ \A q \in 1 .. Len(p) : a[q] = p[q]
         /\ a[Len(p) + 1] = t
  <1>1. PICK S : p \in Seq(S)
    OBVIOUS
  <1>2. p \in Seq(S \cup {t}) /\ t \in S \cup {t}
    BY <1>1, SeqMonotonic
  <1>3. Append(p, t) \in Seq(S \cup {t})
    BY <1>2, AppendProperties
  <1> QED  BY <1>2, <1>3, AppendProperties

\* What is the same when a tool is appended: the open calls of the others.
LEMMA AppendOpen ==
  ASSUME NEW p, NEW a, Len(p) \in Nat, Len(a) = Len(p) + 1,
         \A q \in 1 .. Len(p) : a[q] = p[q],
         NEW q \in 1 .. Len(p)
  PROVE  /\ Of(a, q) = Of(p, q) /\ (IsOpen(a, q) <=> IsOpen(p, q))
         /\ OpenFrom(a, q) = IF IsOpen(a, Len(a)) /\ a[Len(a)].id = p[q].id
                             THEN OpenFrom(p, q) \cup {Len(a)} ELSE OpenFrom(p, q)
         /\ Len(a) \notin OpenFrom(p, q)
  <1>1. \A r \in 1 .. Len(p) : IsOpen(a, r) <=> IsOpen(p, r)
    BY DEF IsOpen
  <1>2. \A r \in q .. Len(a) : r \in 1 .. Len(p) \/ r = Len(a)
    OBVIOUS
  <1> QED  BY <1>1, <1>2 DEF Of, OpenFrom

\* The same for an appended tool: it stands for the next event.
LEMMA AppendShaped ==
  ASSUME NEW e, Log(e), NEW n \in 0 .. Len(e) - 1, NEW p, Shaped(e, n, p),
         NEW t, t = [key |-> t.key, id |-> e[n + 1].id, name |-> t.name, call |-> e[n + 1],
                     result |-> t.result],
         \/ t.name = "tool" /\ e[n + 1].kind = "call"
         \/ t.name = "unknown" /\ e[n + 1].kind = "result" /\ t.result = e[n + 1]
  PROVE  LET a == Append(p, t) IN
         /\ Shaped(e, n + 1, a)
         /\ Of(a, Len(a)) = n + 1 /\ a[Len(a)] = t
         /\ Len(p) \in Nat /\ Len(a) = Len(p) + 1 /\ \A q \in 1 .. Len(p) : a[q] = p[q]
  <1> DEFINE a == Append(p, t)
  <1>1. /\ Len(p) \in Nat /\ Len(a) = Len(p) + 1 /\ \E S : a \in Seq(S)
        /\ \A q \in 1 .. Len(p) : a[q] = p[q]
        /\ a[Len(a)] = t
    <2>1. \E S : p \in Seq(S)
      BY DEF Shaped
    <2>2. /\ Len(p) \in Nat /\ Len(a) = Len(p) + 1 /\ \E S : a \in Seq(S)
          /\ \A q \in 1 .. Len(p) : a[q] = p[q]
          /\ a[Len(p) + 1] = t
      BY <2>1, AppendHas, Zenon
    <2> HIDE DEF a
    <2> QED  BY <2>2
  <1> HIDE DEF a
  <1>2. Of(a, Len(a)) = n + 1 /\ n + 1 \in 1 .. Len(e) /\ Len(e) \in Nat
    BY <1>1 DEF Of, Log
  <1>3. \A q \in 1 .. Len(a) : q \in 1 .. Len(p) \/ q = Len(a)
    BY <1>1
  <1>4. \A q \in 1 .. Len(p) : Of(a, q) = Of(p, q) /\ Of(p, q) \in 1 .. n
    BY <1>1 DEF Of, Shaped
  <1>5. ASSUME NEW q \in 1 .. Len(a)
        PROVE  /\ a[q] = [key |-> a[q].key, id |-> a[q].id, name |-> a[q].name,
                          call |-> a[q].call, result |-> a[q].result]
               /\ Of(a, q) \in 1 .. n + 1 /\ a[q].call = e[Of(a, q)] /\ a[q].id = a[q].call.id
               /\ \/ a[q].name = "tool" /\ a[q].call.kind = "call"
                  \/ a[q].name = "unknown" /\ a[q].call.kind = "result" /\ a[q].result = a[q].call
    <2>1. CASE q \in 1 .. Len(p)
      <3>1. /\ p[q] = [key |-> p[q].key, id |-> p[q].id, name |-> p[q].name,
                        call |-> p[q].call, result |-> p[q].result]
            /\ p[q].call = e[Of(p, q)] /\ p[q].id = p[q].call.id
            /\ \/ p[q].name = "tool" /\ p[q].call.kind = "call"
               \/ p[q].name = "unknown" /\ p[q].call.kind = "result" /\ p[q].result = p[q].call
        BY <2>1 DEF Shaped
      <3>2. a[q] = p[q] /\ Of(a, q) = Of(p, q) /\ Of(a, q) \in 1 .. n + 1
        BY <1>1, <1>2, <1>4, <2>1
      <3> QED  BY <3>1, <3>2
    <2>2. CASE q = Len(a)
      BY <1>1, <1>2, <2>2
    <2> QED  BY <1>3, <2>1, <2>2
  <1>6. ASSUME NEW q \in 1 .. Len(a), NEW r \in 1 .. Len(a), q < r PROVE Of(a, q) < Of(a, r)
    <2>1. q \in 1 .. Len(p)
      BY <1>1, <1>6
    <2>2. CASE r \in 1 .. Len(p)
      BY <1>4, <1>6, <2>1, <2>2 DEF Shaped
    <2>3. CASE r = Len(a)
      BY <1>2, <1>4, <2>1, <2>3
    <2> QED  BY <1>3, <2>2, <2>3
  <1>7. Shaped(e, n + 1, a)
    BY <1>1, <1>5, <1>6 DEF Shaped
  <1> USE DEF a
  <1> QED  BY <1>1, <1>2, <1>7

\* The key of a new tool is new.
LEMMA KeyIsNew ==
  ASSUME NEW e, NEW n \in Nat, NEW p, Len(p) \in Nat, DOMAIN p = 1 .. Len(p), Keyed(p),
         \A q \in 1 .. Len(p) : Of(p, q) \in 1 .. n,
         NEW a, Len(a) = Len(p) + 1, \A q \in 1 .. Len(p) : a[q] = p[q],
         Of(a, Len(a)) = n + 1,
         \/ a[Len(a)].key = <<"result", n + 1>>
         \/ /\ a[Len(a)].key = ToolKey(p, e[n + 1]) /\ a[Len(a)].id = e[n + 1].id
            /\ e[n + 1].seq = n + 1
  PROVE  Keyed(a)
  <1> DEFINE N == Len(a)
  <1>1. \A q \in 1 .. N : q \in 1 .. Len(p) \/ q = N
    OBVIOUS
  <1>2. \A q \in 1 .. Len(p) : Of(a, q) = Of(p, q) /\ Of(p, q) # n + 1
    BY DEF Of
  <1>3. a[N].key \in {<<"seq", n + 1>>, <<"call", a[N].id>>, <<"call", a[N].id, n + 1>>,
                      <<"result", n + 1>>}
    BY DEF ToolKey
  <1>4. ASSUME NEW q \in 1 .. Len(p) PROVE p[q].key # a[N].key
    <2>1. p[q].key \in {<<"seq", Of(p, q)>>, <<"call", p[q].id>>, <<"call", p[q].id, Of(p, q)>>,
                        <<"result", Of(p, q)>>}
      BY DEF Keyed
    <2>2. CASE a[N].key = <<"call", a[N].id>>
      <3>1. a[N].key = ToolKey(p, e[n + 1])
        BY <2>2
      <3>2. a[N].key = <<"call", e[n + 1].id>>
        BY <2>2, <3>1
      <3>3. ~\E i \in DOMAIN p : p[i].key = <<"call", e[n + 1].id>>
        <4>1. <<"seq", e[n + 1].seq>> # <<"call", e[n + 1].id>>
          OBVIOUS
        <4>2. <<"call", e[n + 1].id, e[n + 1].seq>> # <<"call", e[n + 1].id>>
          OBVIOUS
        <4> QED  BY <3>1, <3>2, <4>1, <4>2 DEF ToolKey
      <3> QED  BY <3>2, <3>3
    <2>3. CASE a[N].key # <<"call", a[N].id>>
      BY <1>2, <1>3, <2>1, <2>3
    <2> QED  BY <2>2, <2>3
  <1>5. \A q \in 1 .. N : a[q].key \in {<<"seq", Of(a, q)>>, <<"call", a[q].id>>,
                                        <<"call", a[q].id, Of(a, q)>>, <<"result", Of(a, q)>>}
    BY <1>1, <1>2, <1>3 DEF Keyed
  <1>6. \A q, r \in 1 .. N : a[q].key = a[r].key => q = r
    BY <1>1, <1>4 DEF Keyed
  <1> QED  BY <1>5, <1>6 DEF Keyed

\* A call becomes an open tool, the newest with its id.
LEMMA CallKeeps ==
  ASSUME NEW e, Log(e), NEW n \in 0 .. Len(e) - 1, NEW p, Paired(e, n, p),
         e[n + 1].kind = "call"
  PROVE  Paired(e, n + 1, AddTool(p, e[n + 1]))
  <1> DEFINE t == [key |-> ToolKey(p, e[n + 1]), id |-> e[n + 1].id, name |-> "tool",
                   call |-> e[n + 1], result |-> NoResult]
             a == Append(p, t)
             N == Len(a)
  <1>1. AddTool(p, e[n + 1]) = a
    BY DEF AddTool
  <1>2. /\ Shaped(e, n + 1, a) /\ Of(a, N) = n + 1 /\ a[N] = t
        /\ Len(p) \in Nat /\ N = Len(p) + 1 /\ \A q \in 1 .. Len(p) : a[q] = p[q]
    BY AppendShaped DEF Paired
  <1>3. t.key = ToolKey(p, e[n + 1]) /\ t.id = e[n + 1].id /\ t.name = "tool" /\ t.result = NoResult
    OBVIOUS
  <1> HIDE DEF a, t
  <1>4. /\ Len(e) \in Nat /\ n \in Nat /\ n + 1 \in 1 .. Len(e) /\ e[n + 1].seq = n + 1
        /\ DOMAIN p = 1 .. Len(p)
        /\ \A q \in 1 .. N : q \in 1 .. Len(p) \/ q = N
    BY <1>2, ShapedHas DEF Log, Paired
  <1>5. \A q \in 1 .. Len(p) : Of(p, q) \in 1 .. n /\ p[q].id = e[Of(p, q)].id
    BY DEF Paired, Shaped
  <1>6. Keyed(a)
    BY <1>2, <1>3, <1>4, <1>5, KeyIsNew DEF Paired
  <1>7. \A q \in 1 .. Len(p) : /\ Of(a, q) = Of(p, q) /\ (IsOpen(a, q) <=> IsOpen(p, q))
                               /\ OpenFrom(a, q) = IF IsOpen(a, N) /\ a[N].id = p[q].id
                                                   THEN OpenFrom(p, q) \cup {N}
                                                   ELSE OpenFrom(p, q)
                               /\ N \notin OpenFrom(p, q)
    BY <1>2, AppendOpen
  <1>8. Listed(e, n + 1, a)
    <2>1. ASSUME NEW k \in 1 .. n
          PROVE  (\E q \in 1 .. N : Of(a, q) = k) <=> \E q \in 1 .. Len(p) : Of(p, q) = k
      <3>1. k # n + 1
        BY <1>4
      <3> QED  BY <1>2, <1>4, <1>7, <3>1
    <2>2. \A k \in 1 .. n + 1 : k \in 1 .. n \/ k = n + 1
      BY <1>4
    <2>3. N \in 1 .. N
      BY <1>2
    <2> QED  BY <1>2, <2>1, <2>2, <2>3 DEF Paired, Listed
  <1>9. ASSUME NEW q \in 1 .. Len(p)
        PROVE  /\ Balance(e, Of(p, q), n) \in Int
               /\ Balance(e, Of(p, q), n + 1) = Balance(e, Of(p, q), n)
                                                + IF e[n + 1].id = p[q].id THEN 1 ELSE 0
    <2> DEFINE i == Of(p, q)
    <2>1. i \in 1 .. Len(e) /\ n \in i .. Len(e) - 1 /\ p[q].id = e[i].id
      BY <1>4, <1>5
    <2> HIDE DEF i
    <2>2. /\ Balance(e, i, n) \in Int
          /\ e[n + 1].id # e[i].id => Balance(e, i, n + 1) = Balance(e, i, n)
          /\ e[n + 1].id = e[i].id => Balance(e, i, n + 1) = Balance(e, i, n) + 1
      BY <2>1, BalanceStep
    <2>3. Balance(e, i, n + 1) = Balance(e, i, n) + IF e[n + 1].id = p[q].id THEN 1 ELSE 0
      BY <2>1, <2>2
    <2> USE DEF i
    <2> QED  BY <2>2, <2>3
  <1>10. Balance(e, n + 1, n + 1) = 1
    BY <1>4, BalanceStarts
  <1>11. Matched(e, n + 1, a)
    <2>1. ASSUME NEW q \in 1 .. Len(p), p[q].name = "tool", p[q].result = NoResult, p[q].id # "",
                 NEW k \in Of(p, q) .. n + 1
          PROVE  Balance(e, Of(p, q), k) > 0
      <3>1. \A m \in Of(p, q) .. n : Balance(e, Of(p, q), m) > 0
        BY <2>1 DEF Paired, Matched
      <3>2. k \in Of(p, q) .. n \/ k = n + 1
        BY <1>4, <1>5
      <3>3. n \in Of(p, q) .. n
        BY <1>4, <1>5
      <3> QED  BY <1>9, <3>1, <3>2, <3>3
    <2>2. 1 .. n \subseteq 1 .. n + 1
      BY <1>4
    <2>3. ASSUME NEW q \in 1 .. Len(p), a[q].name = "tool"
          PROVE  IF a[q].result = NoResult
                 THEN a[q].id # "" => \A k \in Of(a, q) .. n + 1 : Balance(e, Of(a, q), k) > 0
                 ELSE \E j \in 1 .. n + 1 : Closes(e, Of(a, q), j) /\ a[q].result = e[j]
      <3>1. a[q] = p[q] /\ Of(a, q) = Of(p, q)
        BY <1>2, <1>7
      <3> QED  BY <2>1, <2>2, <2>3, <3>1 DEF Paired, Matched
    <2>4. \A k \in n + 1 .. n + 1 : Balance(e, n + 1, k) > 0
      BY <1>4, <1>10
    <2> QED  BY <1>2, <1>3, <1>4, <2>3, <2>4 DEF Matched
  <1>12. Balanced(e, n + 1, a)
    <2>1. ASSUME NEW q \in 1 .. Len(p), IsOpen(a, q)
          PROVE  Balance(e, Of(a, q), n + 1) = Cardinality(OpenFrom(a, q))
      <3>1. Balance(e, Of(p, q), n) = Cardinality(OpenFrom(p, q))
        BY <1>7, <2>1 DEF Paired, Balanced
      <3>2. IsOpen(a, N) /\ a[N].id = p[q].id <=> e[n + 1].id = p[q].id
        BY <1>2, <1>3, <1>7, <2>1 DEF IsOpen
      <3>3. /\ IsFiniteSet(OpenFrom(p, q))
            /\ Cardinality(OpenFrom(p, q) \cup {N}) = Cardinality(OpenFrom(p, q)) + 1
        BY <1>2, <1>7, OpenAreFinite, FS_AddElement
      <3>4. Of(a, q) = Of(p, q)
        BY <1>7
      <3>5. CASE e[n + 1].id = p[q].id
        BY <1>7, <1>9, <3>1, <3>2, <3>3, <3>4, <3>5
      <3>6. CASE e[n + 1].id # p[q].id
        <4>1. OpenFrom(a, q) = OpenFrom(p, q)
          BY <1>7, <3>2, <3>6
        <4> QED  BY <1>9, <3>1, <3>4, <3>6, <4>1
      <3> QED  BY <3>5, <3>6
    <2>2. ASSUME IsOpen(a, N) PROVE OpenFrom(a, N) = {N}
      BY <1>2, <2>2 DEF OpenFrom
    <2> QED  BY <1>2, <1>4, <1>10, <2>1, <2>2, FS_Singleton DEF Balanced
  <1> QED  BY <1>1, <1>2, <1>6, <1>8, <1>11, <1>12 DEF Paired

\* A result for which no call is open closes none, and becomes a tool.
LEMMA OrphanKeeps ==
  ASSUME NEW e, Log(e), NEW n \in 0 .. Len(e) - 1, NEW p, Paired(e, n, p),
         e[n + 1].kind = "result", Open(p, e[n + 1]) = {}
  PROVE  Paired(e, n + 1, AddTool(p, e[n + 1]))
  <1> DEFINE t == [key |-> <<"result", e[n + 1].seq>>, id |-> e[n + 1].id, name |-> "unknown",
                   call |-> e[n + 1], result |-> e[n + 1]]
             a == Append(p, t)
             N == Len(a)
  <1>1. AddTool(p, e[n + 1]) = a
    BY DEF AddTool, AddResult
  <1>2. /\ Shaped(e, n + 1, a) /\ Of(a, N) = n + 1 /\ a[N] = t
        /\ Len(p) \in Nat /\ N = Len(p) + 1 /\ \A q \in 1 .. Len(p) : a[q] = p[q]
    BY AppendShaped DEF Paired
  <1>3. /\ t.key = <<"result", e[n + 1].seq>> /\ t.id = e[n + 1].id /\ t.name = "unknown"
        /\ t.result = e[n + 1]
    OBVIOUS
  <1> HIDE DEF a, t
  <1>4. /\ Len(e) \in Nat /\ n \in Nat /\ n + 1 \in 1 .. Len(e) /\ e[n + 1].seq = n + 1
        /\ DOMAIN p = 1 .. Len(p)
        /\ \A q \in 1 .. N : q \in 1 .. Len(p) \/ q = N
    BY <1>2, ShapedHas DEF Log, Paired
  <1>5. \A q \in 1 .. Len(p) : Of(p, q) \in 1 .. n /\ p[q].id = e[Of(p, q)].id
    BY DEF Paired, Shaped
  <1>6. Keyed(a)
    BY <1>2, <1>3, <1>4, <1>5, KeyIsNew DEF Paired
  <1>7. \A q \in 1 .. Len(p) : /\ Of(a, q) = Of(p, q) /\ (IsOpen(a, q) <=> IsOpen(p, q))
                               /\ OpenFrom(a, q) = IF IsOpen(a, N) /\ a[N].id = p[q].id
                                                   THEN OpenFrom(p, q) \cup {N}
                                                   ELSE OpenFrom(p, q)
    BY <1>2, AppendOpen
  <1>8. ~IsOpen(a, N)
    BY <1>2, <1>3 DEF IsOpen
  <1>9. ASSUME NEW q \in 1 .. Len(p), IsOpen(p, q) PROVE p[q].id # e[n + 1].id
    BY <1>4, <1>9 DEF Open, IsOpen
  <1>10. ~\E i \in Calls(e) : Closes(e, i, n + 1)
    <2>1. SUFFICES ASSUME NEW i \in Calls(e), Closes(e, i, n + 1) PROVE FALSE
      OBVIOUS
    <2>2. /\ i \in 1 .. Len(e) /\ i \in 1 .. n /\ e[i].kind = "call" /\ e[i].id # ""
          /\ e[n + 1].id = e[i].id
      <3>1. i \in 1 .. Len(e) /\ e[i].kind = "call"
        BY DEF Calls, Log
      <3>2. i < n + 1 /\ e[i].id # "" /\ e[n + 1].id = e[i].id
        BY <2>1 DEF Closes
      <3>3. i \in 1 .. n
        <4>1. \A x \in 1 .. Len(e) : x < n + 1 => x \in 1 .. n
          BY <1>4
        <4> QED  BY <3>1, <3>2, <4>1
      <3> QED  BY <3>1, <3>2, <3>3, Zenon
    <2>3. PICK q \in 1 .. Len(p) : Of(p, q) = i
      BY <2>2 DEF Paired, Listed
    <2>4. p[q].name = "tool" /\ p[q].id = e[i].id
      BY <2>2, <2>3 DEF Paired, Shaped
    <2>5. p[q].result # NoResult
      BY <1>9, <2>2, <2>4 DEF IsOpen
    <2>6. PICK j \in 1 .. n : Closes(e, i, j)
      BY <2>3, <2>4, <2>5 DEF Paired, Matched
    <2>7. j \in 1 .. Len(e) /\ j # n + 1
      BY <1>4
    <2>8. j = n + 1
      BY <1>4, <2>1, <2>2, <2>6, <2>7, ClosesOnce, Zenon
    <2> QED  BY <2>7, <2>8
  <1>11. Listed(e, n + 1, a)
    <2>1. ASSUME NEW k \in 1 .. n
          PROVE  (\E q \in 1 .. N : Of(a, q) = k) <=> \E q \in 1 .. Len(p) : Of(p, q) = k
      <3>1. k # n + 1
        BY <1>4
      <3> QED  BY <1>2, <1>4, <1>7, <3>1
    <2>2. \A k \in 1 .. n + 1 : k \in 1 .. n \/ k = n + 1
      BY <1>4
    <2>3. N \in 1 .. N
      BY <1>2
    <2> QED  BY <1>2, <1>10, <2>1, <2>2, <2>3 DEF Paired, Listed
  <1>12. ASSUME NEW q \in 1 .. Len(p), IsOpen(p, q)
         PROVE  Balance(e, Of(p, q), n + 1) = Balance(e, Of(p, q), n)
    <2> DEFINE i == Of(p, q)
    <2>1. i \in 1 .. Len(e) /\ n \in i .. Len(e) - 1 /\ e[n + 1].id # e[i].id
      BY <1>4, <1>5, <1>9, <1>12
    <2> HIDE DEF i
    <2>2. Balance(e, i, n + 1) = Balance(e, i, n)
      BY <2>1, BalanceStep
    <2> USE DEF i
    <2> QED  BY <2>2
  <1>13. Matched(e, n + 1, a)
    <2>1. ASSUME NEW q \in 1 .. Len(p), p[q].name = "tool", p[q].result = NoResult, p[q].id # "",
                 NEW k \in Of(p, q) .. n + 1
          PROVE  Balance(e, Of(p, q), k) > 0
      <3>1. \A m \in Of(p, q) .. n : Balance(e, Of(p, q), m) > 0
        BY <2>1 DEF Paired, Matched
      <3>2. k \in Of(p, q) .. n \/ k = n + 1
        BY <1>4, <1>5
      <3>3. n \in Of(p, q) .. n
        BY <1>4, <1>5
      <3>4. IsOpen(p, q)
        BY <2>1 DEF IsOpen
      <3> QED  BY <1>12, <3>1, <3>2, <3>3, <3>4
    <2>2. 1 .. n \subseteq 1 .. n + 1
      BY <1>4
    <2>3. ASSUME NEW q \in 1 .. Len(p), a[q].name = "tool"
          PROVE  IF a[q].result = NoResult
                 THEN a[q].id # "" => \A k \in Of(a, q) .. n + 1 : Balance(e, Of(a, q), k) > 0
                 ELSE \E j \in 1 .. n + 1 : Closes(e, Of(a, q), j) /\ a[q].result = e[j]
      <3>1. a[q] = p[q] /\ Of(a, q) = Of(p, q)
        BY <1>2, <1>7
      <3> QED  BY <2>1, <2>2, <2>3, <3>1 DEF Paired, Matched
    <2> QED  BY <1>2, <1>3, <1>4, <2>3 DEF Matched
  <1>14. Balanced(e, n + 1, a)
    BY <1>4, <1>7, <1>8, <1>12 DEF Paired, Balanced
  <1> QED  BY <1>1, <1>2, <1>6, <1>11, <1>13, <1>14 DEF Paired

\* A result goes to the newest of the open calls with its id, and closes it.
LEMMA ResultKeeps ==
  ASSUME NEW e, Log(e), NEW n \in 0 .. Len(e) - 1, NEW p, Paired(e, n, p),
         e[n + 1].kind = "result", Open(p, e[n + 1]) # {}
  PROVE  Paired(e, n + 1, AddTool(p, e[n + 1]))
  <1> DEFINE m == Newest(Open(p, e[n + 1]))
             a == [p EXCEPT ![m].result = e[n + 1]]
  <1>1. AddTool(p, e[n + 1]) = a
    BY DEF AddTool, AddResult
  <1>2. /\ Len(e) \in Nat /\ n \in Nat /\ n + 1 \in 1 .. Len(e) /\ e[n + 1].seq = n + 1
        /\ DOMAIN p = 1 .. Len(p) /\ Len(p) \in Nat
    BY ShapedHas DEF Log, Paired
  <1>3. /\ m \in 1 .. Len(p) /\ IsOpen(p, m) /\ p[m].id = e[n + 1].id
        /\ \A r \in 1 .. Len(p) : IsOpen(p, r) /\ p[r].id = e[n + 1].id => r <= m
    <2> DEFINE S == Open(p, e[n + 1])
               T == {k \in Nat : \E r \in S : k = Len(p) - r}
    <2>1. S = {r \in 1 .. Len(p) : IsOpen(p, r) /\ p[r].id = e[n + 1].id}
      <3>1. ASSUME NEW r \in 1 .. Len(p), p[r].result = NoResult PROVE p[r].name = "tool"
        <4>1. e[Of(p, r)].kind # "none" /\ p[r].call = e[Of(p, r)]
          BY <1>2 DEF Log, Paired, Shaped
        <4> QED  BY <3>1, <4>1 DEF Paired, Shaped, NoResult
      <3> QED  BY <1>2, <3>1 DEF Open, IsOpen
    <2>2. S # {}
      OBVIOUS
    <2> HIDE DEF S
    <2>3. \E r \in S : \A s \in S : s <= r
      <3>1. \A r \in S : Len(p) - r \in T
        BY <1>2, <2>1
      <3>2. PICK k \in T : \A l \in T : k <= l
        BY <2>2, <3>1, LeastIn
      <3>3. PICK r \in S : k = Len(p) - r
        OBVIOUS
      <3> HIDE DEF T
      <3>4. \A s \in S : s <= r
        BY <1>2, <2>1, <3>1, <3>2, <3>3
      <3> QED  BY <3>4
    <2>4. m \in S /\ \A s \in S : s <= m
      <3>1. Newest(S) \in S /\ \A s \in S : s <= Newest(S)
        BY <2>3 DEF Newest
      <3> QED  BY <3>1 DEF S
    <2> HIDE DEF m
    <2> QED  BY <2>1, <2>4
  <1> HIDE DEF m
  <1>4. /\ Len(a) = Len(p) /\ \A q \in 1 .. Len(p) : q # m => a[q] = p[q]
        /\ a[m] = [key |-> p[m].key, id |-> p[m].id, name |-> p[m].name, call |-> p[m].call,
                   result |-> e[n + 1]]
        /\ \E S : a \in Seq(S)
    <2>1. PICK S : p \in Seq(S)
      BY DEF Paired, Shaped
    <2>2. p[m] = [key |-> p[m].key, id |-> p[m].id, name |-> p[m].name, call |-> p[m].call,
                  result |-> p[m].result]
      BY <1>3 DEF Paired, Shaped
    <2> DEFINE t == [p[m] EXCEPT !.result = e[n + 1]]
    <2>3. t = [key |-> p[m].key, id |-> p[m].id, name |-> p[m].name, call |-> p[m].call,
               result |-> e[n + 1]]
      BY <2>2
    <2>4. a = [p EXCEPT ![m] = t]
      OBVIOUS
    <2> HIDE DEF a, t
    <2>5. p \in Seq(S \cup {t}) /\ t \in S \cup {t}
      BY <2>1, SeqMonotonic
    <2>6. a \in Seq(S \cup {t}) /\ Len(a) = Len(p)
      BY <1>3, <2>4, <2>5, ExceptSeq
    <2>7. a[m] = t /\ \A q \in 1 .. Len(p) : q # m => a[q] = p[q]
      BY <1>2, <1>3, <2>4
    <2> QED  BY <2>3, <2>6, <2>7
  <1> HIDE DEF a
  <1>5. \A q \in 1 .. Len(p) :
          /\ Of(a, q) = Of(p, q) /\ a[q].id = p[q].id /\ a[q].name = p[q].name
          /\ a[q].call = p[q].call /\ a[q].key = p[q].key
    BY <1>4 DEF Of
  <1>6. \A q \in 1 .. Len(p) :
          /\ Of(p, q) \in 1 .. n /\ p[q].id = e[Of(p, q)].id /\ p[q].call = e[Of(p, q)]
    BY DEF Paired, Shaped
  <1>7. e[n + 1] # NoResult
    BY DEF NoResult
  <1>8. \A q \in 1 .. Len(p) : IsOpen(a, q) <=> IsOpen(p, q) /\ q # m
    <2>1. ASSUME NEW q \in 1 .. Len(p), q # m PROVE IsOpen(a, q) <=> IsOpen(p, q)
      BY <1>4, <2>1 DEF IsOpen
    <2>2. a[m].result # NoResult
      BY <1>4, <1>7
    <2> QED  BY <2>1, <2>2 DEF IsOpen
  <1>9. ASSUME NEW q \in 1 .. Len(p)
        PROVE  OpenFrom(a, q) = OpenFrom(p, q) \ {m}
    BY <1>4, <1>5, <1>8 DEF OpenFrom
  <1>10. ASSUME NEW q \in 1 .. Len(p)
         PROVE  /\ Balance(e, Of(p, q), n) \in Int
                /\ Balance(e, Of(p, q), n + 1) = Balance(e, Of(p, q), n)
                                                 - IF e[n + 1].id = p[q].id THEN 1 ELSE 0
    <2> DEFINE i == Of(p, q)
    <2>1. i \in 1 .. Len(e) /\ n \in i .. Len(e) - 1 /\ p[q].id = e[i].id
      BY <1>2, <1>6
    <2> HIDE DEF i
    <2>2. /\ Balance(e, i, n) \in Int
          /\ e[n + 1].id # e[i].id => Balance(e, i, n + 1) = Balance(e, i, n)
          /\ e[n + 1].id = e[i].id => Balance(e, i, n + 1) = Balance(e, i, n) - 1
      BY <2>1, BalanceStep
    <2>3. Balance(e, i, n + 1) = Balance(e, i, n) - IF e[n + 1].id = p[q].id THEN 1 ELSE 0
      BY <2>1, <2>2
    <2> USE DEF i
    <2> QED  BY <2>2, <2>3
  <1>11. ASSUME NEW q \in 1 .. Len(p), IsOpen(a, q)
         PROVE  /\ Balance(e, Of(p, q), n + 1) = Cardinality(OpenFrom(a, q))
                /\ Balance(e, Of(p, q), n + 1) > 0
    <2>1. Balance(e, Of(p, q), n) = Cardinality(OpenFrom(p, q))
      BY <1>8, <1>11 DEF Paired, Balanced
    <2>2. /\ IsFiniteSet(OpenFrom(p, q)) /\ Cardinality(OpenFrom(p, q)) \in Nat
          /\ IsFiniteSet(OpenFrom(a, q)) /\ Cardinality(OpenFrom(a, q)) \in Nat
      BY <1>2, <1>4, OpenAreFinite
    <2>3. Balance(e, Of(p, q), n + 1) = Cardinality(OpenFrom(a, q))
      <3>1. CASE e[n + 1].id = p[q].id
        <4>1. m \in OpenFrom(p, q)
          <5>1. IsOpen(p, q) /\ q <= m
            BY <1>3, <1>8, <1>11, <3>1
          <5> QED  BY <1>2, <1>3, <3>1, <5>1 DEF OpenFrom
        <4>2. Cardinality(OpenFrom(p, q) \ {m}) = Cardinality(OpenFrom(p, q)) - 1
          BY <2>2, <4>1, FS_RemoveElement
        <4> QED  BY <1>9, <1>10, <2>1, <3>1, <4>2
      <3>2. CASE e[n + 1].id # p[q].id
        <4>1. m \notin OpenFrom(p, q)
          BY <1>3, <3>2 DEF OpenFrom
        <4>2. OpenFrom(a, q) = OpenFrom(p, q)
          BY <1>9, <4>1
        <4> QED  BY <1>10, <2>1, <3>2, <4>2
      <3> QED  BY <3>1, <3>2
    <2>4. q \in OpenFrom(a, q)
      BY <1>2, <1>4, <1>11 DEF OpenFrom
    <2>5. Cardinality(OpenFrom(a, q)) # 0
      BY <2>2, <2>4, FS_EmptySet
    <2> QED  BY <2>2, <2>3, <2>5
  <1>12. Closes(e, Of(p, m), n + 1) /\ Of(p, m) \in Calls(e)
    <2> DEFINE i == Of(p, m)
    <2>1. /\ i \in 1 .. Len(e) /\ i < n + 1 /\ e[i].id # "" /\ e[n + 1].id = e[i].id
          /\ e[i].kind = "call"
      <3>1. i \in 1 .. n /\ e[i].id = p[m].id /\ p[m].call = e[i]
        BY <1>3, <1>6
      <3>2. i \in 1 .. Len(e) /\ i < n + 1
        BY <1>2, <3>1
      <3>3. p[m].name = "tool" /\ p[m].id # "" /\ p[m].id = e[n + 1].id
        BY <1>3 DEF IsOpen
      <3>4. p[m].call.kind = "call"
        BY <1>3, <3>3 DEF Paired, Shaped
      <3> QED  BY <3>1, <3>2, <3>3, <3>4
    <2>2. OpenFrom(p, m) = {m}
      BY <1>2, <1>3 DEF OpenFrom
    <2>3. Balance(e, i, n) = 1
      BY <1>3, <2>2, FS_Singleton DEF Paired, Balanced
    <2>4. Balance(e, i, n + 1) = 0
      BY <1>3, <1>10, <2>3
    <2>5. \A k \in i .. n : Balance(e, i, k) > 0
      BY <1>3 DEF Paired, Matched, IsOpen
    <2> HIDE DEF i
    <2>6. \A k \in i .. (n + 1) - 1 : Balance(e, i, k) > 0
      <3>1. (n + 1) - 1 = n
        BY <1>2
      <3> QED  BY <2>5, <3>1, Zenon
    <2>7. Closes(e, i, n + 1)
      <3>1. e[n + 1].kind = "result"
        OBVIOUS
      <3> QED  BY <1>2, <2>1, <2>4, <2>6, <3>1, ClosesIs, Zenon
    <2>8. i \in Calls(e)
      BY <2>1 DEF Calls, Log
    <2> USE DEF i
    <2> QED  BY <2>7, <2>8
  <1>13. Shaped(e, n + 1, a)
    <2>1. ASSUME NEW q \in 1 .. Len(a)
          PROVE  a[q] = [key |-> a[q].key, id |-> a[q].id, name |-> a[q].name,
                         call |-> a[q].call, result |-> a[q].result]
      <3>1. p[q] = [key |-> p[q].key, id |-> p[q].id, name |-> p[q].name,
                    call |-> p[q].call, result |-> p[q].result]
        BY <1>4 DEF Paired, Shaped
      <3> QED  BY <1>4, <3>1
    <2>2. ASSUME NEW q \in 1 .. Len(a)
          PROVE  /\ Of(a, q) \in 1 .. n + 1 /\ a[q].call = e[Of(a, q)] /\ a[q].id = a[q].call.id
                 /\ \/ a[q].name = "tool" /\ a[q].call.kind = "call"
                    \/ /\ a[q].name = "unknown" /\ a[q].call.kind = "result"
                       /\ a[q].result = a[q].call
      <3>1. /\ Of(p, q) \in 1 .. n /\ p[q].call = e[Of(p, q)] /\ p[q].id = p[q].call.id
            /\ \/ p[q].name = "tool" /\ p[q].call.kind = "call"
               \/ p[q].name = "unknown" /\ p[q].call.kind = "result" /\ p[q].result = p[q].call
        BY <1>4 DEF Paired, Shaped
      <3>2. 1 .. n \subseteq 1 .. n + 1
        BY <1>2
      <3>3. q = m => p[q].name = "tool"
        BY <1>3 DEF IsOpen
      <3> QED  BY <1>4, <1>5, <3>1, <3>2, <3>3
    <2>3. \A q, r \in 1 .. Len(a) : q < r => Of(a, q) < Of(a, r)
      BY <1>4, <1>5 DEF Paired, Shaped
    <2> QED  BY <1>4, <2>1, <2>2, <2>3 DEF Shaped
  <1>14. Listed(e, n + 1, a)
    <2>1. ASSUME NEW k \in 1 .. n
          PROVE  (\E q \in 1 .. Len(a) : Of(a, q) = k) <=> \E q \in 1 .. Len(p) : Of(p, q) = k
      BY <1>4, <1>5
    <2>2. \A k \in 1 .. n + 1 : k \in 1 .. n \/ k = n + 1
      BY <1>2
    <2>3. ~\E q \in 1 .. Len(a) : Of(a, q) = n + 1
      <3>1. \A k \in 1 .. n : k # n + 1
        BY <1>2
      <3> QED  BY <1>4, <1>5, <1>6, <3>1
    <2> QED  BY <1>12, <2>1, <2>2, <2>3 DEF Paired, Listed
  <1>15. Matched(e, n + 1, a)
    <2>1. n + 1 \in 1 .. n + 1 /\ 1 .. n \subseteq 1 .. n + 1
      BY <1>2
    <2>2. ASSUME NEW q \in 1 .. Len(p), a[q].name = "tool"
          PROVE  IF a[q].result = NoResult
                 THEN a[q].id # "" => \A k \in Of(a, q) .. n + 1 : Balance(e, Of(a, q), k) > 0
                 ELSE \E j \in 1 .. n + 1 : Closes(e, Of(a, q), j) /\ a[q].result = e[j]
      <3>1. CASE q = m
        <4>1. a[q].result = e[n + 1] /\ Of(a, q) = Of(p, m)
          BY <1>4, <1>5, <3>1
        <4>2. Closes(e, Of(a, q), n + 1)
          BY <1>12, <4>1
        <4> QED  BY <1>7, <2>1, <4>1, <4>2
      <3>2. CASE q # m /\ p[q].result # NoResult
        <4>1. a[q] = p[q] /\ Of(a, q) = Of(p, q)
          BY <1>4, <1>5, <3>2
        <4>2. \E j \in 1 .. n : Closes(e, Of(p, q), j) /\ p[q].result = e[j]
          BY <2>2, <3>2, <4>1 DEF Paired, Matched
        <4> QED  BY <2>1, <3>2, <4>1, <4>2
      <3>3. CASE q # m /\ p[q].result = NoResult
        <4>1. a[q] = p[q] /\ Of(a, q) = Of(p, q)
          BY <1>4, <1>5, <3>3
        <4>2. ASSUME a[q].id # "", NEW k \in Of(a, q) .. n + 1
              PROVE  Balance(e, Of(a, q), k) > 0
          <5>1. \A l \in Of(p, q) .. n : Balance(e, Of(p, q), l) > 0
            BY <2>2, <3>3, <4>1, <4>2 DEF Paired, Matched
          <5>2. IsOpen(a, q)
            BY <2>2, <3>3, <4>1, <4>2 DEF IsOpen
          <5>3. k \in Of(p, q) .. n \/ k = n + 1
            BY <1>2, <1>6, <4>1
          <5> QED  BY <1>11, <4>1, <5>1, <5>2, <5>3
        <4> QED  BY <3>3, <4>1, <4>2
      <3> QED  BY <3>1, <3>2, <3>3
    <2> QED  BY <1>4, <2>2 DEF Matched
  <1>16. Balanced(e, n + 1, a)
    BY <1>4, <1>5, <1>11 DEF Balanced
  <1>17. Keyed(a)
    BY <1>4, <1>5 DEF Paired, Keyed
  <1> QED  BY <1>1, <1>13, <1>14, <1>15, <1>16, <1>17 DEF Paired

\* The tools of a session are its calls with their results, and the results without a call.
LEMMA ToolsKept ==
  ASSUME NEW e, Log(e)
  PROVE  Paired(e, Len(e), Tools(e))
  <1>1. Len(e) \in Nat
    BY DEF Log
  <1>2. PICK f : /\ f[0] = <<>> /\ Tools(e) = f[Len(e)]
                 /\ \A n \in 1 .. Len(e) : f[n] = AddTool(f[n - 1], e[n])
    BY <1>1, ToolsStepwise
  <1> DEFINE Bad == {n \in Nat : n <= Len(e) /\ ~Paired(e, n, f[n])}
  <1>3. Bad = {}
    <2>1. SUFFICES ASSUME Bad # {} PROVE FALSE
      OBVIOUS
    <2>2. PICK n \in Bad : \A m \in Bad : n <= m
      BY <2>1, LeastIn
    <2>3. n # 0
      <3>1. Shaped(e, 0, <<>>) /\ Listed(e, 0, <<>>) /\ Matched(e, 0, <<>>)
            /\ Balanced(e, 0, <<>>) /\ Keyed(<<>>)
        BY DEF Shaped, Listed, Matched, Balanced, Keyed
      <3> QED  BY <1>2, <2>2, <3>1 DEF Paired
    <2> DEFINE m == n - 1
    <2>4. m \in 0 .. Len(e) - 1 /\ m + 1 = n /\ n \in 1 .. Len(e)
      BY <1>1, <2>2, <2>3
    <2>5. m \notin Bad
      BY <2>2, <2>4
    <2> HIDE DEF m
    <2>6. Paired(e, m, f[m]) /\ f[n] = AddTool(f[m], e[m + 1])
      <3>1. m \in Nat /\ m <= Len(e) /\ n - 1 = m
        BY <1>1, <2>4
      <3> QED  BY <1>2, <2>4, <2>5, <3>1
    <2>7. CASE e[m + 1].kind = "call"
      BY <2>2, <2>4, <2>6, <2>7, CallKeeps
    <2>8. CASE e[m + 1].kind = "result" /\ Open(f[m], e[m + 1]) = {}
      BY <2>2, <2>4, <2>6, <2>8, OrphanKeeps
    <2>9. CASE e[m + 1].kind = "result" /\ Open(f[m], e[m + 1]) # {}
      BY <2>2, <2>4, <2>6, <2>9, ResultKeeps
    <2>10. CASE e[m + 1].kind \notin {"call", "result"}
      <3>1. AddTool(f[m], e[m + 1]) = f[m]
        BY <2>10 DEF AddTool
      <3> QED  BY <2>2, <2>4, <2>6, <2>10, <3>1, OtherKeeps
    <2> QED  BY <2>7, <2>8, <2>9, <2>10
  <1> QED  BY <1>1, <1>2, <1>3

---------------------------------------------------------------------------
(* The spans made of the tools.                                            *)

\* Finitely many times have a first one.
LEMMA FirstOf ==
  ASSUME NEW N \in Nat \ {0}, NEW f, \A k \in 1 .. N : f[k] \in Int
  PROVE  \E k \in 1 .. N : \A j \in 1 .. N : f[k] <= f[j]
  <1> DEFINE Bad == {n \in Nat : n \in 1 .. N /\ ~\E k \in 1 .. n : \A j \in 1 .. n : f[k] <= f[j]}
  <1>1. Bad = {}
    <2>1. SUFFICES ASSUME Bad # {} PROVE FALSE
      OBVIOUS
    <2>2. PICK n \in Bad : \A m \in Bad : n <= m
      BY <2>1, LeastIn
    <2>3. n # 1
      <3>1. 1 .. 1 = {1} /\ f[1] \in Int
        OBVIOUS
      <3>2. \E k \in 1 .. 1 : \A j \in 1 .. 1 : f[k] <= f[j]
        BY <3>1
      <3> QED  BY <2>2, <3>2
    <2>4. n - 1 \in 1 .. N /\ n - 1 \notin Bad
      <3>1. n \in 1 .. N /\ n - 1 \in 1 .. N /\ n - 1 \in Nat /\ ~(n <= n - 1)
        BY <2>3
      <3>2. n - 1 \notin Bad
        BY <2>2, <3>1, Zenon
      <3> QED  BY <3>1, <3>2
    <2>5. PICK k \in 1 .. n - 1 : \A j \in 1 .. n - 1 : f[k] <= f[j]
      BY <2>4
    <2>6. \A j \in 1 .. n : j \in 1 .. n - 1 \/ j = n
      BY <2>2
    <2>7. k \in 1 .. n /\ n \in 1 .. n /\ f[k] \in Int /\ f[n] \in Int
          /\ \A j \in 1 .. n : f[j] \in Int
      BY <2>2, <2>4
    <2>8. CASE f[k] <= f[n]
      <3>1. \A j \in 1 .. n : f[k] <= f[j]
        BY <2>5, <2>6, <2>8
      <3> QED  BY <2>2, <2>7, <3>1
    <2>9. CASE ~(f[k] <= f[n])
      <3>1. \A j \in 1 .. n : f[n] <= f[j]
        <4>1. ASSUME NEW j \in 1 .. n PROVE f[n] <= f[j]
          <5>1. CASE j = n
            BY <2>7, <5>1
          <5>2. CASE j \in 1 .. n - 1
            <6>1. f[k] <= f[j] /\ f[j] \in Int
              BY <2>5, <2>7, <5>2
            <6> QED  BY <2>7, <2>9, <6>1
          <5> QED  BY <2>6, <5>1, <5>2
        <4> QED  BY <4>1
      <3> QED  BY <2>2, <2>7, <3>1
    <2> QED  BY <2>8, <2>9
  <1>2. N \in 1 .. N
    OBVIOUS
  <1> QED  BY <1>1, <1>2

\* The root span reaches from the first to the last event.
LEMMA BoundsHold ==
  ASSUME NEW e, Log(e), Len(e) # 0
  PROVE  /\ AgentTimeBounds(e).first \in Int /\ AgentTimeBounds(e).last \in Int
         /\ \A k \in 1 .. Len(e) : /\ AgentTimeBounds(e).first <= e[k].wall
                                   /\ e[k].wall <= AgentTimeBounds(e).last
  <1> DEFINE N == Len(e)
             f == [k \in 1 .. N |-> e[k].wall]
             g == [k \in 1 .. N |-> 0 - e[k].wall]
             times == {x.wall : x \in ToSet(e)}
  <1>1. N \in Nat \ {0} /\ DOMAIN e = 1 .. N /\ \A k \in 1 .. N : e[k].wall \in Int
    BY DEF Log
  <1>2. PICK i \in 1 .. N : \A j \in 1 .. N : e[i].wall <= e[j].wall
    <2>1. \A k \in 1 .. N : f[k] \in Int
      BY <1>1
    <2> HIDE DEF f
    <2>2. PICK i \in 1 .. N : \A j \in 1 .. N : f[i] <= f[j]
      BY <1>1, <2>1, FirstOf
    <2> QED  BY <2>2 DEF f
  <1>3. PICK l \in 1 .. N : \A j \in 1 .. N : e[j].wall <= e[l].wall
    <2>1. \A k \in 1 .. N : g[k] \in Int
      BY <1>1
    <2> HIDE DEF g
    <2>2. PICK l \in 1 .. N : \A j \in 1 .. N : g[l] <= g[j]
      BY <1>1, <2>1, FirstOf
    <2>3. \A j \in 1 .. N : g[j] = 0 - e[j].wall
      BY DEF g
    <2>4. ASSUME NEW j \in 1 .. N PROVE e[j].wall <= e[l].wall
      BY <1>1, <2>2, <2>3
    <2> QED  BY <2>4
  <1>4. times = {e[k].wall : k \in 1 .. N}
    BY <1>1 DEF ToSet
  <1> DEFINE first == CHOOSE t \in times : \A u \in times : t <= u
             last == CHOOSE t \in times : \A u \in times : u <= t
  <1>5. first \in times /\ \A u \in times : first <= u
    <2>1. \E t \in times : \A u \in times : t <= u
      BY <1>2, <1>4
    <2> HIDE DEF times
    <2> QED  BY <2>1
  <1>6. last \in times /\ \A u \in times : u <= last
    <2>1. \E t \in times : \A u \in times : u <= t
      BY <1>3, <1>4
    <2> HIDE DEF times
    <2> QED  BY <2>1
  <1>7. AgentTimeBounds(e).first = first /\ AgentTimeBounds(e).last = last
    BY DEF AgentTimeBounds
  <1> HIDE DEF first, last, times
  <1> QED  BY <1>1, <1>4, <1>5, <1>6, <1>7

\* The trace is the root span and one span for each tool.
LEMMA SpansAre ==
  ASSUME NEW e, Log(e), Len(e) # 0, Export(e) # NoTrace
  PROVE  LET spans == Export(e).spans
             p     == Tools(e)
         IN  /\ Len(p) \in Nat
             /\ Len(spans) = Len(p) + 1 /\ DOMAIN spans = 1 .. Len(p) + 1
             /\ spans[1] = RootSpan(e)
             /\ \A q \in 1 .. Len(p) : spans[q + 1] = ToolSpan(p[q])
  <1> DEFINE spans == Export(e).spans
             p     == Tools(e)
             r     == RootSpan(e)
             t     == [i \in DOMAIN p |-> ToolSpan(p[i])]
             S     == {r} \cup {ToolSpan(p[i]) : i \in DOMAIN p}
  <1>1. Len(p) \in Nat /\ DOMAIN p = 1 .. Len(p)
    BY ToolsKept, ShapedHas DEF Paired
  <1>2. spans = <<r>> \o t
    BY DEF Export
  <1>4. t \in Seq(S) /\ Len(t) = Len(p) /\ \A q \in 1 .. Len(p) : t[q] = ToolSpan(p[q])
    <2> HIDE DEF p
    <2>1. t \in [1 .. Len(p) -> S]
      BY <1>1
    <2> HIDE DEF S
    <2> QED  BY <1>1, <2>1
  <1>5. <<r>> \in Seq(S) /\ Len(<<r>>) = 1 /\ <<r>>[1] = r
    <2> HIDE DEF r, p
    <2> QED  OBVIOUS
  <1> HIDE DEF spans, p, r, t, S
  <1>6. /\ spans \in Seq(S) /\ Len(spans) = 1 + Len(t)
        /\ \A i \in 1 .. 1 + Len(t) : spans[i] = IF i <= 1 THEN <<r>>[i] ELSE t[i - 1]
    <2> DEFINE o == <<r>>
    <2>1. o \in Seq(S) /\ Len(o) = 1
      BY <1>5
    <2> HIDE DEF o
    <2>2. /\ o \o t \in Seq(S) /\ Len(o \o t) = Len(o) + Len(t)
          /\ \A i \in 1 .. Len(o) + Len(t) : (o \o t)[i] = IF i <= Len(o) THEN o[i] ELSE t[i - Len(o)]
      BY <1>4, <2>1, ConcatProperties
    <2>3. spans = o \o t
      BY <1>2 DEF o
    <2>4. /\ spans \in Seq(S) /\ Len(spans) = 1 + Len(t)
          /\ \A i \in 1 .. 1 + Len(t) : spans[i] = IF i <= 1 THEN o[i] ELSE t[i - 1]
      BY <2>1, <2>2, <2>3
    <2> QED  BY <2>4 DEF o
  <1>7. spans[1] = r
    BY <1>1, <1>4, <1>5, <1>6
  <1>8. \A q \in 1 .. Len(p) : spans[q + 1] = ToolSpan(p[q])
    <2>1. ASSUME NEW q \in 1 .. Len(p) PROVE spans[q + 1] = t[q]
      <3>1. q + 1 \in 1 .. 1 + Len(t) /\ ~(q + 1 <= 1) /\ (q + 1) - 1 = q
        BY <1>1, <1>4
      <3> QED  BY <1>6, <3>1
    <2> QED  BY <1>4, <2>1
  <1>9. Len(spans) = Len(p) + 1 /\ DOMAIN spans = 1 .. Len(p) + 1
    BY <1>1, <1>4, <1>6
  <1> USE DEF spans, p, r
  <1> QED  BY <1>1, <1>7, <1>8, <1>9

\* What a span tells of the tool it was made of.
LEMMA ToolTells ==
  ASSUME NEW e, Log(e), NEW p, Paired(e, Len(e), p), NEW q \in 1 .. Len(p)
  PROVE  LET s == ToolSpan(p[q])
             i == Of(p, q)
         IN  /\ i \in 1 .. Len(e) /\ p[q].call = e[i]
             /\ s.seq = i /\ s.name = p[q].name /\ s.key = p[q].key
             /\ \/ /\ p[q].name = "tool" /\ i \in Calls(e)
                   /\ s.results = {Serialized(e[j].text) : j \in {j \in DOMAIN e : Closes(e, i, j)}}
                \/ p[q].name = "unknown" /\ i \in Orphans(e)
             /\ s.start = e[i].wall
             /\ s.end = e[i].wall \/ \E j \in 1 .. Len(e) : s.end = Later(e[i].wall, e[j].wall)
  <1> DEFINE i == Of(p, q)
             s == ToolSpan(p[q])
  <1>1. /\ i \in 1 .. Len(e) /\ p[q].call = e[i] /\ e[i].seq = i
        /\ \/ p[q].name = "tool" /\ e[i].kind = "call"
           \/ p[q].name = "unknown" /\ e[i].kind = "result" /\ p[q].result = e[i]
    BY DEF Paired, Shaped, Log
  <1>2. /\ s.seq = i /\ s.name = p[q].name /\ s.key = p[q].key /\ s.start = e[i].wall
        /\ s.end = IF p[q].result = NoResult THEN e[i].wall ELSE Later(e[i].wall, p[q].result.wall)
        /\ s.results = IF p[q].result = NoResult THEN {} ELSE {Serialized(p[q].result.text)}
    BY <1>1 DEF ToolSpan, ToolEnd, Of
  <1>3. DOMAIN e = 1 .. Len(e) /\ Len(e) \in Nat
    BY DEF Log
  <1>4. p[q].name = "unknown" => i \in Orphans(e)
    <2>1. ASSUME p[q].name = "unknown" PROVE ~\E h \in Calls(e) : Closes(e, h, i)
      BY <1>1, <2>1 DEF Paired, Listed
    <2> QED  BY <1>1, <1>3, <2>1 DEF Orphans
  <1>5. p[q].name = "tool" => i \in Calls(e)
    BY <1>1, <1>3 DEF Calls
  <1>6. CASE p[q].name = "tool" /\ p[q].result = NoResult
    <2>1. ASSUME NEW j \in 1 .. Len(e), Closes(e, i, j) PROVE FALSE
      <3>1. e[i].id # "" /\ i < j /\ Balance(e, i, j) = 0
        BY <1>1, <2>1, ClosesIs
      <3>2. p[q].id # ""
        BY <1>1, <3>1 DEF Paired, Shaped
      <3>3. \A k \in i .. Len(e) : Balance(e, i, k) > 0
        BY <1>6, <3>2 DEF Paired, Matched
      <3> HIDE DEF i, s
      <3>4. j \in i .. Len(e)
        <4>1. i \in 1 .. Len(e) /\ i < j /\ Len(e) \in Nat
          BY <1>1, <1>3, <3>1, Zenon
        <4> QED  BY <4>1
      <3>5. Balance(e, i, j) > 0 /\ Balance(e, i, j) = 0
        BY <3>1, <3>3, <3>4, Zenon
      <3> QED  BY <3>5
    <2>2. s.results = {Serialized(e[j].text) : j \in {j \in DOMAIN e : Closes(e, i, j)}}
      BY <1>2, <1>3, <1>6, <2>1
    <2> QED  BY <1>1, <1>2, <1>5, <1>6, <2>2
  <1>7. CASE p[q].name = "tool" /\ p[q].result # NoResult
    <2>1. PICK j \in 1 .. Len(e) : Closes(e, i, j) /\ p[q].result = e[j]
      BY <1>7 DEF Paired, Matched
    <2>2. {k \in DOMAIN e : Closes(e, i, k)} = {j}
      BY <1>1, <1>3, <2>1, ClosesOnce
    <2>3. s.results = {Serialized(e[k].text) : k \in {k \in DOMAIN e : Closes(e, i, k)}}
      <3> HIDE DEF s, i
      <3> QED  BY <1>2, <1>7, <2>1, <2>2
    <2>4. s.end = Later(e[i].wall, e[j].wall)
      BY <1>2, <1>7, <2>1
    <2> QED  BY <1>1, <1>2, <1>5, <1>7, <2>1, <2>3, <2>4
  <1>8. CASE p[q].name = "unknown"
    <2>1. e[i] # NoResult
      BY <1>1, <1>8 DEF NoResult
    <2>2. s.end = Later(e[i].wall, e[i].wall)
      BY <1>1, <1>2, <1>8, <2>1
    <2> QED  BY <1>1, <1>2, <1>4, <1>8, <2>2
  <1> QED  BY <1>1, <1>6, <1>7, <1>8

\* There are as many tools as calls and results without a call.
LEMMA ToolsCount ==
  ASSUME NEW e, Log(e), NEW p, Paired(e, Len(e), p)
  PROVE  Len(p) = Cardinality(Calls(e)) + Cardinality(Orphans(e))
  <1> DEFINE C == Calls(e)
             O == Orphans(e)
             N == Len(p)
             f == [q \in 1 .. N |-> Of(p, q)]
  <1>1. Len(p) \in Nat /\ Len(e) \in Nat /\ DOMAIN e = 1 .. Len(e)
    BY ShapedHas DEF Paired, Log
  <1>2. \A q \in 1 .. N : Of(p, q) \in C \cup O
    BY ToolTells
  <1>3. \A k \in C \cup O : \E q \in 1 .. N : Of(p, q) = k
    BY <1>1 DEF Calls, Orphans, Paired, Listed
  <1>4. \A q, r \in 1 .. N : Of(p, q) = Of(p, r) => q = r
    <2>1. ASSUME NEW q \in 1 .. N, NEW r \in 1 .. N, q < r PROVE Of(p, q) # Of(p, r)
      <3>1. Of(p, q) < Of(p, r) /\ Of(p, q) \in Nat /\ Of(p, r) \in Nat
        BY <1>1, <2>1 DEF Paired, Shaped
      <3> QED  BY <3>1
    <2>2. \A q, r \in 1 .. N : q = r \/ q < r \/ r < q
      BY <1>1
    <2> QED  BY <2>1, <2>2
  <1>5. C \cap O = {} /\ C \subseteq 1 .. Len(e) /\ O \subseteq 1 .. Len(e)
    BY <1>1 DEF Calls, Orphans
  <1> HIDE DEF C, O
  <1>6. f \in Bijection(1 .. N, C \cup O)
    <2>1. f \in [1 .. N -> C \cup O] /\ \A q \in 1 .. N : f[q] = Of(p, q)
      BY <1>2
    <2> HIDE DEF f
    <2>2. f \in Injection(1 .. N, C \cup O)
      BY <1>4, <2>1 DEF Injection, IsInjective
    <2>3. f \in Surjection(1 .. N, C \cup O)
      BY <1>3, <2>1 DEF Surjection
    <2> QED  BY <2>2, <2>3 DEF Bijection
  <1>7. Cardinality(C \cup O) = N
    <2>1. ExistsBijection(1 .. N, C \cup O)
      BY <1>6 DEF ExistsBijection
    <2>2. IsFiniteSet(1 .. N) /\ Cardinality(1 .. N) = N
      <3>1. /\ IsFiniteSet(1 .. N)
            /\ Cardinality(1 .. N) = IF 1 > N THEN 0 ELSE N - 1 + 1
        <4>1. 1 \in Int /\ N \in Int
          BY <1>1
        <4> QED  BY <4>1, FS_Interval, Zenon
      <3>2. (IF 1 > N THEN 0 ELSE N - 1 + 1) = N
        BY <1>1
      <3> QED  BY <3>1, <3>2
    <2> QED  BY <2>1, <2>2, FS_Bijection
  <1>8. IsFiniteSet(C) /\ IsFiniteSet(O)
    <2>1. IsFiniteSet(1 .. Len(e))
      BY <1>1, FS_Interval
    <2> QED  BY <1>5, <2>1, FS_Subset
  <1>9. Cardinality(C \cup O) = Cardinality(C) + Cardinality(O)
    <2>1. Cardinality(C \cap O) = 0
      BY <1>5, FS_EmptySet
    <2>2. Cardinality(C) \in Nat /\ Cardinality(O) \in Nat
      BY <1>8, FS_CardinalityType
    <2>3. Cardinality(C \cup O) = Cardinality(C) + Cardinality(O) - Cardinality(C \cap O)
      BY <1>8, FS_Union
    <2> QED  BY <2>1, <2>2, <2>3
  <1> USE DEF C, O
  <1> QED  BY <1>7, <1>9

\* What the trace of any recorded session tells.
LEMMA TraceTells ==
  ASSUME NEW e, Log(e), Len(e) # 0, Export(e) # NoTrace
  PROVE  LET spans == Export(e).spans
             tools == 2 .. Len(spans)
         IN  /\ \A i \in Calls(e) : \E s \in tools :
                  /\ spans[s].seq = e[i].seq /\ spans[s].name # "unknown"
                  /\ spans[s].results = {Serialized(e[j].text) :
                                            j \in {j \in DOMAIN e : Closes(e, i, j)}}
             /\ \A j \in Orphans(e) : \E s \in tools :
                  spans[s].seq = e[j].seq /\ spans[s].name = "unknown"
             /\ Len(spans) = 1 + Cardinality(Calls(e)) + Cardinality(Orphans(e))
             /\ \A s, t \in DOMAIN spans : spans[s].key = spans[t].key => s = t
             /\ \A s \in tools : /\ spans[1].start <= spans[s].start
                                 /\ spans[s].start <= spans[s].end
                                 /\ spans[s].end <= spans[1].end
  <1> DEFINE spans == Export(e).spans
             p     == Tools(e)
             tools == 2 .. Len(spans)
  <1>1. /\ Len(p) \in Nat /\ Len(spans) = Len(p) + 1 /\ DOMAIN spans = 1 .. Len(p) + 1
        /\ spans[1] = RootSpan(e) /\ \A q \in 1 .. Len(p) : spans[q + 1] = ToolSpan(p[q])
    BY SpansAre
  <1>2. Paired(e, Len(e), p)
    BY ToolsKept
  <1>3. DOMAIN e = 1 .. Len(e) /\ Len(e) \in Nat /\ \A k \in 1 .. Len(e) : e[k].seq = k
    BY DEF Log
  <1> HIDE DEF spans, p
  <1>4. \A s \in tools : s - 1 \in 1 .. Len(p) /\ spans[s] = ToolSpan(p[s - 1])
    <2>1. ASSUME NEW s \in tools PROVE s - 1 \in 1 .. Len(p) /\ spans[s] = ToolSpan(p[s - 1])
      <3>1. s - 1 \in 1 .. Len(p) /\ (s - 1) + 1 = s
        BY <1>1
      <3> QED  BY <1>1, <3>1
    <2> QED  BY <2>1
  <1>5. \A q \in 1 .. Len(p) : q + 1 \in tools /\ spans[q + 1] = ToolSpan(p[q])
    BY <1>1
  <1>6. ASSUME NEW i \in Calls(e)
        PROVE  \E s \in tools : /\ spans[s].seq = e[i].seq /\ spans[s].name # "unknown"
                                /\ spans[s].results = {Serialized(e[j].text) :
                                       j \in {j \in DOMAIN e : Closes(e, i, j)}}
    <2>1. i \in 1 .. Len(e) /\ e[i].kind = "call" /\ e[i].seq = i
      BY <1>3 DEF Calls
    <2>2. PICK q \in 1 .. Len(p) : Of(p, q) = i
      BY <1>2, <2>1 DEF Paired, Listed
    <2>3. i \notin Orphans(e)
      BY <2>1 DEF Orphans
    <2>4. /\ ToolSpan(p[q]).seq = i /\ ToolSpan(p[q]).name = "tool"
          /\ ToolSpan(p[q]).results = {Serialized(e[j].text) :
                                           j \in {j \in DOMAIN e : Closes(e, i, j)}}
      BY <1>2, <2>2, <2>3, ToolTells
    <2>5. q + 1 \in tools /\ spans[q + 1] = ToolSpan(p[q])
      BY <1>5
    <2> HIDE DEF tools
    <2> QED  BY <2>1, <2>4, <2>5
  <1>7. ASSUME NEW j \in Orphans(e)
        PROVE  \E s \in tools : spans[s].seq = e[j].seq /\ spans[s].name = "unknown"
    <2>1. /\ j \in 1 .. Len(e) /\ e[j].kind = "result" /\ e[j].seq = j
          /\ ~\E i \in Calls(e) : Closes(e, i, j)
      BY <1>3 DEF Orphans
    <2>2. PICK q \in 1 .. Len(p) : Of(p, q) = j
      BY <1>2, <2>1 DEF Paired, Listed
    <2>3. j \notin Calls(e)
      BY <2>1 DEF Calls
    <2>4. ToolSpan(p[q]).seq = j /\ ToolSpan(p[q]).name = "unknown"
      BY <1>2, <2>2, <2>3, ToolTells
    <2>5. q + 1 \in tools /\ spans[q + 1] = ToolSpan(p[q])
      BY <1>5
    <2> QED  BY <2>1, <2>4, <2>5
  <1>8. Len(spans) = 1 + Cardinality(Calls(e)) + Cardinality(Orphans(e))
    <2>1. Len(p) = Cardinality(Calls(e)) + Cardinality(Orphans(e))
      BY <1>2, ToolsCount
    <2>2. IsFiniteSet(Calls(e)) /\ IsFiniteSet(Orphans(e))
      <3>1. Calls(e) \subseteq 1 .. Len(e) /\ Orphans(e) \subseteq 1 .. Len(e)
        BY <1>3 DEF Calls, Orphans
      <3>2. IsFiniteSet(1 .. Len(e))
        BY <1>3, FS_Interval
      <3> QED  BY <3>1, <3>2, FS_Subset
    <2>3. Cardinality(Calls(e)) \in Nat /\ Cardinality(Orphans(e)) \in Nat
      BY <2>2, FS_CardinalityType
    <2> QED  BY <1>1, <2>1, <2>3
  <1>9. ASSUME NEW s \in DOMAIN spans, NEW t \in DOMAIN spans, spans[s].key = spans[t].key
        PROVE  s = t
    <2>1. spans[1].key = <<"root">>
      BY <1>1 DEF RootSpan
    <2>2. \A u \in tools : /\ u - 1 \in 1 .. Len(p) /\ spans[u].key = p[u - 1].key
                           /\ spans[u].key # <<"root">>
      <3>1. ASSUME NEW u \in tools
            PROVE  /\ u - 1 \in 1 .. Len(p) /\ spans[u].key = p[u - 1].key
                   /\ spans[u].key # <<"root">>
        <4> DEFINE q == u - 1
        <4>1. q \in 1 .. Len(p) /\ spans[u] = ToolSpan(p[q])
          BY <1>4
        <4> HIDE DEF q
        <4>2. p[q].key # <<"root">>
          BY <1>2, <4>1 DEF Paired, Keyed
        <4>3. spans[u].key = p[q].key
          BY <4>1 DEF ToolSpan
        <4> USE DEF q
        <4> QED  BY <4>1, <4>2, <4>3
      <3> QED  BY <3>1
    <2>3. /\ (s = 1 \/ s \in tools) /\ s \in Int
          /\ (t = 1 \/ t \in tools) /\ t \in Int
      BY <1>1
    <2>4. CASE s \in tools /\ t \in tools
      <3>1. s - 1 = t - 1
        BY <1>2, <1>9, <2>2, <2>4 DEF Paired, Keyed
      <3> QED  BY <2>4, <3>1
    <2>5. CASE s = 1 \/ t = 1
      BY <1>9, <2>1, <2>2, <2>3, <2>5
    <2> QED  BY <2>3, <2>4, <2>5
  <1>10. ASSUME NEW s \in tools
         PROVE  /\ spans[1].start <= spans[s].start /\ spans[s].start <= spans[s].end
                /\ spans[s].end <= spans[1].end
    <2> DEFINE q == s - 1
               i == Of(p, q)
               first == AgentTimeBounds(e).first
               last == AgentTimeBounds(e).last
    <2>1. q \in 1 .. Len(p) /\ spans[s] = ToolSpan(p[q])
      BY <1>4
    <2> HIDE DEF q
    <2>2. /\ i \in 1 .. Len(e) /\ spans[s].start = e[i].wall
          /\ spans[s].end = e[i].wall \/ \E j \in 1 .. Len(e) : spans[s].end = Later(e[i].wall, e[j].wall)
      BY <1>2, <2>1, ToolTells
    <2>3. spans[1].start = first /\ spans[1].end = last
      BY <1>1 DEF RootSpan
    <2>4. \A k \in 1 .. Len(e) : e[k].wall \in Int /\ first <= e[k].wall /\ e[k].wall <= last
      BY BoundsHold DEF Log
    <2> HIDE DEF i, first, last
    <2>5. /\ spans[s].end \in Int /\ e[i].wall <= spans[s].end
          /\ \E k \in 1 .. Len(e) : spans[s].end = e[k].wall
      BY <2>2, <2>4 DEF Later
    <2> QED  BY <2>2, <2>3, <2>4, <2>5
  <1> USE DEF spans
  <1> QED  BY <1>6, <1>7, <1>8, <1>9, <1>10

---------------------------------------------------------------------------
(* What the adapter's stream has recorded.                                 *)

\* What a stream has recorded is a session's log.
LEMMA RecordedIsALog ==
  ASSUME RolloutInv, \E n \in 0 .. Len(file) : Tells(n), NEW walls \in Stamps
  PROVE  Log(Recorded(walls)) /\ Len(Recorded(walls)) # 0 /\ Worded(Recorded(walls))
  <1> DEFINE h == [seq |-> 1, wall |-> walls[0], kind |-> "session", id |-> "", text |-> "plain"]
             t == [k \in DOMAIN emitted |-> Event(k, walls[k])]
             N == Len(emitted)
             S == {h} \cup {t[k] : k \in 1 .. N}
  <1>1. PICK n \in 0 .. Len(file) : Tells(n)
    OBVIOUS
  <1>2. emitted \in Seq(Nat) /\ N \in Nat /\ DOMAIN emitted = 1 .. N /\ Len(file) \in Nat
    BY DEF RolloutInv, Reading
  <1>3. \A k \in 0 .. N : walls[k] \in Int
    BY <1>2 DEF Stamps
  <1>4. ASSUME NEW k \in 1 .. N
        PROVE  /\ t[k].seq = k + 1 /\ t[k].wall \in Int
               /\ t[k].kind \in {"message", "usage", "call", "result"}
               /\ t[k].text \in {"plain", "json", "head"}
    <2>1. emitted[k] \in 1 .. n /\ Means(file[emitted[k]])
      BY <1>1, <1>2 DEF Tells
    <2>2. file[emitted[k]] \in Lines
      BY <1>2, <2>1 DEF RolloutInv, Reading
    <2> QED  BY <1>2, <1>3, <2>1, <2>2, TextAssumption DEF Event, Means
  <1>5. h.seq = 1 /\ h.wall \in Int /\ h.kind = "session" /\ h.text = "plain"
    BY <1>2, <1>3
  <1>6. t \in Seq(S) /\ Len(t) = N
    <2>1. t \in [1 .. N -> S]
      BY <1>2
    <2> HIDE DEF t, S
    <2> QED  BY <1>2, <2>1
  <1> HIDE DEF h, t, S
  <1>7. h \in S
    BY DEF S
  <1> DEFINE o == <<h>>
             r == Recorded(walls)
  <1>8. o \in Seq(S) /\ Len(o) = 1 /\ o[1] = h
    BY <1>7
  <1>9. r = o \o t
    BY DEF Recorded, h, t
  <1> HIDE DEF o, r
  <1>10. /\ r \in Seq(S) /\ Len(r) = 1 + N
         /\ \A k \in 1 .. 1 + N : r[k] = IF k <= 1 THEN o[k] ELSE t[k - 1]
    <2>1. /\ o \o t \in Seq(S) /\ Len(o \o t) = Len(o) + Len(t)
          /\ \A k \in 1 .. Len(o) + Len(t) : (o \o t)[k] = IF k <= Len(o) THEN o[k] ELSE t[k - Len(o)]
      BY <1>6, <1>8, ConcatProperties
    <2> QED  BY <1>6, <1>8, <1>9, <2>1
  <1>11. ASSUME NEW k \in 1 .. Len(r)
         PROVE  /\ r[k].seq = k /\ r[k].wall \in Int
                /\ r[k].kind \in {"session", "message", "usage", "call", "result"}
                /\ r[k].text \in {"plain", "json", "head"}
    <2>1. CASE k = 1
      BY <1>2, <1>5, <1>8, <1>10, <2>1
    <2>2. CASE k # 1
      <3> DEFINE m == k - 1
      <3>1. m \in 1 .. N /\ m + 1 = k /\ r[k] = t[m]
        BY <1>2, <1>10, <2>2
      <3> HIDE DEF m
      <3> QED  BY <1>4, <3>1
    <2> QED  BY <2>1, <2>2
  <1>12. Log(r) /\ Len(r) # 0 /\ Worded(r)
    BY <1>2, <1>10, <1>11 DEF Log, Worded
  <1> QED  BY <1>12 DEF r

\* The trace of a recorded transcript has one span for each call, with the result that
\* closes it and no other, and one for each result that closes none, whatever the clock
\* showed: for every transcript, and not only those of the run.
THEOREM SpansAreTrue == Spec => []SpansTellTheCalls
  <1>1. ASSUME StreamInv PROVE SpansTellTheCalls
    <2>1. SUFFICES ASSUME RanItsCourse, NEW walls \in Stamps, Export(Recorded(walls)) # NoTrace
                   PROVE  LET events == Recorded(walls)
                              spans  == Export(events).spans
                              tools  == 2 .. Len(spans)
                          IN  /\ \A i \in Calls(events) : \E s \in tools :
                                   /\ spans[s].seq = events[i].seq /\ spans[s].name # "unknown"
                                   /\ spans[s].results =
                                        {Serialized(events[j].text) :
                                            j \in {j \in DOMAIN events : Closes(events, i, j)}}
                              /\ \A j \in Orphans(events) : \E s \in tools :
                                   spans[s].seq = events[j].seq /\ spans[s].name = "unknown"
                              /\ Len(spans) = 1 + Cardinality(Calls(events))
                                                + Cardinality(Orphans(events))
                              /\ \A s, t \in DOMAIN spans : spans[s].key = spans[t].key => s = t
                              /\ \A s \in tools : /\ spans[1].start <= spans[s].start
                                                  /\ spans[s].start <= spans[s].end
                                                  /\ spans[s].end <= spans[1].end
      BY Zenon DEF SpansTellTheCalls
    <2>2. observer = "stream" /\ RolloutInv
      BY <1>1, <2>1 DEF StreamInv, NoStream, RanItsCourse
    <2>3. \E n \in 0 .. Len(file) : Tells(n)
      BY <2>1, <2>2 DEF RolloutInv, Telling, RanItsCourse
    <2>4. Log(Recorded(walls)) /\ Len(Recorded(walls)) # 0
      BY <2>2, <2>3, RecordedIsALog
    <2> QED  BY <2>1, <2>4, TraceTells, Zenon
  <1> QED  BY <1>1, ObserversKept, PTL DEF ObserversInv
---------------------------------------------------------------------------
(* The elements of a set in order.                                         *)

\* What is before each element of S makes a strict order of all of them.
Ordering(S, before) ==
    /\ IsFiniteSet(S)
    /\ \A i \in S : before[i] \subseteq S /\ i \notin before[i]
    /\ \A i, j \in S : i = j \/ i \in before[j] \/ j \in before[i]
    /\ \A i, j \in S : j \in before[i] => before[j] \subseteq before[i]

\* An element is the further on the more are before it, and every place is taken.
LEMMA Places ==
  ASSUME NEW S, NEW before, Ordering(S, before)
  PROVE  /\ Cardinality(S) \in Nat
         /\ \A i \in S : Cardinality(before[i]) \in 0 .. Cardinality(S) - 1
         /\ \A i, j \in S : j \in before[i] <=> Cardinality(before[j]) < Cardinality(before[i])
         /\ \A i, j \in S : Cardinality(before[i]) = Cardinality(before[j]) => i = j
         /\ \A n \in 0 .. Cardinality(S) - 1 : \E i \in S : Cardinality(before[i]) = n
  <1> DEFINE N == Cardinality(S)
  <1>1. IsFiniteSet(S) /\ N \in Nat
    BY FS_CardinalityType DEF Ordering
  <1>2. ASSUME NEW i \in S
        PROVE  /\ IsFiniteSet(before[i]) /\ Cardinality(before[i]) \in Nat
               /\ Cardinality(before[i]) < N
    <2>1. before[i] \subseteq S /\ i \notin before[i]
      BY DEF Ordering
    <2>2. /\ IsFiniteSet(before[i]) /\ Cardinality(before[i]) <= N
          /\ N = Cardinality(before[i]) => S = before[i]
      BY <1>1, <2>1, FS_Subset
    <2>3. Cardinality(before[i]) \in Nat
      BY <2>2, FS_CardinalityType
    <2>4. N # Cardinality(before[i])
      BY <2>1, <2>2
    <2> QED  BY <1>1, <2>2, <2>3, <2>4
  <1>3. ASSUME NEW i \in S, NEW j \in S, j \in before[i]
        PROVE  Cardinality(before[j]) < Cardinality(before[i])
    <2>1. before[j] \subseteq before[i] /\ j \notin before[j]
      BY <1>3 DEF Ordering
    <2>2. /\ Cardinality(before[j]) <= Cardinality(before[i])
          /\ Cardinality(before[i]) = Cardinality(before[j]) => before[i] = before[j]
      BY <1>2, <2>1, FS_Subset
    <2>3. before[i] # before[j]
      BY <1>3, <2>1
    <2>4. Cardinality(before[j]) \in Nat /\ Cardinality(before[i]) \in Nat
      BY <1>2
    <2> QED  BY <2>2, <2>3, <2>4
  <1>4. ASSUME NEW i \in S, NEW j \in S, i # j
        PROVE  Cardinality(before[i]) # Cardinality(before[j])
    <2>1. i \in before[j] \/ j \in before[i]
      BY <1>4 DEF Ordering
    <2>2. Cardinality(before[j]) \in Nat /\ Cardinality(before[i]) \in Nat
      BY <1>2
    <2> QED  BY <1>3, <2>1, <2>2
  <1>5. \A i, j \in S : Cardinality(before[j]) < Cardinality(before[i]) => j \in before[i]
    <2> SUFFICES ASSUME NEW i \in S, NEW j \in S, Cardinality(before[j]) < Cardinality(before[i])
                 PROVE  j \in before[i]
      OBVIOUS
    <2>1. Cardinality(before[j]) \in Nat /\ Cardinality(before[i]) \in Nat
      BY <1>2
    <2>2. i # j /\ i \notin before[j]
      BY <1>3, <2>1
    <2> QED  BY <2>2 DEF Ordering
  <1>6. \A n \in 0 .. N - 1 : \E i \in S : Cardinality(before[i]) = n
    <2> DEFINE f == [i \in S |-> Cardinality(before[i])]
               T == 0 .. N - 1
    <2>1. f \in Injection(S, T)
      <3>1. f \in [S -> T]
        BY <1>1, <1>2
      <3>2. \A i, j \in S : f[i] = f[j] => i = j
        BY <1>4
      <3> QED  BY <3>1, <3>2 DEF Injection, IsInjective
    <2>2. IsFiniteSet(T) /\ Cardinality(T) = N
      <3>1. N - 1 \in Int
        BY <1>1
      <3>2. /\ IsFiniteSet(T)
            /\ Cardinality(T) = IF 0 > N - 1 THEN 0 ELSE N - 1 - 0 + 1
        BY <3>1, FS_Interval
      <3>3. (IF 0 > N - 1 THEN 0 ELSE N - 1 - 0 + 1) = N
        BY <1>1
      <3> QED  BY <3>2, <3>3
    <2> HIDE DEF T, N
    <2>3. f \in Surjection(S, T)
      <3> HIDE DEF f
      <3> QED  BY <2>1, <2>2, FS_Injection DEF N
    <2>4. \A n \in T : \E i \in S : f[i] = n
      <3> HIDE DEF f
      <3> QED  BY <2>3 DEF Surjection
    <2> QED  BY <2>4 DEF T
  <1> QED  BY <1>1, <1>2, <1>3, <1>4, <1>5, <1>6

\* InOrder puts every element once, and each behind those before it.
LEMMA InOrderIs ==
  ASSUME NEW S, NEW before, Ordering(S, before)
  PROVE  LET o == InOrder(S, before)
             N == Cardinality(S)
         IN  /\ N \in Nat /\ Len(o) = N /\ DOMAIN o = 1 .. N
             /\ \A n \in 1 .. N : o[n] \in S /\ Cardinality(before[o[n]]) = n - 1
             /\ \A i \in S : \E n \in 1 .. N : o[n] = i
             /\ \A m, n \in 1 .. N : m < n <=> o[m] \in before[o[n]]
             /\ \A m, n \in 1 .. N : o[m] = o[n] => m = n
  <1> DEFINE o == InOrder(S, before)
             N == Cardinality(S)
  <1>1. /\ N \in Nat
        /\ \A i \in S : Cardinality(before[i]) \in 0 .. N - 1
        /\ \A i, j \in S : j \in before[i] <=> Cardinality(before[j]) < Cardinality(before[i])
        /\ \A i, j \in S : Cardinality(before[i]) = Cardinality(before[j]) => i = j
        /\ \A n \in 0 .. N - 1 : \E i \in S : Cardinality(before[i]) = n
    BY Places
  <1>2. \A n \in 1 .. N : o[n] \in S /\ Cardinality(before[o[n]]) = n - 1
    <2> SUFFICES ASSUME NEW n \in 1 .. N PROVE o[n] \in S /\ Cardinality(before[o[n]]) = n - 1
      OBVIOUS
    <2>1. n - 1 \in 0 .. N - 1
      BY <1>1
    <2>2. \E i \in S : Cardinality(before[i]) = n - 1
      BY <1>1, <2>1
    <2>3. o[n] = CHOOSE i \in S : Cardinality(before[i]) = n - 1
      BY DEF InOrder
    <2> QED  BY <2>2, <2>3
  <1>3. DOMAIN o = 1 .. N /\ Len(o) = N
    <2>1. DOMAIN o = 1 .. N
      BY DEF InOrder
    <2>2. o \in [1 .. N -> S]
      BY <1>2 DEF InOrder
    <2> HIDE DEF o, N
    <2>3. o \in Seq(S)
      BY <1>1, <2>2
    <2> QED  BY <1>1, <2>1, <2>3
  <1> HIDE DEF o, N
  <1>4. ASSUME NEW i \in S PROVE \E n \in 1 .. N : o[n] = i
    <2>1. Cardinality(before[i]) + 1 \in 1 .. N
          /\ (Cardinality(before[i]) + 1) - 1 = Cardinality(before[i])
      BY <1>1
    <2>2. o[Cardinality(before[i]) + 1] = i
      BY <1>1, <1>2, <2>1
    <2> QED  BY <2>1, <2>2
  <1>5. \A m, n \in 1 .. N : m < n <=> o[m] \in before[o[n]]
    BY <1>1, <1>2
  <1>6. \A m, n \in 1 .. N : o[m] = o[n] => m = n
    <2> SUFFICES ASSUME NEW m \in 1 .. N, NEW n \in 1 .. N, o[m] = o[n] PROVE m = n
      OBVIOUS
    <2>1. m - 1 = n - 1
      BY <1>2
    <2> QED  BY <2>1
  <1> USE DEF o, N
  <1> QED  BY <1>1, <1>2, <1>3, <1>4, <1>5, <1>6

\* A map of one set onto another that keeps the order keeps the places.
LEMMA SameOrder ==
  ASSUME NEW S, NEW b, Ordering(S, b), NEW T, NEW c, Ordering(T, c),
         NEW f \in [S -> T], \A y \in T : \E x \in S : f[x] = y,
         \A x, y \in S : x \in b[y] <=> f[x] \in c[f[y]]
  PROVE  /\ Cardinality(T) = Cardinality(S)
         /\ \A n \in 1 .. Cardinality(S) : InOrder(T, c)[n] = f[InOrder(S, b)[n]]
  <1>1. \A x, y \in S : f[x] = f[y] => x = y
    BY DEF Ordering
  <1>2. Cardinality(T) = Cardinality(S)
    <2>1. f \in Bijection(S, T)
      <3>1. f \in Injection(S, T)
        BY <1>1 DEF Injection, IsInjective
      <3>2. f \in Surjection(S, T)
        BY DEF Surjection
      <3> QED  BY <3>1, <3>2 DEF Bijection
    <2>2. ExistsBijection(S, T)
      BY <2>1 DEF ExistsBijection
    <2> QED  BY <2>2, FS_Bijection DEF Ordering
  <1>3. ASSUME NEW x \in S PROVE Cardinality(c[f[x]]) = Cardinality(b[x])
    <2> DEFINE g == [y \in b[x] |-> f[y]]
    <2>1. b[x] \subseteq S /\ c[f[x]] \subseteq T
      BY DEF Ordering
    <2>2. g \in [b[x] -> c[f[x]]] /\ \A y \in b[x] : g[y] = f[y]
      BY <2>1
    <2> HIDE DEF g
    <2>3. g \in Injection(b[x], c[f[x]])
      BY <1>1, <2>1, <2>2 DEF Injection, IsInjective
    <2>4. g \in Surjection(b[x], c[f[x]])
      <3>1. ASSUME NEW z \in c[f[x]] PROVE \E y \in b[x] : g[y] = z
        <4>1. PICK y \in S : f[y] = z
          BY <2>1
        <4> QED  BY <2>2, <4>1
      <3> QED  BY <2>2, <3>1 DEF Surjection
    <2>5. ExistsBijection(b[x], c[f[x]])
      BY <2>3, <2>4 DEF Bijection, ExistsBijection
    <2>6. IsFiniteSet(b[x])
      BY <2>1, FS_Subset DEF Ordering
    <2> QED  BY <2>5, <2>6, FS_Bijection
  <1>4. ASSUME NEW n \in 1 .. Cardinality(S)
        PROVE  InOrder(T, c)[n] = f[InOrder(S, b)[n]]
    <2>1. InOrder(S, b)[n] \in S /\ Cardinality(b[InOrder(S, b)[n]]) = n - 1
      BY InOrderIs
    <2>2. InOrder(T, c)[n] \in T /\ Cardinality(c[InOrder(T, c)[n]]) = n - 1
      BY <1>2, InOrderIs
    <2>3. f[InOrder(S, b)[n]] \in T /\ Cardinality(c[f[InOrder(S, b)[n]]]) = n - 1
      BY <1>3, <2>1
    <2>4. \A i, j \in T : Cardinality(c[i]) = Cardinality(c[j]) => i = j
      BY Places
    <2> QED  BY <2>2, <2>3, <2>4
  <1> QED  BY <1>2, <1>4

---------------------------------------------------------------------------
(* Sorted events.                                                          *)

\* A sequence of events or drafts with times.
Timed(s) == Len(s) \in Nat /\ DOMAIN s = 1 .. Len(s) /\ \A k \in 1 .. Len(s) : s[k].wall \in Int

\* What comes before each position of S in the order of positions, and in that of times.
Sooner(S) == [i \in S |-> {j \in S : j < i}]
Earlier(s, S) == [i \in S |-> {j \in S : \/ s[j].wall < s[i].wall
                                         \/ s[j].wall = s[i].wall /\ j < i}]

\* The positions of the given kind.
At(s, kind) == {i \in DOMAIN s : s[i].kind = kind}

\* Both are orders.
LEMMA TheyOrder ==
  ASSUME NEW s, Timed(s), NEW S, S \subseteq DOMAIN s
  PROVE  Ordering(S, Sooner(S)) /\ Ordering(S, Earlier(s, S))
  <1>1. IsFiniteSet(S) /\ S \subseteq Nat
    <2>1. Len(s) \in Nat /\ S \subseteq 1 .. Len(s)
      BY DEF Timed
    <2>2. IsFiniteSet(1 .. Len(s))
      BY <2>1, FS_Interval
    <2> QED  BY <2>1, <2>2, FS_Subset
  <1>2. \A i \in S : s[i].wall \in Int
    BY DEF Timed
  <1>3. Ordering(S, Sooner(S))
    <2> DEFINE b == Sooner(S)
    <2>1. \A i, j \in S : j \in b[i] <=> j < i
      BY DEF Sooner
    <2>2. \A i \in S : b[i] \subseteq S
      BY DEF Sooner
    <2> HIDE DEF b
    <2>3. \A i \in S : i \notin b[i]
      BY <1>1, <2>1
    <2>4. \A i, j \in S : i = j \/ i \in b[j] \/ j \in b[i]
      BY <1>1, <2>1
    <2>5. ASSUME NEW i \in S, NEW j \in S, j \in b[i] PROVE b[j] \subseteq b[i]
      <3> SUFFICES ASSUME NEW k \in b[j] PROVE k \in b[i]
        OBVIOUS
      <3>1. k \in S /\ k < j /\ j < i
        BY <2>1, <2>2, <2>5
      <3> QED  BY <1>1, <2>1, <3>1
    <2>6. Ordering(S, b)
      BY <1>1, <2>2, <2>3, <2>4, <2>5 DEF Ordering
    <2> QED  BY <2>6 DEF b
  <1>4. Ordering(S, Earlier(s, S))
    <2> DEFINE b == Earlier(s, S)
    <2>1. \A i, j \in S : j \in b[i] <=> \/ s[j].wall < s[i].wall
                                         \/ s[j].wall = s[i].wall /\ j < i
      BY DEF Earlier
    <2>2. \A i \in S : b[i] \subseteq S
      BY DEF Earlier
    <2> HIDE DEF b
    <2>3. \A i \in S : i \notin b[i]
      BY <1>1, <1>2, <2>1
    <2>4. \A i, j \in S : i = j \/ i \in b[j] \/ j \in b[i]
      BY <1>1, <1>2, <2>1
    <2>5. ASSUME NEW i \in S, NEW j \in S, j \in b[i] PROVE b[j] \subseteq b[i]
      <3> SUFFICES ASSUME NEW k \in b[j] PROVE k \in b[i]
        OBVIOUS
      <3>1. /\ k \in S
            /\ \/ s[k].wall < s[j].wall
               \/ s[k].wall = s[j].wall /\ k < j
            /\ \/ s[j].wall < s[i].wall
               \/ s[j].wall = s[i].wall /\ j < i
        BY <2>1, <2>2, <2>5
      <3>2. /\ s[k].wall \in Int /\ s[j].wall \in Int /\ s[i].wall \in Int
            /\ k \in Nat /\ j \in Nat /\ i \in Nat
        BY <1>1, <1>2, <3>1
      <3>3. s[k].wall < s[i].wall \/ (s[k].wall = s[i].wall /\ k < i)
        BY <3>1, <3>2
      <3> QED  BY <2>1, <3>1, <3>3
    <2>6. Ordering(S, b)
      BY <1>1, <2>2, <2>3, <2>4, <2>5 DEF Ordering
    <2> QED  BY <2>6 DEF b
  <1> QED  BY <1>3, <1>4

\* Sorting moves every draft to a place of its own, the earlier ones first and those of
\* one time as they were.
LEMMA SortingIs ==
  ASSUME NEW s, Timed(s)
  PROVE  LET t == SortedByWall(s)
             N == Len(s)
             o == InOrder(1 .. N, Earlier(s, 1 .. N))
         IN  /\ N \in Nat /\ Len(t) = N /\ DOMAIN t = 1 .. N
             /\ \A n \in 1 .. N : o[n] \in 1 .. N /\ t[n] = s[o[n]]
             /\ \A i \in 1 .. N : \E n \in 1 .. N : o[n] = i
             /\ \A m, n \in 1 .. N : o[m] = o[n] => m = n
             /\ \A m, n \in 1 .. N : m < n <=> \/ s[o[m]].wall < s[o[n]].wall
                                               \/ s[o[m]].wall = s[o[n]].wall /\ o[m] < o[n]
  <1> DEFINE t == SortedByWall(s)
             N == Len(s)
             b == Earlier(s, 1 .. N)
             o == InOrder(1 .. N, b)
             V == {s[k] : k \in 1 .. N}
  <1>1. N \in Nat /\ DOMAIN s = 1 .. N /\ Cardinality(1 .. N) = N
    <2>1. N \in Nat /\ DOMAIN s = 1 .. N
      BY DEF Timed
    <2>2. Cardinality(1 .. N) = IF 1 > N THEN 0 ELSE N - 1 + 1
      <3>1. 1 \in Int /\ N \in Int
        BY <2>1
      <3> QED  BY <3>1, FS_Interval, Zenon
    <2>3. (IF 1 > N THEN 0 ELSE N - 1 + 1) = N
      BY <2>1
    <2> QED  BY <2>1, <2>2, <2>3
  <1>2. Ordering(1 .. N, b)
    BY <1>1, TheyOrder
  <1>3. /\ Len(o) = N /\ DOMAIN o = 1 .. N
        /\ \A n \in 1 .. N : o[n] \in 1 .. N
        /\ \A i \in 1 .. N : \E n \in 1 .. N : o[n] = i
        /\ \A m, n \in 1 .. N : m < n <=> o[m] \in b[o[n]]
        /\ \A m, n \in 1 .. N : o[m] = o[n] => m = n
    <2> DEFINE S == 1 .. N
    <2> HIDE DEF b, N, S
    <2>1. Ordering(S, b)
      BY <1>2 DEF S
    <2>2. LET u == InOrder(S, b)
              K == Cardinality(S)
          IN  /\ K \in Nat /\ Len(u) = K /\ DOMAIN u = 1 .. K
              /\ \A n \in 1 .. K : u[n] \in S /\ Cardinality(b[u[n]]) = n - 1
              /\ \A i \in S : \E n \in 1 .. K : u[n] = i
              /\ \A m, n \in 1 .. K : m < n <=> u[m] \in b[u[n]]
              /\ \A m, n \in 1 .. K : u[m] = u[n] => m = n
      BY <2>1, InOrderIs
    <2>3. Cardinality(S) = N /\ InOrder(S, b) = o
      BY <1>1 DEF S
    <2> HIDE DEF o
    <2> QED  BY <2>2, <2>3 DEF S
  <1>4. t = [n \in DOMAIN o |-> s[o[n]]]
    BY <1>1 DEF SortedByWall, Earlier
  <1> HIDE DEF t, o
  <1>5. DOMAIN t = 1 .. N /\ \A n \in 1 .. N : t[n] = s[o[n]]
    BY <1>3, <1>4
  <1>6. Len(t) = N
    <2>1. t \in [1 .. N -> V]
      BY <1>3, <1>4
    <2> HIDE DEF V, N
    <2> QED  BY <1>1, <2>1
  <1>7. \A m, n \in 1 .. N : m < n <=> \/ s[o[m]].wall < s[o[n]].wall
                                       \/ s[o[m]].wall = s[o[n]].wall /\ o[m] < o[n]
    BY <1>3 DEF Earlier
  <1> USE DEF t, o
  <1> QED  BY <1>1, <1>3, <1>5, <1>6, <1>7

\* The events of one kind, in the order of their times.
LEMMA SortedOfKind ==
  ASSUME NEW s, Timed(s), NEW kind
  PROVE  LET M == At(s, kind)
             q == OfKind(SortedByWall(s), kind)
         IN  /\ Cardinality(M) \in Nat /\ DOMAIN q = 1 .. Cardinality(M)
             /\ \A m \in 1 .. Cardinality(M) : q[m] = s[InOrder(M, Earlier(s, M))[m]]
  <1> DEFINE M == At(s, kind)
             t == SortedByWall(s)
             N == Len(s)
             o == InOrder(1 .. N, Earlier(s, 1 .. N))
             A == At(t, kind)
             f == [n \in A |-> o[n]]
             p == InOrder(A, Sooner(A))
             q == OfKind(t, kind)
  <1>1. /\ N \in Nat /\ Len(t) = N /\ DOMAIN t = 1 .. N
        /\ \A n \in 1 .. N : o[n] \in 1 .. N /\ t[n] = s[o[n]]
        /\ \A i \in 1 .. N : \E n \in 1 .. N : o[n] = i
        /\ \A m, n \in 1 .. N : m < n <=> \/ s[o[m]].wall < s[o[n]].wall
                                          \/ s[o[m]].wall = s[o[n]].wall /\ o[m] < o[n]
    BY SortingIs
  <1>2. DOMAIN s = 1 .. N /\ \A k \in 1 .. N : s[k].wall \in Int
    BY DEF Timed
  <1> HIDE DEF t, N, o
  <1>3. Timed(t)
    BY <1>1, <1>2 DEF Timed
  <1>4. A \subseteq 1 .. N /\ M \subseteq 1 .. N
    BY <1>1, <1>2 DEF At
  <1>5. Ordering(A, Sooner(A)) /\ Ordering(M, Earlier(s, M))
    BY <1>1, <1>2, <1>3, <1>4, TheyOrder
  <1>6. f \in [A -> M] /\ \A n \in A : f[n] = o[n]
    BY <1>1, <1>2 DEF At
  <1>7. \A y \in M : \E x \in A : f[x] = y
    <2> SUFFICES ASSUME NEW y \in M PROVE \E x \in A : f[x] = y
      OBVIOUS
    <2>1. y \in 1 .. N /\ s[y].kind = kind
      BY <1>2 DEF At
    <2>2. PICK n \in 1 .. N : o[n] = y
      BY <1>1, <2>1
    <2>3. n \in A
      BY <1>1, <2>1, <2>2 DEF At
    <2> QED  BY <2>2, <2>3
  <1> HIDE DEF f
  <1>8. \A x, y \in A : x \in Sooner(A)[y] <=> f[x] \in Earlier(s, M)[f[y]]
    <2> SUFFICES ASSUME NEW x \in A, NEW y \in A
                 PROVE  x \in Sooner(A)[y] <=> f[x] \in Earlier(s, M)[f[y]]
      OBVIOUS
    <2>1. x \in Sooner(A)[y] <=> x < y
      BY DEF Sooner
    <2>2. f[x] \in Earlier(s, M)[f[y]] <=> \/ s[o[x]].wall < s[o[y]].wall
                                           \/ s[o[x]].wall = s[o[y]].wall /\ o[x] < o[y]
      BY <1>6 DEF Earlier
    <2> QED  BY <1>1, <1>4, <2>1, <2>2
  <1>9. /\ Cardinality(M) = Cardinality(A)
        /\ \A n \in 1 .. Cardinality(A) : InOrder(M, Earlier(s, M))[n] = f[p[n]]
    <2> HIDE DEF M, A
    <2> QED  BY <1>5, <1>6, <1>7, <1>8, SameOrder
  <1>10. /\ Cardinality(A) \in Nat /\ DOMAIN p = 1 .. Cardinality(A)
         /\ \A n \in 1 .. Cardinality(A) : p[n] \in A
    <2> HIDE DEF A
    <2> QED  BY <1>5, InOrderIs
  <1>11. q = [m \in DOMAIN p |-> t[p[m]]]
    BY DEF OfKind, At, Sooner
  <1>12. ASSUME NEW m \in 1 .. Cardinality(M)
         PROVE  q[m] = s[InOrder(M, Earlier(s, M))[m]]
    <2> HIDE DEF A, M, p, q
    <2>1. p[m] \in A /\ q[m] = t[p[m]]
      BY <1>9, <1>10, <1>11
    <2>2. m \in 1 .. Cardinality(A) /\ p[m] \in 1 .. N
      BY <1>4, <1>9, <1>12, <2>1
    <2>3. t[p[m]] = s[o[p[m]]] /\ f[p[m]] = o[p[m]]
      BY <1>1, <1>6, <2>1, <2>2
    <2> QED  BY <1>9, <2>1, <2>2, <2>3
  <1>13. DOMAIN q = 1 .. Cardinality(M)
    <2> HIDE DEF A, M, p, q
    <2> QED  BY <1>9, <1>10, <1>11
  <1> USE DEF t
  <1> QED  BY <1>9, <1>10, <1>12, <1>13

---------------------------------------------------------------------------
(* The drafts of the spans, one span after the other.                      *)

\* The drafts so far.
LEMMA FlattenedStepwise ==
  ASSUME NEW q, Len(q) \in Nat \ {0}
  PROVE  \E f : /\ f[1] = q[1] /\ FlattenSeq(q) = f[Len(q)]
                /\ \A n \in 2 .. Len(q) : f[n] = f[n - 1] \o q[n]
  <1> DEFINE N == Len(q)
             Step(g, n) == IF n = 1 THEN q[n] ELSE g[n - 1] \o q[n]
             Bad == {n \in Nat : n \in 1 .. N /\ ~\E g : g = [k \in 1 .. n |-> Step(g, k)]}
  <1>1. Bad = {}
    <2>1. SUFFICES ASSUME Bad # {} PROVE FALSE
      OBVIOUS
    <2>2. PICK n \in Bad : \A m \in Bad : n <= m
      BY <2>1, LeastIn
    <2>3. n # 1
      <3> DEFINE g == [k \in 1 .. 1 |-> q[k]]
      <3>1. \A k \in 1 .. 1 : Step(g, k) = q[k]
        OBVIOUS
      <3>2. g = [k \in 1 .. 1 |-> Step(g, k)]
        BY <3>1
      <3> QED  BY <2>2, <3>2
    <2>4. n - 1 \in Nat /\ n - 1 \notin Bad /\ n - 1 \in 1 .. N
      <3>1. n \in Nat /\ n \in 1 .. N
        BY <2>2
      <3> HIDE DEF Bad
      <3> QED  BY <2>2, <2>3, <3>1
    <2>5. PICK g : g = [k \in 1 .. n - 1 |-> Step(g, k)]
      BY <2>4
    <2> DEFINE h == [k \in 1 .. n |-> IF k = n THEN g[n - 1] \o q[n] ELSE g[k]]
    <2>6. \A k \in 1 .. n : h[k] = Step(h, k)
      <3>1. ASSUME NEW k \in 1 .. n PROVE h[k] = Step(h, k)
        <4>1. CASE k = n
          <5>1. n - 1 \in 1 .. n /\ n - 1 # n
            BY <2>4
          <5>2. h[n - 1] = g[n - 1]
            BY <5>1
          <5> QED  BY <2>3, <4>1, <5>2
        <4>2. CASE k # n /\ k = 1
          <5>1. 1 \in 1 .. n - 1
            BY <4>2
          <5>2. g[1] = Step(g, 1)
            BY <5>1, <2>5, Zenon
          <5> QED  BY <4>2, <5>2
        <4>3. CASE k # n /\ k # 1
          <5>1. k \in 1 .. n - 1 /\ k - 1 \in 1 .. n - 1 /\ k - 1 # n /\ k - 1 \in 1 .. n
            BY <4>3
          <5>2. h[k] = g[k] /\ h[k - 1] = g[k - 1]
            BY <4>3, <5>1
          <5>3. g[k] = Step(g, k)
            BY <5>1, <2>5, Zenon
          <5> QED  BY <4>3, <5>2, <5>3
        <4> QED  BY <4>1, <4>2, <4>3
      <3> QED  BY <3>1
    <2>7. h = [k \in 1 .. n |-> Step(h, k)]
      BY <2>6
    <2> QED  BY <2>2, <2>7
  <1>2. \E g : g = [k \in 1 .. N |-> Step(g, k)]
    <2>1. N \in Nat /\ N \in 1 .. N
      OBVIOUS
    <2>2. N \notin Bad
      <3> HIDE DEF Bad
      <3> QED  BY <1>1
    <2> QED  BY <2>1, <2>2
  <1> DEFINE f == CHOOSE g : g = [k \in 1 .. N |-> Step(g, k)]
  <1>3. f = [k \in 1 .. N |-> Step(f, k)]
    BY <1>2, Zenon
  <1>4. FlattenSeq(q) = f[N]
    BY DEF FlattenSeq
  <1> HIDE DEF f
  <1>5. f[1] = q[1] /\ \A n \in 2 .. N : f[n] = f[n - 1] \o q[n]
    <2>1. \A k \in 1 .. N : f[k] = Step(f, k)
      BY <1>3, Zenon
    <2>2. 1 \in 1 .. N /\ \A k \in 2 .. N : k \in 1 .. N /\ k # 1
      OBVIOUS
    <2> QED  BY <2>1, <2>2
  <1> QED  BY <1>4, <1>5

\* f is the sequences of q one behind the other, the s-th behind place at[s].
Placed(f, q, at) ==
    /\ \A s \in 1 .. Len(q) : at[s] \in Nat
    /\ \A s \in 1 .. Len(q), j \in Nat : j \in 1 .. Len(q[s]) =>
         at[s] + j \in 1 .. Len(f) /\ f[at[s] + j] = q[s][j]
    /\ \A i \in 1 .. Len(f) : \E s \in 1 .. Len(q), j \in Nat :
         j \in 1 .. Len(q[s]) /\ i = at[s] + j
    /\ \A s, t \in 1 .. Len(q) : s < t => at[s] + Len(q[s]) <= at[t]

\* Each sequence has its place behind those before it.
LEMMA Flattened ==
  ASSUME NEW R, NEW q, Len(q) \in Nat \ {0}, \A s \in 1 .. Len(q) : q[s] \in Seq(R)
  PROVE  FlattenSeq(q) \in Seq(R) /\ \E at : Placed(FlattenSeq(q), q, at)
  <1> DEFINE N == Len(q)
  <1>1. PICK f : /\ f[1] = q[1] /\ FlattenSeq(q) = f[N]
                 /\ \A n \in 2 .. N : f[n] = f[n - 1] \o q[n]
    BY FlattenedStepwise
  <1> DEFINE at == [s \in 1 .. N |-> IF s = 1 THEN 0 ELSE Len(f[s - 1])]
             Good(n) ==
               /\ f[n] \in Seq(R) /\ Len(f[n]) = at[n] + Len(q[n])
               /\ \A s \in 1 .. n : at[s] \in Nat
               /\ \A s \in 1 .. n, j \in Nat : j \in 1 .. Len(q[s]) =>
                    at[s] + j \in 1 .. Len(f[n]) /\ f[n][at[s] + j] = q[s][j]
               /\ \A i \in 1 .. Len(f[n]) : \E s \in 1 .. n, j \in Nat :
                    j \in 1 .. Len(q[s]) /\ i = at[s] + j
               /\ \A s, t \in 1 .. n : s < t => at[s] + Len(q[s]) <= at[t]
             Bad == {n \in Nat : n \in 1 .. N /\ ~Good(n)}
  <1>2. Good(1)
    <2>1. f[1] \in Seq(R) /\ f[1] = q[1] /\ at[1] = 0 /\ 1 \in 1 .. N /\ Len(f[1]) \in Nat
      BY <1>1
    <2>2. \A s \in 1 .. 1 : s = 1
      OBVIOUS
    <2>3. 1 \in 1 .. 1
      OBVIOUS
    <2> HIDE DEF at
    <2>4. \A s \in 1 .. 1, j \in Nat : j \in 1 .. Len(q[s]) =>
            at[s] + j \in 1 .. Len(f[1]) /\ f[1][at[s] + j] = q[s][j]
      BY <2>1, <2>2
    <2>5. ASSUME NEW i \in 1 .. Len(f[1])
          PROVE  \E s \in 1 .. 1, j \in Nat : j \in 1 .. Len(q[s]) /\ i = at[s] + j
      <3>1. i \in Nat /\ i \in 1 .. Len(q[1]) /\ i = at[1] + i
        BY <2>1
      <3> QED  BY <2>3, <3>1
    <2> QED  BY <2>1, <2>2, <2>4, <2>5
  <1>3. ASSUME NEW n \in 2 .. N, Good(n - 1)
        PROVE  Good(n)
    <2> DEFINE g == f[n - 1]
    <2> HIDE DEF Good, at
    <2>1. /\ n - 1 \in 1 .. N /\ n \in 1 .. N /\ n # 1 /\ n \in Nat /\ n - 1 \in 1 .. n - 1
          /\ q[n] \in Seq(R) /\ f[n] = g \o q[n]
      <3>1. n \in 2 .. N /\ N \in Nat
        OBVIOUS
      <3>2. f[n] = g \o q[n]
        BY <1>1
      <3> HIDE DEF N
      <3>3. n - 1 \in 1 .. N /\ n \in 1 .. N /\ n # 1 /\ n \in Nat /\ n - 1 \in 1 .. n - 1
        BY <3>1
      <3> QED  BY <3>2, <3>3 DEF N
    <2>2. g \in Seq(R) /\ Len(g) \in Nat /\ Len(q[n]) \in Nat
      BY <1>3, <2>1 DEF Good
    <2>3. at[n] = Len(g)
      BY <2>1 DEF at
    <2>4. /\ \A s \in 1 .. n - 1, j \in Nat : j \in 1 .. Len(q[s]) =>
                 at[s] + j \in 1 .. Len(g) /\ g[at[s] + j] = q[s][j]
          /\ \A i \in 1 .. Len(g) : \E s \in 1 .. n - 1, j \in Nat :
                 j \in 1 .. Len(q[s]) /\ i = at[s] + j
          /\ \A s \in 1 .. n - 1 : at[s] \in Nat
          /\ \A s, t \in 1 .. n - 1 : s < t => at[s] + Len(q[s]) <= at[t]
          /\ Len(g) = at[n - 1] + Len(q[n - 1])
      BY <1>3 DEF Good
    <2>5. \A s \in 1 .. n : s \in 1 .. n - 1 \/ s = n
      BY <2>1
    <2>6. \A s \in 1 .. N : Len(q[s]) \in Nat
      OBVIOUS
    <2> HIDE DEF g
    <2>7. /\ f[n] \in Seq(R) /\ Len(f[n]) = Len(g) + Len(q[n])
          /\ \A i \in 1 .. Len(g) : f[n][i] = g[i]
          /\ \A i \in 1 .. Len(q[n]) : f[n][Len(g) + i] = q[n][i]
      <3>1. /\ g \o q[n] \in Seq(R) /\ Len(g \o q[n]) = Len(g) + Len(q[n])
            /\ \A i \in 1 .. Len(g) + Len(q[n]) :
                 (g \o q[n])[i] = IF i <= Len(g) THEN g[i] ELSE q[n][i - Len(g)]
        BY <2>1, <2>2, ConcatProperties
      <3> HIDE DEF N
      <3>2. \A i \in 1 .. Len(q[n]) : /\ Len(g) + i \in 1 .. Len(g) + Len(q[n])
                                       /\ ~(Len(g) + i <= Len(g)) /\ (Len(g) + i) - Len(g) = i
        BY <2>2
      <3> QED  BY <2>1, <2>2, <3>1, <3>2
    <2>8. \A s \in 1 .. n : at[s] \in Nat
      BY <2>2, <2>3, <2>4, <2>5
    <2>9. ASSUME NEW s \in 1 .. n, NEW j \in Nat, j \in 1 .. Len(q[s])
          PROVE  at[s] + j \in 1 .. Len(f[n]) /\ f[n][at[s] + j] = q[s][j]
      <3>1. CASE s = n
        <4>1. j \in 1 .. Len(q[n]) /\ at[s] = Len(g)
          BY <2>3, <2>9, <3>1
        <4>2. Len(g) + j \in 1 .. Len(f[n])
          BY <2>2, <2>7, <4>1
        <4> QED  BY <2>7, <3>1, <4>1, <4>2
      <3>2. CASE s \in 1 .. n - 1
        <4>1. at[s] + j \in 1 .. Len(g) /\ g[at[s] + j] = q[s][j]
          BY <2>4, <2>9, <3>2
        <4>2. \A k \in 1 .. Len(g) : k \in 1 .. Len(f[n]) /\ f[n][k] = g[k]
          BY <2>2, <2>7
        <4> QED  BY <4>1, <4>2, Zenon
      <3> QED  BY <2>5, <3>1, <3>2
    <2>10. ASSUME NEW i \in 1 .. Len(f[n])
           PROVE  \E s \in 1 .. n, j \in Nat : j \in 1 .. Len(q[s]) /\ i = at[s] + j
      <3>1. CASE i <= Len(g)
        <4>1. i \in 1 .. Len(g)
          BY <2>2, <2>7, <3>1
        <4>2. PICK s \in 1 .. n - 1, j \in Nat : j \in 1 .. Len(q[s]) /\ i = at[s] + j
          BY <2>4, <4>1
        <4>3. s \in 1 .. n
          BY <2>1
        <4> QED  BY <4>2, <4>3
      <3>2. CASE ~(i <= Len(g))
        <4> DEFINE j == i - Len(g)
        <4>1. j \in Nat /\ j \in 1 .. Len(q[n]) /\ i = Len(g) + j
          BY <2>2, <2>7, <3>2
        <4>2. n \in 1 .. n
          BY <2>1
        <4> HIDE DEF j
        <4> QED  BY <2>3, <4>1, <4>2
      <3> QED  BY <3>1, <3>2
    <2>11. ASSUME NEW s \in 1 .. n, NEW t \in 1 .. n, s < t
           PROVE  at[s] + Len(q[s]) <= at[t]
      <3>1. s \in 1 .. n - 1
        BY <2>1, <2>11
      <3>2. CASE t \in 1 .. n - 1
        BY <2>4, <2>11, <3>1, <3>2
      <3>3. CASE t = n
        <4>1. CASE s = n - 1
          BY <2>2, <2>3, <2>4, <3>3, <4>1
        <4>2. CASE s < n - 1
          <5>1. at[s] + Len(q[s]) <= at[n - 1]
            BY <2>1, <2>4, <3>1, <4>2
          <5>2. /\ at[n - 1] \in Nat /\ Len(q[n - 1]) \in Nat /\ at[s] \in Nat
                /\ Len(q[s]) \in Nat
            BY <2>1, <2>4, <2>6, <3>1
          <5> QED  BY <2>3, <2>4, <3>3, <5>1, <5>2
        <4> QED  BY <2>1, <3>1, <4>1, <4>2
      <3> QED  BY <2>5, <3>2, <3>3
    <2>12. Len(f[n]) = at[n] + Len(q[n])
      BY <2>3, <2>7
    <2> QED  BY <2>7, <2>8, <2>9, <2>10, <2>11, <2>12 DEF Good
  <1>4. Good(N)
    <2>1. Bad = {}
      <3>1. SUFFICES ASSUME Bad # {} PROVE FALSE
        OBVIOUS
      <3>2. PICK n \in Bad : \A m \in Bad : n <= m
        BY <3>1, LeastIn
      <3>3. n \in 1 .. N /\ n \in Nat /\ ~Good(n) /\ n - 1 \notin Bad
        <4>1. n \in 1 .. N /\ n \in Nat /\ ~Good(n)
          BY <3>2
        <4> HIDE DEF Bad, Good
        <4> QED  BY <3>2, <4>1
      <3> HIDE DEF Good
      <3>4. n # 1
        BY <1>2, <3>3
      <3>5. n \in 2 .. N /\ n - 1 \in Nat /\ n - 1 \in 1 .. N
        BY <3>3, <3>4
      <3>6. Good(n - 1)
        BY <3>3, <3>5
      <3> QED  BY <1>3, <3>3, <3>5, <3>6
    <2>2. N \in Nat /\ N \in 1 .. N
      OBVIOUS
    <2>3. N \notin Bad
      <3> HIDE DEF Bad
      <3> QED  BY <2>1
    <2> HIDE DEF Good
    <2> QED  BY <2>2, <2>3 DEF Bad
  <1> HIDE DEF at
  <1>5. FlattenSeq(q) \in Seq(R) /\ Placed(FlattenSeq(q), q, at)
    BY <1>1, <1>4 DEF Placed
  <1> QED  BY <1>5

\* Two sequences, one after the other.
AreJoined(h, a, b) ==
    /\ Len(h) = Len(a) + Len(b) /\ Len(a) \in Nat /\ Len(b) \in Nat
    /\ \A i \in 1 .. Len(a) : h[i] = a[i]
    /\ \A i \in 1 .. Len(b) : h[Len(a) + i] = b[i]

LEMMA Joined ==
  ASSUME NEW R, NEW a \in Seq(R), NEW b \in Seq(R)
  PROVE  a \o b \in Seq(R) /\ AreJoined(a \o b, a, b)
  <1>1. /\ a \o b \in Seq(R) /\ Len(a \o b) = Len(a) + Len(b)
        /\ Len(a) \in Nat /\ Len(b) \in Nat
        /\ \A i \in 1 .. Len(a) + Len(b) :
             (a \o b)[i] = IF i <= Len(a) THEN a[i] ELSE b[i - Len(a)]
    BY ConcatProperties
  <1>2. \A i \in 1 .. Len(a) : i \in 1 .. Len(a) + Len(b) /\ i <= Len(a)
    BY <1>1
  <1>3. \A i \in 1 .. Len(b) : /\ Len(a) + i \in 1 .. Len(a) + Len(b)
                               /\ ~(Len(a) + i <= Len(a)) /\ (Len(a) + i) - Len(a) = i
    BY <1>1
  <1> QED  BY <1>1, <1>2, <1>3 DEF AreJoined

\* The events of one kind are those at its places, in their order.
LEMMA OfKindIs ==
  ASSUME NEW e, Timed(e), NEW kind
  PROVE  LET M == At(e, kind)
             o == InOrder(M, Sooner(M))
             q == OfKind(e, kind)
         IN  /\ Cardinality(M) \in Nat /\ Len(q) = Cardinality(M) /\ DOMAIN q = 1 .. Cardinality(M)
             /\ \A m \in 1 .. Cardinality(M) : o[m] \in M /\ q[m] = e[o[m]]
  <1> DEFINE M == At(e, kind)
             o == InOrder(M, Sooner(M))
             q == OfKind(e, kind)
             K == Cardinality(M)
             V == {e[k] : k \in M}
  <1>1. q = [m \in DOMAIN o |-> e[o[m]]]
    BY DEF OfKind, At, Sooner
  <1>2. M \subseteq DOMAIN e
    BY DEF At
  <1>3. Ordering(M, Sooner(M))
    BY <1>2, TheyOrder
  <1> HIDE DEF M
  <1>4. K \in Nat /\ DOMAIN o = 1 .. K /\ \A m \in 1 .. K : o[m] \in M
    BY <1>3, InOrderIs
  <1> HIDE DEF o, q, K
  <1>5. q \in [1 .. K -> V] /\ DOMAIN q = 1 .. K /\ \A m \in 1 .. K : q[m] = e[o[m]]
    BY <1>1, <1>4
  <1> HIDE DEF V
  <1>6. Len(q) = K
    BY <1>4, <1>5
  <1> USE DEF M, o, q, K
  <1> QED  BY <1>4, <1>5, <1>6

\* What a draft of a message says.
MessageDraft(e, m) == Draft(OfKind(e, "message")[m].wall, "message", "", OfKind(e, "message")[m].text)

\* The drafts of the root span: of the span, of the tokens, and one for each message.
LEMMA RootDraftsAre ==
  ASSUME NEW e, Log(e), Len(e) # 0
  PROVE  LET d == RootDrafts(RootSpan(e))
             K == Len(OfKind(e, "message"))
         IN  \E R, off :
               /\ d \in Seq(R) /\ off \in Nat /\ K \in Nat /\ Len(d) = off + K
               /\ \A i \in 1 .. off : d[i].kind \in {"span", "usage"} /\ d[i].wall \in Int
               /\ \A m \in 1 .. K : d[off + m] = MessageDraft(e, m) /\ d[off + m].wall \in Int
  <1> DEFINE span == RootSpan(e)
             d == RootDrafts(span)
             q == OfKind(e, "message")
             K == Len(q)
             x == SpanDraft(span)
             y == Draft(span.end, "usage", "", "")
             a == <<x>>
             b == IF span.tokens THEN <<y>> ELSE <<>>
             c == [m \in DOMAIN span.events |->
                      Draft(span.events[m].wall, "message", "", span.events[m].text)]
             R == {x, y} \cup {MessageDraft(e, m) : m \in 1 .. K}
             h == a \o b
             off == Len(h)
  <1>1. Timed(e)
    BY DEF Log, Timed
  <1>2. K \in Nat /\ DOMAIN q = 1 .. K /\ \A m \in 1 .. K : q[m].wall \in Int
    <2>1. /\ K \in Nat /\ DOMAIN q = 1 .. K
          /\ \A m \in 1 .. K : /\ InOrder(At(e, "message"), Sooner(At(e, "message")))[m] \in At(e, "message")
                               /\ q[m] = e[InOrder(At(e, "message"), Sooner(At(e, "message")))[m]]
      BY <1>1, OfKindIs
    <2>2. \A k \in At(e, "message") : e[k].wall \in Int
      BY DEF At, Log
    <2> QED  BY <2>1, <2>2
  <1>3. span.start \in Int /\ span.end \in Int
    BY BoundsHold DEF RootSpan
  <1>4. span.events = [m \in 1 .. K |-> [wall |-> q[m].wall, text |-> q[m].text]]
    BY <1>2 DEF RootSpan
  <1>5. c = [m \in 1 .. K |-> MessageDraft(e, m)]
    BY <1>4 DEF MessageDraft
  <1>6. d = h \o c
    BY DEF RootDrafts
  <1>7. /\ x.kind = "span" /\ x.wall \in Int /\ y.kind = "usage" /\ y.wall \in Int
        /\ \A m \in 1 .. K : MessageDraft(e, m).wall \in Int
    BY <1>2, <1>3 DEF SpanDraft, Draft, MessageDraft
  <1> HIDE DEF x, y, span, q, K, c, d
  <1>8. c \in Seq(R) /\ Len(c) = K /\ \A m \in 1 .. K : c[m] = MessageDraft(e, m)
    <2>1. c \in [1 .. K -> R]
      BY <1>5
    <2> HIDE DEF R
    <2> QED  BY <1>2, <1>5, <2>1
  <1>9. x \in R /\ y \in R
    OBVIOUS
  <1> HIDE DEF R
  <1>10. a \in Seq(R) /\ Len(a) = 1 /\ a[1] = x
    BY <1>9
  <1>11. b \in Seq(R) /\ Len(b) \in Nat /\ \A i \in 1 .. Len(b) : b[i] = y
    <2>1. CASE span.tokens
      <3>1. b = <<y>>
        BY <2>1
      <3> QED  BY <1>9, <3>1
    <2>2. CASE ~span.tokens
      <3>1. b = <<>>
        BY <2>2
      <3> QED  BY <3>1
    <2> QED  BY <2>1, <2>2
  <1> HIDE DEF a, b
  <1>12. /\ h \in Seq(R) /\ off \in Nat /\ off = 1 + Len(b)
         /\ h[1] = x /\ \A i \in 1 .. Len(b) : h[1 + i] = y
    <2>1. h \in Seq(R) /\ AreJoined(h, a, b)
      BY <1>10, <1>11, Joined
    <2> HIDE DEF h
    <2> QED  BY <1>10, <1>11, <2>1 DEF AreJoined
  <1> HIDE DEF h
  <1>13. \A i \in 1 .. off : h[i] = x \/ h[i] = y
    <2>1. ASSUME NEW i \in 1 .. off, i # 1 PROVE h[i] = y
      <3> DEFINE j == i - 1
      <3>1. j \in 1 .. Len(b) /\ i = 1 + j
        BY <1>11, <1>12, <2>1
      <3> HIDE DEF j, off
      <3> QED  BY <1>12, <3>1
    <2> QED  BY <1>12, <2>1
  <1>14. /\ d \in Seq(R) /\ Len(d) = off + K
         /\ \A i \in 1 .. off : d[i] = h[i]
         /\ \A m \in 1 .. K : d[off + m] = c[m]
    <2>1. d \in Seq(R) /\ AreJoined(d, h, c)
      BY <1>6, <1>8, <1>12, Joined
    <2> QED  BY <1>8, <2>1 DEF AreJoined
  <1> HIDE DEF off
  <1>15. \A i \in 1 .. off : d[i].kind \in {"span", "usage"} /\ d[i].wall \in Int
    BY <1>7, <1>13, <1>14
  <1>16. \A m \in 1 .. K : d[off + m] = MessageDraft(e, m) /\ d[off + m].wall \in Int
    BY <1>7, <1>8, <1>14
  <1>17. /\ d \in Seq(R) /\ off \in Nat /\ K \in Nat /\ Len(d) = off + K
         /\ \A i \in 1 .. off : d[i].kind \in {"span", "usage"} /\ d[i].wall \in Int
         /\ \A m \in 1 .. K : d[off + m] = MessageDraft(e, m) /\ d[off + m].wall \in Int
    BY <1>2, <1>12, <1>14, <1>15, <1>16
  <1>18. d = RootDrafts(RootSpan(e)) /\ K = Len(OfKind(e, "message"))
    BY DEF d, K, q, span
  <1> QED  BY <1>17, <1>18

---------------------------------------------------------------------------
(* The drafts of a tool.                                                   *)

CallDraft(t) ==
    Draft(t.call.wall, "call", t.id, IF t.name = "unknown" THEN "" ELSE Serialized(t.call.text))

ResultDraft(t) == Draft(ToolEnd(t), "result", t.id, Serialized(t.result.text))

\* One of its span, one of its call, and one of its result if it has one.
LEMMA ToolDraftsAre ==
  ASSUME NEW t, t.call.wall \in Int, t.result # NoResult => t.result.wall \in Int
  PROVE  LET d == ToolDrafts(ToolSpan(t))
         IN  /\ \E R : d \in Seq(R)
             /\ Len(d) = IF t.result = NoResult THEN 2 ELSE 3
             /\ d[1].kind = "span" /\ d[1].wall \in Int
             /\ d[2] = CallDraft(t) /\ d[2].wall \in Int
             /\ t.result # NoResult => d[3] = ResultDraft(t) /\ d[3].wall \in Int
  <1> DEFINE span == ToolSpan(t)
             d == ToolDrafts(span)
             x == SpanDraft(span)
             y == CallDraft(t)
             z == ResultDraft(t)
             v == IF span.arguments = {} THEN <<Draft(span.start, "call", span.id, "")>>
                  ELSE <<Draft(span.start, "call", span.id, CHOOSE w \in span.arguments : TRUE)>>
  <1>1. x.kind = "span" /\ x.wall \in Int /\ y.wall \in Int
    BY DEF SpanDraft, CallDraft, Draft, ToolSpan
  <1>2. t.result # NoResult => z.wall \in Int
    BY DEF ResultDraft, Draft, ToolEnd, Later
  <1>3. v = <<y>>
    <2>1. /\ span.start = t.call.wall /\ span.id = t.id
          /\ span.arguments = IF t.name = "unknown" THEN {} ELSE {Serialized(t.call.text)}
      BY DEF ToolSpan
    <2> HIDE DEF span
    <2>2. CASE t.name = "unknown"
      BY <2>1, <2>2 DEF CallDraft
    <2>3. CASE t.name # "unknown"
      <3>1. span.arguments = {Serialized(t.call.text)} /\ span.arguments # {}
        BY <2>1, <2>3
      <3>2. (CHOOSE w \in span.arguments : TRUE) = Serialized(t.call.text)
        BY <3>1
      <3> QED  BY <2>1, <2>3, <3>1, <3>2 DEF CallDraft
    <2> QED  BY <2>2, <2>3
  <1>4. /\ span.end = ToolEnd(t) /\ span.id = t.id
        /\ span.results = IF t.result = NoResult THEN {} ELSE {Serialized(t.result.text)}
    BY DEF ToolSpan
  <1> HIDE DEF span
  <1> DEFINE a == <<x>>
             b == <<y>>
             c == IF span.results = {} THEN <<>>
                  ELSE <<Draft(span.end, "result", span.id, CHOOSE w \in span.results : TRUE)>>
             h == a \o b
             R == {x, y, z}
  <1>5. d = h \o c
    <2>1. d = <<x>> \o v \o c
      BY DEF ToolDrafts
    <2> HIDE DEF v, c, d, x, y
    <2> QED  BY <1>3, <2>1
  <1>6. c = IF t.result = NoResult THEN <<>> ELSE <<z>>
    <2>1. CASE t.result = NoResult
      BY <1>4, <2>1
    <2>2. CASE t.result # NoResult
      <3>1. span.results = {Serialized(t.result.text)} /\ span.results # {}
        BY <1>4, <2>2
      <3>2. (CHOOSE w \in span.results : TRUE) = Serialized(t.result.text)
        BY <3>1
      <3> QED  BY <1>4, <2>2, <3>1, <3>2 DEF ResultDraft
    <2> QED  BY <2>1, <2>2
  <1> HIDE DEF d, x, y, z, c
  <1>7. x \in R /\ y \in R /\ z \in R
    OBVIOUS
  <1> HIDE DEF R
  <1>8. /\ a \in Seq(R) /\ Len(a) = 1 /\ a[1] = x
        /\ b \in Seq(R) /\ Len(b) = 1 /\ b[1] = y
    BY <1>7
  <1>9. /\ c \in Seq(R) /\ Len(c) = IF t.result = NoResult THEN 0 ELSE 1
        /\ t.result # NoResult => c[1] = z
    BY <1>6, <1>7
  <1> HIDE DEF a, b
  <1>10. h \in Seq(R) /\ Len(h) = 2 /\ h[1] = x /\ h[2] = y
    <2>1. h \in Seq(R) /\ AreJoined(h, a, b)
      BY <1>8, Joined
    <2> HIDE DEF h
    <2>2. 1 \in 1 .. 1 /\ 1 + 1 = 2
      OBVIOUS
    <2>3. h[1] = x /\ h[2] = y
      BY <1>8, <2>1, <2>2 DEF AreJoined
    <2> QED  BY <1>8, <2>1, <2>3 DEF AreJoined
  <1> HIDE DEF h
  <1>11. /\ d \in Seq(R) /\ Len(d) = Len(h) + Len(c)
         /\ \A i \in 1 .. Len(h) : d[i] = h[i]
         /\ \A i \in 1 .. Len(c) : d[Len(h) + i] = c[i]
    <2>1. d \in Seq(R) /\ AreJoined(d, h, c)
      BY <1>5, <1>9, <1>10, Joined
    <2> QED  BY <2>1 DEF AreJoined
  <1>12. d[1] = x /\ d[2] = y
    BY <1>10, <1>11
  <1>13. t.result # NoResult => d[3] = z
    <2>1. 1 \in 1 .. 1 /\ 2 + 1 = 3
      OBVIOUS
    <2> QED  BY <1>9, <1>10, <1>11, <2>1
  <1>14. Len(d) = IF t.result = NoResult THEN 2 ELSE 3
    BY <1>9, <1>10, <1>11
  <1>15. \E S : d \in Seq(S)
    BY <1>11
  <1> QED  BY <1>1, <1>2, <1>12, <1>13, <1>14, <1>15 DEF d, span, x, y, z

---------------------------------------------------------------------------
(* The drafts of a trace.                                                  *)

\* Sequences over sets of their own are sequences over one set.
LEMMA CommonSet ==
  ASSUME NEW N, NEW q, \A s \in 1 .. N : \E R : q[s] \in Seq(R)
  PROVE  \E R : \A s \in 1 .. N : q[s] \in Seq(R)
  <1> DEFINE S(s) == CHOOSE R : q[s] \in Seq(R)
             U == UNION {S(s) : s \in 1 .. N}
  <1>1. \A s \in 1 .. N : q[s] \in Seq(S(s))
    OBVIOUS
  <1> HIDE DEF S
  <1>2. \A s \in 1 .. N : S(s) \subseteq U
    OBVIOUS
  <1> HIDE DEF U
  <1>3. \A s \in 1 .. N : q[s] \in Seq(U)
    <2> SUFFICES ASSUME NEW s \in 1 .. N PROVE q[s] \in Seq(U)
      OBVIOUS
    <2>1. q[s] \in Seq(S(s)) /\ S(s) \subseteq U
      BY <1>1, <1>2
    <2> HIDE DEF S
    <2> QED  BY <2>1, SeqMonotonic
  <1> QED  BY <1>3

Flat(e) ==
    LET spans == Export(e).spans
    IN  FlattenSeq([s \in DOMAIN spans |-> SpanDrafts(spans[s])])

\* Where the drafts are: the messages' behind o, that of the call of tool q at c[q], and
\* that of its result behind it.
Laid(e, p, s, o, c) ==
    /\ Timed(s) /\ o \in Nat
    /\ \A m \in 1 .. Len(OfKind(e, "message")) : o + m \in 1 .. Len(s) /\ s[o + m] = MessageDraft(e, m)
    /\ \A q \in 1 .. Len(p) :
         /\ c[q] \in 1 .. Len(s) /\ s[c[q]] = CallDraft(p[q])
         /\ p[q].result # NoResult => c[q] + 1 \in 1 .. Len(s) /\ s[c[q] + 1] = ResultDraft(p[q])
    /\ \A i \in 1 .. Len(s) :
         \/ s[i].kind \in {"span", "usage"}
         \/ \E m \in 1 .. Len(OfKind(e, "message")) : i = o + m
         \/ \E q \in 1 .. Len(p) : i = c[q] \/ (i = c[q] + 1 /\ p[q].result # NoResult)
    /\ \A q, r \in 1 .. Len(p) : c[q] = c[r] => q = r

\* The calls and results of tools have times.
LEMMA ToolsHaveTimes ==
  ASSUME NEW e, Log(e), NEW p, Paired(e, Len(e), p), NEW q \in 1 .. Len(p)
  PROVE  /\ p[q].call.wall \in Int
         /\ p[q].result # NoResult => p[q].result.wall \in Int
         /\ p[q].key # <<"root">>
  <1>1. /\ Of(p, q) \in 1 .. Len(e) /\ p[q].call = e[Of(p, q)]
        /\ \/ p[q].name = "tool"
           \/ p[q].name = "unknown" /\ p[q].result = p[q].call
    BY DEF Paired, Shaped
  <1>2. \A k \in 1 .. Len(e) : e[k].wall \in Int
    BY DEF Log
  <1>3. p[q].name = "tool" /\ p[q].result # NoResult => \E j \in 1 .. Len(e) : p[q].result = e[j]
    BY DEF Paired, Matched
  <1>4. p[q].key # <<"root">>
    <2>1. p[q].key[1] \in {"seq", "call", "result"}
      BY DEF Paired, Keyed
    <2>2. <<"root">>[1] = "root"
      OBVIOUS
    <2> QED  BY <2>1, <2>2
  <1> QED  BY <1>1, <1>2, <1>3, <1>4

LEMMA DraftsAre ==
  ASSUME NEW e, Log(e), Len(e) # 0, Export(e) # NoTrace
  PROVE  /\ Import(Export(e)) = SortedByWall(Flat(e))
         /\ \E o, c : Laid(e, Tools(e), Flat(e), o, c)
  <1> DEFINE p == Tools(e)
             spans == Export(e).spans
             N == Len(p) + 1
             K == Len(OfKind(e, "message"))
             ds == [s \in DOMAIN spans |-> SpanDrafts(spans[s])]
             f == Flat(e)
  <1>1. Import(Export(e)) = SortedByWall(f) /\ f = FlattenSeq(ds)
    BY DEF Import, Flat
  <1>2. Paired(e, Len(e), p) /\ Len(p) \in Nat
    BY ToolsKept, ShapedHas DEF Paired
  <1>3. /\ DOMAIN spans = 1 .. N /\ spans[1] = RootSpan(e)
        /\ \A q \in 1 .. Len(p) : spans[q + 1] = ToolSpan(p[q])
    BY SpansAre
  <1> HIDE DEF p, spans, f, K
  <1>4. /\ DOMAIN ds = 1 .. N /\ ds[1] = RootDrafts(RootSpan(e))
        /\ \A q \in 1 .. Len(p) : ds[q + 1] = ToolDrafts(ToolSpan(p[q]))
    <2>1. ds[1] = RootDrafts(RootSpan(e))
      <3>1. ds[1] = SpanDrafts(RootSpan(e)) /\ RootSpan(e).key = <<"root">>
        BY <1>2, <1>3 DEF RootSpan
      <3> QED  BY <3>1 DEF SpanDrafts
    <2>2. ASSUME NEW q \in 1 .. Len(p) PROVE ds[q + 1] = ToolDrafts(ToolSpan(p[q]))
      <3>1. q + 1 \in 1 .. N /\ ds[q + 1] = SpanDrafts(ToolSpan(p[q]))
        BY <1>2, <1>3
      <3>2. ToolSpan(p[q]).key # <<"root">>
        <4>1. ToolSpan(p[q]).key = p[q].key
          BY DEF ToolSpan
        <4> QED  BY <1>2, <4>1, ToolsHaveTimes
      <3> QED  BY <3>1, <3>2 DEF SpanDrafts
    <2> QED  BY <1>3, <2>1, <2>2
  <1>5. PICK S, off :
          /\ ds[1] \in Seq(S) /\ off \in Nat /\ K \in Nat /\ Len(ds[1]) = off + K
          /\ \A i \in 1 .. off : ds[1][i].kind \in {"span", "usage"} /\ ds[1][i].wall \in Int
          /\ \A m \in 1 .. K : ds[1][off + m] = MessageDraft(e, m) /\ ds[1][off + m].wall \in Int
    <2> HIDE DEF ds
    <2> QED  BY <1>4, RootDraftsAre DEF K
  <1>6. \A q \in 1 .. Len(p) :
          /\ \E R : ds[q + 1] \in Seq(R)
          /\ Len(ds[q + 1]) = IF p[q].result = NoResult THEN 2 ELSE 3
          /\ ds[q + 1][1].kind = "span" /\ ds[q + 1][1].wall \in Int
          /\ ds[q + 1][2] = CallDraft(p[q]) /\ ds[q + 1][2].wall \in Int
          /\ p[q].result # NoResult => ds[q + 1][3] = ResultDraft(p[q]) /\ ds[q + 1][3].wall \in Int
    <2> SUFFICES ASSUME NEW q \in 1 .. Len(p)
                 PROVE  /\ \E R : ds[q + 1] \in Seq(R)
                        /\ Len(ds[q + 1]) = IF p[q].result = NoResult THEN 2 ELSE 3
                        /\ ds[q + 1][1].kind = "span" /\ ds[q + 1][1].wall \in Int
                        /\ ds[q + 1][2] = CallDraft(p[q]) /\ ds[q + 1][2].wall \in Int
                        /\ p[q].result # NoResult =>
                             ds[q + 1][3] = ResultDraft(p[q]) /\ ds[q + 1][3].wall \in Int
      OBVIOUS
    <2> DEFINE t == p[q]
               d == ds[q + 1]
    <2>1. t.call.wall \in Int /\ (t.result # NoResult => t.result.wall \in Int)
      BY <1>2, ToolsHaveTimes
    <2>2. d = ToolDrafts(ToolSpan(t))
      BY <1>4
    <2> HIDE DEF t, d, ds
    <2>3. /\ \E R : d \in Seq(R)
          /\ Len(d) = IF t.result = NoResult THEN 2 ELSE 3
          /\ d[1].kind = "span" /\ d[1].wall \in Int
          /\ d[2] = CallDraft(t) /\ d[2].wall \in Int
          /\ t.result # NoResult => d[3] = ResultDraft(t) /\ d[3].wall \in Int
      BY <2>1, <2>2, ToolDraftsAre
    <2> QED  BY <2>3 DEF t, d
  <1>7. Len(ds) = N
    <2> DEFINE V == {SpanDrafts(spans[s]) : s \in DOMAIN spans}
    <2>1. ds \in [1 .. N -> V]
      BY <1>3
    <2> HIDE DEF V, ds
    <2> QED  BY <1>2, <2>1
  <1> HIDE DEF ds
  <1>8. \A s \in 1 .. N : s = 1 \/ \E q \in 1 .. Len(p) : s = q + 1
    <2>1. ASSUME NEW s \in 1 .. N, s # 1 PROVE s - 1 \in 1 .. Len(p) /\ s = (s - 1) + 1
      BY <1>2, <2>1
    <2> QED  BY <2>1
  <1>9. PICK R : \A s \in 1 .. N : ds[s] \in Seq(R)
    <2>1. \A s \in 1 .. N : \E R : ds[s] \in Seq(R)
      BY <1>5, <1>6, <1>8
    <2> QED  BY <2>1, CommonSet
  <1>10. PICK at :
           /\ f \in Seq(R)
           /\ \A s \in 1 .. N : at[s] \in Nat
           /\ \A s \in 1 .. N, j \in Nat : j \in 1 .. Len(ds[s]) =>
                at[s] + j \in 1 .. Len(f) /\ f[at[s] + j] = ds[s][j]
           /\ \A i \in 1 .. Len(f) : \E s \in 1 .. N, j \in Nat :
                j \in 1 .. Len(ds[s]) /\ i = at[s] + j
           /\ \A s, t \in 1 .. N : s < t => at[s] + Len(ds[s]) <= at[t]
    <2>1. Len(ds) \in Nat \ {0} /\ \A s \in 1 .. Len(ds) : ds[s] \in Seq(R)
      BY <1>2, <1>7, <1>9
    <2>2. f \in Seq(R) /\ \E at : Placed(f, ds, at)
      BY <1>1, <2>1, Flattened
    <2> HIDE DEF N
    <2> QED  BY <1>7, <2>2, Zenon DEF Placed
  <1> DEFINE o == at[1] + off
             c == [q \in 1 .. Len(p) |-> at[q + 1] + 2]
  <1>11. /\ 1 \in 1 .. N /\ \A q \in 1 .. Len(p) : q + 1 \in 1 .. N
         /\ Len(f) \in Nat /\ DOMAIN f = 1 .. Len(f)
    BY <1>2, <1>10
  <1>12. o \in Nat /\ \A q \in 1 .. Len(p) : c[q] = at[q + 1] + 2 /\ at[q + 1] \in Nat
    BY <1>5, <1>10, <1>11
  <1> HIDE DEF c, N
  <1>13. ASSUME NEW m \in 1 .. K
         PROVE  o + m \in 1 .. Len(f) /\ f[o + m] = MessageDraft(e, m) /\ f[o + m].wall \in Int
    <2>1. off + m \in Nat /\ off + m \in 1 .. Len(ds[1]) /\ at[1] + (off + m) = o + m
      BY <1>5, <1>10, <1>11
    <2>2. at[1] + (off + m) \in 1 .. Len(f) /\ f[at[1] + (off + m)] = ds[1][off + m]
      BY <1>10, <1>11, <2>1
    <2> QED  BY <1>5, <2>1, <2>2
  <1>14. ASSUME NEW q \in 1 .. Len(p)
         PROVE  /\ c[q] \in 1 .. Len(f) /\ f[c[q]] = CallDraft(p[q])
                /\ p[q].result # NoResult =>
                     c[q] + 1 \in 1 .. Len(f) /\ f[c[q] + 1] = ResultDraft(p[q])
    <2>1. 2 \in 1 .. Len(ds[q + 1]) /\ (p[q].result # NoResult => 3 \in 1 .. Len(ds[q + 1]))
      BY <1>6
    <2>2. c[q] = at[q + 1] + 2 /\ c[q] + 1 = at[q + 1] + 3
      BY <1>12
    <2>3. at[q + 1] + 2 \in 1 .. Len(f) /\ f[at[q + 1] + 2] = ds[q + 1][2]
      BY <1>10, <1>11, <2>1
    <2>4. p[q].result # NoResult =>
            at[q + 1] + 3 \in 1 .. Len(f) /\ f[at[q + 1] + 3] = ds[q + 1][3]
      BY <1>10, <1>11, <2>1
    <2> QED  BY <1>6, <2>2, <2>3, <2>4
  <1>15. ASSUME NEW i \in 1 .. Len(f)
         PROVE  /\ f[i].wall \in Int
                /\ \/ f[i].kind \in {"span", "usage"}
                   \/ \E m \in 1 .. K : i = o + m
                   \/ \E q \in 1 .. Len(p) : i = c[q] \/ (i = c[q] + 1 /\ p[q].result # NoResult)
    <2>1. PICK s \in 1 .. N, j \in Nat : j \in 1 .. Len(ds[s]) /\ i = at[s] + j
      BY <1>10
    <2>2. f[i] = ds[s][j]
      BY <1>10, <2>1
    <2>3. CASE s = 1
      <3>1. CASE j <= off
        <4>1. j \in 1 .. off
          BY <1>5, <2>1, <3>1
        <4> QED  BY <1>5, <2>2, <2>3, <4>1
      <3>2. CASE ~(j <= off)
        <4> DEFINE m == j - off
        <4>1. j \in 1 .. off + K /\ i = at[1] + j /\ at[1] \in Nat /\ off \in Nat /\ K \in Nat
          BY <1>5, <1>10, <2>1, <2>3
        <4>2. m \in 1 .. K /\ j = off + m /\ i = o + m
          BY <3>2, <4>1
        <4> HIDE DEF m, o
        <4> QED  BY <1>13, <4>2
      <3> QED  BY <3>1, <3>2
    <2>4. CASE s # 1
      <3>1. PICK q \in 1 .. Len(p) : s = q + 1
        BY <1>8, <2>4
      <3>2. j \in {1, 2, 3} /\ (j = 3 => p[q].result # NoResult)
        BY <1>6, <2>1, <3>1
      <3>3. CASE j = 1
        BY <1>6, <2>2, <3>1, <3>3
      <3>4. CASE j = 2
        <4>1. i = c[q] /\ f[i].wall \in Int
          BY <1>6, <1>12, <2>1, <2>2, <3>1, <3>4
        <4> QED  BY <4>1
      <3>5. CASE j = 3
        <4>1. i = c[q] + 1 /\ p[q].result # NoResult /\ f[i].wall \in Int
          BY <1>6, <1>12, <2>1, <2>2, <3>1, <3>2, <3>5
        <4> QED  BY <4>1
      <3> QED  BY <3>2, <3>3, <3>4, <3>5
    <2> QED  BY <2>3, <2>4
  <1>16. ASSUME NEW q \in 1 .. Len(p), NEW r \in 1 .. Len(p), q < r PROVE c[q] # c[r]
    <2>1. q + 1 < r + 1
      BY <1>16, <1>2
    <2>2. at[q + 1] + Len(ds[q + 1]) <= at[r + 1]
      BY <1>10, <1>11, <2>1
    <2>3. Len(ds[q + 1]) \in {2, 3}
      BY <1>6
    <2> DEFINE u == at[q + 1]
               v == at[r + 1]
               l == Len(ds[q + 1])
    <2>4. c[q] = u + 2 /\ c[r] = v + 2 /\ u \in Nat /\ v \in Nat
      BY <1>12
    <2>5. u + l <= v /\ l \in {2, 3}
      BY <2>2, <2>3
    <2> HIDE DEF u, v, l
    <2>6. u # v
      BY <2>4, <2>5
    <2> QED  BY <2>4, <2>6
  <1>17. \A q, r \in 1 .. Len(p) : c[q] = c[r] => q = r
    <2>1. \A q, r \in 1 .. Len(p) : q = r \/ q < r \/ r < q
      BY <1>2
    <2> QED  BY <1>16, <2>1
  <1>18. Timed(f)
    BY <1>11, <1>15 DEF Timed
  <1> HIDE DEF o
  <1>19. Laid(e, p, f, o, c)
    BY <1>12, <1>13, <1>14, <1>15, <1>17, <1>18 DEF Laid, K
  <1>20. \E y, z : Laid(e, p, f, y, z)
    BY <1>19
  <1> QED  BY <1>1, <1>20 DEF f, p

---------------------------------------------------------------------------
(* Counting.                                                               *)

\* Two sets of positions with a one-to-one map have one size.
LEMMA Equinumerous ==
  ASSUME NEW S, NEW T, IsFiniteSet(S), NEW f \in [S -> T],
         \A x, y \in S : f[x] = f[y] => x = y,
         \A z \in T : \E x \in S : f[x] = z
  PROVE  IsFiniteSet(T) /\ Cardinality(T) = Cardinality(S)
  <1>1. f \in Bijection(S, T)
    BY DEF Injection, IsInjective, Surjection, Bijection
  <1>2. ExistsBijection(S, T)
    BY <1>1 DEF ExistsBijection
  <1> QED  BY <1>2, FS_Bijection

\* Drafts that are alike are as many behind the sorting as before.
LEMMA SortingKeepsAlike ==
  ASSUME NEW s, Timed(s), NEW kind, NEW x, x.kind = kind
  PROVE  LET q == OfKind(SortedByWall(s), kind)
         IN  Cardinality({d \in DOMAIN q : q[d] = x}) = Cardinality({i \in 1 .. Len(s) : s[i] = x})
  <1> DEFINE M == At(s, kind)
             q == OfKind(SortedByWall(s), kind)
             o == InOrder(M, Earlier(s, M))
             K == Cardinality(M)
             S == {d \in DOMAIN q : q[d] = x}
             T == {i \in 1 .. Len(s) : s[i] = x}
             f == [d \in S |-> o[d]]
  <1>1. /\ K \in Nat /\ DOMAIN q = 1 .. K
        /\ \A m \in 1 .. K : q[m] = s[o[m]]
    BY SortedOfKind
  <1>2. M \subseteq DOMAIN s /\ DOMAIN s = 1 .. Len(s)
    BY DEF At, Timed
  <1>3. Ordering(M, Earlier(s, M))
    BY <1>2, TheyOrder
  <1>4. /\ \A n \in 1 .. K : o[n] \in M
        /\ \A i \in M : \E n \in 1 .. K : o[n] = i
        /\ \A m, n \in 1 .. K : o[m] = o[n] => m = n
    <2> HIDE DEF M
    <2> QED  BY <1>3, InOrderIs
  <1>5. T \subseteq M
    BY <1>2 DEF At
  <1> HIDE DEF M, q, o, K
  <1>6. IsFiniteSet(S)
    <2>1. IsFiniteSet(1 .. K) /\ S \subseteq 1 .. K
      BY <1>1, FS_Interval
    <2> QED  BY <2>1, FS_Subset
  <1>7. f \in [S -> T] /\ \A d \in S : f[d] = o[d]
    BY <1>1, <1>2, <1>4
  <1> HIDE DEF f
  <1>8. \A d, n \in S : f[d] = f[n] => d = n
    BY <1>1, <1>4, <1>7
  <1>9. ASSUME NEW i \in T PROVE \E d \in S : f[d] = i
    <2>1. PICK n \in 1 .. K : o[n] = i
      BY <1>4, <1>5
    <2>2. n \in S
      BY <1>1, <2>1
    <2> QED  BY <1>7, <2>1, <2>2
  <1> HIDE DEF S, T
  <1>10. Cardinality(T) = Cardinality(S)
    BY <1>6, <1>7, <1>8, <1>9, Equinumerous
  <1> QED  BY <1>10 DEF S, T, q

\* Counting from one event on is counting up to another and from there.
LEMMA CountSplits ==
  ASSUME NEW e, NEW x, NEW y, x.id = y.id, NEW kind,
         NEW i \in Nat, NEW m \in Nat, NEW n \in Nat, i < m, m <= n
  PROVE  /\ Count(e, x, kind, i, n) = Count(e, x, kind, i, m - 1) + Count(e, y, kind, m, n)
         /\ Count(e, x, kind, i, m - 1) \in Nat /\ Count(e, y, kind, m, n) \in Nat
  <1> DEFINE S == {k \in i .. m - 1 : e[k].kind = kind /\ e[k].id = x.id}
             T == {k \in m .. n : e[k].kind = kind /\ e[k].id = y.id}
             U == {k \in i .. n : e[k].kind = kind /\ e[k].id = x.id}
  <1>1. U = S \cup T
    <2>1. \A k : k \in i .. n <=> (k \in i .. m - 1 \/ k \in m .. n)
      OBVIOUS
    <2> QED  BY <2>1
  <1>2. S \cap T = {}
    OBVIOUS
  <1>3. IsFiniteSet(S) /\ IsFiniteSet(T)
    <2>1. IsFiniteSet(i .. m - 1) /\ IsFiniteSet(m .. n)
      BY FS_Interval
    <2> QED  BY <2>1, FS_Subset
  <1> HIDE DEF S, T, U
  <1>4. Cardinality(S \cup T) = Cardinality(S) + Cardinality(T) - Cardinality(S \cap T)
    BY <1>3, FS_Union
  <1>5. Cardinality(S \cap T) = 0 /\ Cardinality(S) \in Nat /\ Cardinality(T) \in Nat
    BY <1>2, <1>3, FS_EmptySet, FS_CardinalityType
  <1>6. Cardinality(U) = Cardinality(S) + Cardinality(T)
    BY <1>1, <1>4, <1>5
  <1> QED  BY <1>5, <1>6 DEF Count, S, T, U

\* A result closes at most one call.
LEMMA ClosedByOne ==
  ASSUME NEW e, Log(e), NEW h \in 1 .. Len(e), NEW i \in 1 .. Len(e), NEW j \in 1 .. Len(e),
         Closes(e, h, j), Closes(e, i, j)
  PROVE  h = i
  <1>1. ASSUME NEW a \in 1 .. Len(e), NEW b \in 1 .. Len(e), a < b,
               Closes(e, a, j), Closes(e, b, j)
        PROVE  FALSE
    <2>1. /\ b < j /\ e[a].id = e[b].id
          /\ Balance(e, a, j) = 0 /\ Balance(e, b, j) = 0
          /\ \A k \in a .. j - 1 : Balance(e, a, k) > 0
      <3>1. /\ e[j].id = e[a].id /\ Balance(e, a, j) = 0
            /\ \A k \in a .. j - 1 : Balance(e, a, k) > 0
        BY <1>1, ClosesIs
      <3>2. b < j /\ e[j].id = e[b].id /\ Balance(e, b, j) = 0
        BY <1>1, ClosesIs
      <3> QED  BY <3>1, <3>2, Zenon
    <2>2. b - 1 \in a .. j - 1 /\ a \in Nat /\ b \in Nat /\ j \in Nat
      BY <1>1, <2>1 DEF Log
    <2>3. \A kind \in {"call", "result"} :
            /\ Count(e, e[a], kind, a, j)
                 = Count(e, e[a], kind, a, b - 1) + Count(e, e[b], kind, b, j)
            /\ Count(e, e[a], kind, a, b - 1) \in Nat /\ Count(e, e[b], kind, b, j) \in Nat
      BY <1>1, <2>1, <2>2, CountSplits
    <2>4. Balance(e, a, b - 1) > 0
      BY <2>1, <2>2
    <2> QED  BY <2>1, <2>3, <2>4 DEF Balance
  <1>2. h < i \/ i < h \/ h = i
    BY DEF Log
  <1> QED  BY <1>1, <1>2

---------------------------------------------------------------------------
(* Results and their tools.                                                *)

\* When the draft of result j is dated.
Dated(e, j) ==
    LET open == {i \in Calls(e) : Closes(e, i, j)}
    IN  IF open = {} THEN e[j].wall ELSE Later(e[j].wall, e[CHOOSE i \in open : TRUE].wall)

\* The result of a tool is an event, dated like its draft.
LEMMA ResultIsDated ==
  ASSUME NEW e, Log(e), NEW p, Paired(e, Len(e), p), NEW q \in 1 .. Len(p), p[q].result # NoResult
  PROVE  \E j \in 1 .. Len(e) :
           /\ e[j].kind = "result" /\ p[q].result = e[j] /\ p[q].id = e[j].id
           /\ ToolEnd(p[q]) = Dated(e, j)
           /\ \/ Of(p, q) \in Calls(e) /\ Closes(e, Of(p, q), j)
              \/ Of(p, q) = j /\ {i \in Calls(e) : Closes(e, i, j)} = {}
  <1> DEFINE i == Of(p, q)
  <1>1. /\ i \in 1 .. Len(e) /\ p[q].call = e[i] /\ p[q].id = e[i].id
        /\ \/ p[q].name = "tool" /\ e[i].kind = "call"
           \/ p[q].name = "unknown" /\ e[i].kind = "result" /\ p[q].result = e[i]
    BY DEF Paired, Shaped
  <1>2. DOMAIN e = 1 .. Len(e) /\ \A k \in 1 .. Len(e) : e[k].wall \in Int
    BY DEF Log
  <1>3. ToolEnd(p[q]) = Later(e[i].wall, p[q].result.wall)
    BY <1>1 DEF ToolEnd
  <1>4. CASE p[q].name = "tool" /\ e[i].kind = "call"
    <2>1. PICK j \in 1 .. Len(e) : Closes(e, i, j) /\ p[q].result = e[j]
      BY <1>4 DEF Paired, Matched
    <2>2. e[j].kind = "result" /\ e[j].id = e[i].id
      BY <2>1 DEF Closes
    <2>3. i \in Calls(e)
      BY <1>1, <1>2, <1>4 DEF Calls
    <2> DEFINE open == {k \in Calls(e) : Closes(e, k, j)}
    <2>4. open = {i}
      <3>1. \A k \in Calls(e) : k \in 1 .. Len(e)
        BY <1>2 DEF Calls
      <3>2. \A k \in Calls(e) : Closes(e, k, j) => k = i
        BY <1>1, <2>1, <3>1, ClosedByOne
      <3> QED  BY <2>1, <2>3, <3>2
    <2>5. Dated(e, j) = Later(e[j].wall, e[i].wall)
      <3>1. open # {} /\ (CHOOSE k \in open : TRUE) = i
        BY <2>4
      <3> HIDE DEF i
      <3> QED  BY <3>1 DEF Dated
    <2>6. ToolEnd(p[q]) = Dated(e, j)
      <3> HIDE DEF i
      <3>1. e[i].wall \in Int /\ e[j].wall \in Int
        BY <1>1, <1>2
      <3> QED  BY <1>3, <2>1, <2>5, <3>1 DEF Later
    <2> QED  BY <1>1, <2>1, <2>2, <2>3, <2>6
  <1>5. CASE p[q].name = "unknown" /\ e[i].kind = "result" /\ p[q].result = e[i]
    <2>1. ~\E k \in Calls(e) : Closes(e, k, i)
      BY <1>1, <1>5 DEF Paired, Listed
    <2>2. Dated(e, i) = e[i].wall /\ {k \in Calls(e) : Closes(e, k, i)} = {}
      BY <2>1 DEF Dated
    <2>3. ToolEnd(p[q]) = Dated(e, i)
      BY <1>1, <1>2, <1>3, <1>5, <2>2 DEF Later
    <2> QED  BY <1>1, <1>5, <2>2, <2>3
  <1> QED  BY <1>1, <1>4, <1>5

\* Tools stand for different events.
LEMMA OneToolEach ==
  ASSUME NEW e, Log(e), NEW p, Paired(e, Len(e), p),
         NEW q \in 1 .. Len(p), NEW r \in 1 .. Len(p), Of(p, q) = Of(p, r)
  PROVE  q = r
  <1>1. Len(p) \in Nat
    BY ShapedHas DEF Paired
  <1>2. ASSUME NEW a \in 1 .. Len(p), NEW b \in 1 .. Len(p), a < b PROVE Of(p, a) # Of(p, b)
    <2>1. Of(p, a) < Of(p, b) /\ Of(p, a) \in Nat /\ Of(p, b) \in Nat
      BY <1>2 DEF Paired, Shaped
    <2> QED  BY <2>1
  <1>3. q = r \/ q < r \/ r < q
    BY <1>1
  <1> QED  BY <1>2, <1>3

\* Each result is in one tool.
LEMMA ResultHasTool ==
  ASSUME NEW e, Log(e), NEW p, Paired(e, Len(e), p), NEW j \in 1 .. Len(e), e[j].kind = "result"
  PROVE  /\ \E q \in 1 .. Len(p) : p[q].result = e[j]
         /\ e[j] # NoResult
         /\ \A q, r \in 1 .. Len(p) : p[q].result = e[j] /\ p[r].result = e[j] => q = r
  <1>1. e[j] # NoResult
    BY DEF NoResult
  <1>2. \A k \in 1 .. Len(e) : e[k] = e[j] => k = j
    BY DEF Log
  <1>3. \E q \in 1 .. Len(p) : p[q].result = e[j]
    <2>1. CASE \E i \in Calls(e) : Closes(e, i, j)
      <3>1. PICK i \in Calls(e) : Closes(e, i, j)
        BY <2>1
      <3>2. i \in 1 .. Len(e) /\ e[i].kind = "call"
        BY DEF Calls, Log
      <3>3. PICK q \in 1 .. Len(p) : Of(p, q) = i
        BY <3>2 DEF Paired, Listed
      <3>4. p[q].name = "tool" /\ p[q].id = e[i].id
        BY <3>2, <3>3 DEF Paired, Shaped
      <3>5. /\ i < j /\ e[i].id # "" /\ Balance(e, i, j) = 0
        BY <3>1, <3>2, ClosesIs
      <3>6. p[q].result # NoResult
        <4>1. SUFFICES ASSUME p[q].result = NoResult PROVE FALSE
          OBVIOUS
        <4>2. \A k \in i .. Len(e) : Balance(e, i, k) > 0
          BY <3>3, <3>4, <3>5, <4>1 DEF Paired, Matched
        <4>3. j \in i .. Len(e)
          <5>1. i \in 1 .. Len(e) /\ i < j /\ Len(e) \in Nat
            BY <3>2, <3>5, Zenon DEF Log
          <5> QED  BY <5>1
        <4>4. Balance(e, i, j) > 0 /\ Balance(e, i, j) = 0
          BY <3>5, <4>2, <4>3, Zenon
        <4> QED  BY <4>4
      <3>7. PICK k \in 1 .. Len(e) : Closes(e, i, k) /\ p[q].result = e[k]
        BY <3>3, <3>4, <3>6 DEF Paired, Matched
      <3>8. k = j
        BY <3>1, <3>2, <3>7, ClosesOnce
      <3> QED  BY <3>7, <3>8
    <2>2. CASE ~\E i \in Calls(e) : Closes(e, i, j)
      <3>1. PICK q \in 1 .. Len(p) : Of(p, q) = j
        BY <2>2 DEF Paired, Listed
      <3>2. p[q].result = e[j]
        BY <3>1 DEF Paired, Shaped
      <3> QED  BY <3>2
    <2> QED  BY <2>1, <2>2
  <1>4. ASSUME NEW q \in 1 .. Len(p), NEW r \in 1 .. Len(p), p[q].result = e[j], p[r].result = e[j]
        PROVE  q = r
    <2> DEFINE open == {i \in Calls(e) : Closes(e, i, j)}
    <2>1. \A t \in 1 .. Len(p) : p[t].result = e[j] =>
            \/ Of(p, t) \in open
            \/ Of(p, t) = j /\ open = {}
      <3> SUFFICES ASSUME NEW t \in 1 .. Len(p), p[t].result = e[j]
                   PROVE  Of(p, t) \in open \/ (Of(p, t) = j /\ open = {})
        OBVIOUS
      <3>1. PICK k \in 1 .. Len(e) :
              /\ p[t].result = e[k]
              /\ \/ Of(p, t) \in Calls(e) /\ Closes(e, Of(p, t), k)
                 \/ Of(p, t) = k /\ {i \in Calls(e) : Closes(e, i, k)} = {}
        BY <1>1, ResultIsDated
      <3>2. k = j
        BY <1>2, <3>1
      <3> QED  BY <3>1, <3>2
    <2>2. \A h, i \in open : h = i
      <3>1. \A i \in Calls(e) : i \in 1 .. Len(e)
        BY DEF Calls, Log
      <3> QED  BY <3>1, ClosedByOne
    <2> HIDE DEF open
    <2>3. Of(p, q) = Of(p, r)
      BY <1>4, <2>1, <2>2
    <2> QED  BY <2>3, OneToolEach
  <1> QED  BY <1>1, <1>3, <1>4

---------------------------------------------------------------------------
(* The drafts of a kind.                                                   *)

\* What the drafts say.
LEMMA DraftsSay ==
  /\ \A e, m : /\ MessageDraft(e, m).kind = "message"
               /\ MessageDraft(e, m).wall = OfKind(e, "message")[m].wall
  /\ \A t : /\ CallDraft(t).kind = "call" /\ CallDraft(t).id = t.id
            /\ CallDraft(t).wall = t.call.wall
            /\ t.name = "unknown" => CallDraft(t).text = ""
  /\ \A t : /\ ResultDraft(t).kind = "result" /\ ResultDraft(t).id = t.id
            /\ ResultDraft(t).wall = ToolEnd(t)
  BY DEF MessageDraft, CallDraft, ResultDraft, Draft

\* Where the drafts of each kind are.
LEMMA KindsAre ==
  ASSUME NEW e, NEW p, NEW s, NEW o, NEW c, Laid(e, p, s, o, c), NEW i \in 1 .. Len(s)
  PROVE  /\ s[i].kind = "message" => \E m \in 1 .. Len(OfKind(e, "message")) : i = o + m
         /\ s[i].kind = "call" => \E q \in 1 .. Len(p) : i = c[q]
         /\ s[i].kind = "result" => \E q \in 1 .. Len(p) : i = c[q] + 1 /\ p[q].result # NoResult
  <1>1. ASSUME NEW m \in 1 .. Len(OfKind(e, "message")), i = o + m PROVE s[i].kind = "message"
    <2>1. s[i] = MessageDraft(e, m)
      BY <1>1 DEF Laid
    <2> QED  BY <2>1, DraftsSay
  <1>2. ASSUME NEW q \in 1 .. Len(p), i = c[q] PROVE s[i].kind = "call"
    <2>1. s[i] = CallDraft(p[q])
      BY <1>2 DEF Laid
    <2> QED  BY <2>1, DraftsSay
  <1>3. ASSUME NEW q \in 1 .. Len(p), i = c[q] + 1, p[q].result # NoResult PROVE s[i].kind = "result"
    <2>1. s[i] = ResultDraft(p[q])
      BY <1>3 DEF Laid
    <2> QED  BY <2>1, DraftsSay
  <1>4. \/ s[i].kind \in {"span", "usage"}
        \/ \E m \in 1 .. Len(OfKind(e, "message")) : i = o + m
        \/ \E q \in 1 .. Len(p) : i = c[q] \/ (i = c[q] + 1 /\ p[q].result # NoResult)
    BY DEF Laid
  <1> QED  BY <1>1, <1>2, <1>3, <1>4

\* A call's draft is as often there as the call.
LEMMA CallsAlike ==
  ASSUME NEW e, Log(e), Worded(e), NEW p, Paired(e, Len(e), p),
         NEW s, NEW o, NEW c, Laid(e, p, s, o, c), NEW i \in Calls(e)
  PROVE  Cardinality({x \in 1 .. Len(s) :
              s[x] = Draft(e[i].wall, "call", e[i].id, Serialized(e[i].text))})
         = Cardinality({k \in Calls(e) :
              /\ e[k].wall = e[i].wall /\ e[k].id = e[i].id
              /\ Serialized(e[k].text) = Serialized(e[i].text)})
  <1> DEFINE d == Draft(e[i].wall, "call", e[i].id, Serialized(e[i].text))
             S == {k \in Calls(e) : /\ e[k].wall = e[i].wall /\ e[k].id = e[i].id
                                    /\ Serialized(e[k].text) = Serialized(e[i].text)}
             T == {x \in 1 .. Len(s) : s[x] = d}
             tool(k) == CHOOSE q \in 1 .. Len(p) : Of(p, q) = k
             f == [k \in S |-> c[tool(k)]]
  <1>1. Calls(e) \subseteq 1 .. Len(e) /\ \A k \in Calls(e) : e[k].kind = "call"
    BY DEF Calls, Log
  <1>2. \A k \in Calls(e) : tool(k) \in 1 .. Len(p) /\ Of(p, tool(k)) = k
    <2> SUFFICES ASSUME NEW k \in Calls(e) PROVE tool(k) \in 1 .. Len(p) /\ Of(p, tool(k)) = k
      OBVIOUS
    <2>1. \E q \in 1 .. Len(p) : Of(p, q) = k
      BY <1>1 DEF Paired, Listed
    <2> QED  BY <2>1
  <1> HIDE DEF tool
  <1>3. \A q \in 1 .. Len(p) : Of(p, q) \in Calls(e) =>
          CallDraft(p[q]) = Draft(e[Of(p, q)].wall, "call", e[Of(p, q)].id, Serialized(e[Of(p, q)].text))
    <2> SUFFICES ASSUME NEW q \in 1 .. Len(p), Of(p, q) \in Calls(e)
                 PROVE  CallDraft(p[q]) = Draft(e[Of(p, q)].wall, "call", e[Of(p, q)].id,
                                                Serialized(e[Of(p, q)].text))
      OBVIOUS
    <2>1. p[q].call = e[Of(p, q)] /\ p[q].id = e[Of(p, q)].id /\ p[q].name = "tool"
      BY <1>1 DEF Paired, Shaped
    <2> QED  BY <2>1 DEF CallDraft
  <1>4. \A q \in 1 .. Len(p) : Of(p, q) \notin Calls(e) => CallDraft(p[q]).text = ""
    <2> SUFFICES ASSUME NEW q \in 1 .. Len(p), Of(p, q) \notin Calls(e)
                 PROVE  CallDraft(p[q]).text = ""
      OBVIOUS
    <2>1. p[q].name = "unknown"
      BY DEF Paired, Shaped, Calls, Log
    <2> QED  BY <2>1, DraftsSay
  <1>5. Serialized(e[i].text) # ""
    BY <1>1 DEF Worded, Serialized
  <1>6. IsFiniteSet(S)
    <2>1. IsFiniteSet(1 .. Len(e)) /\ S \subseteq 1 .. Len(e)
      BY <1>1, FS_Interval DEF Log
    <2> QED  BY <2>1, FS_Subset
  <1>7. f \in [S -> T] /\ \A k \in S : f[k] = c[tool(k)]
    <2>1. ASSUME NEW k \in S PROVE c[tool(k)] \in T
      <3>1. /\ c[tool(k)] \in 1 .. Len(s) /\ s[c[tool(k)]] = CallDraft(p[tool(k)])
        BY <1>2 DEF Laid
      <3>2. CallDraft(p[tool(k)]) = Draft(e[k].wall, "call", e[k].id, Serialized(e[k].text))
        BY <1>2, <1>3
      <3> QED  BY <3>1, <3>2
    <2> QED  BY <2>1
  <1> HIDE DEF f
  <1>8. \A k, l \in S : f[k] = f[l] => k = l
    <2> SUFFICES ASSUME NEW k \in S, NEW l \in S, f[k] = f[l] PROVE k = l
      OBVIOUS
    <2>1. tool(k) = tool(l)
      BY <1>2, <1>7 DEF Laid
    <2> QED  BY <1>2, <2>1
  <1>9. ASSUME NEW x \in T PROVE \E k \in S : f[k] = x
    <2>1. s[x].kind = "call" /\ s[x].text = Serialized(e[i].text) /\ x \in 1 .. Len(s)
      BY DEF Draft
    <2>2. PICK q \in 1 .. Len(p) : x = c[q]
      BY <2>1, KindsAre
    <2>3. s[x] = CallDraft(p[q])
      BY <2>2 DEF Laid
    <2>4. Of(p, q) \in Calls(e)
      BY <1>4, <1>5, <2>1, <2>3
    <2> DEFINE k == Of(p, q)
    <2>5. Draft(e[k].wall, "call", e[k].id, Serialized(e[k].text)) = d
      BY <1>3, <2>3, <2>4
    <2>6. k \in S
      BY <2>4, <2>5 DEF Draft
    <2>7. tool(k) = q
      BY <1>2, <2>4, OneToolEach
    <2> QED  BY <1>7, <2>2, <2>6, <2>7
  <1> HIDE DEF S, T
  <1>10. Cardinality(T) = Cardinality(S)
    BY <1>6, <1>7, <1>8, <1>9, Equinumerous
  <1> QED  BY <1>10 DEF S, T

\* A result's draft is as often there as the result.
LEMMA ResultsAlike ==
  ASSUME NEW e, Log(e), NEW p, Paired(e, Len(e), p),
         NEW s, NEW o, NEW c, Laid(e, p, s, o, c), NEW j \in 1 .. Len(e), e[j].kind = "result"
  PROVE  Cardinality({x \in 1 .. Len(s) :
              s[x] = Draft(Dated(e, j), "result", e[j].id, Serialized(e[j].text))})
         = Cardinality({k \in 1 .. Len(e) :
              /\ e[k].kind = "result" /\ Dated(e, k) = Dated(e, j) /\ e[k].id = e[j].id
              /\ Serialized(e[k].text) = Serialized(e[j].text)})
  <1> DEFINE d == Draft(Dated(e, j), "result", e[j].id, Serialized(e[j].text))
             S == {k \in 1 .. Len(e) : /\ e[k].kind = "result" /\ Dated(e, k) = Dated(e, j)
                                       /\ e[k].id = e[j].id
                                       /\ Serialized(e[k].text) = Serialized(e[j].text)}
             T == {x \in 1 .. Len(s) : s[x] = d}
             tool(k) == CHOOSE q \in 1 .. Len(p) : p[q].result = e[k]
             f == [k \in S |-> c[tool(k)] + 1]
  <1>1. \A k \in S : tool(k) \in 1 .. Len(p) /\ p[tool(k)].result = e[k] /\ e[k] # NoResult
    <2> SUFFICES ASSUME NEW k \in S
                 PROVE  tool(k) \in 1 .. Len(p) /\ p[tool(k)].result = e[k] /\ e[k] # NoResult
      OBVIOUS
    <2>1. (\E q \in 1 .. Len(p) : p[q].result = e[k]) /\ e[k] # NoResult
      BY ResultHasTool
    <2> QED  BY <2>1
  <1> HIDE DEF tool
  <1>2. \A k, l \in 1 .. Len(e) : e[k] = e[l] => k = l
    BY DEF Log
  <1>3. \A q \in 1 .. Len(p) : p[q].result # NoResult =>
          \E k \in 1 .. Len(e) :
            /\ e[k].kind = "result" /\ p[q].result = e[k]
            /\ ResultDraft(p[q]) = Draft(Dated(e, k), "result", e[k].id, Serialized(e[k].text))
    <2> SUFFICES ASSUME NEW q \in 1 .. Len(p), p[q].result # NoResult
                 PROVE  \E k \in 1 .. Len(e) :
                          /\ e[k].kind = "result" /\ p[q].result = e[k]
                          /\ ResultDraft(p[q]) = Draft(Dated(e, k), "result", e[k].id,
                                                       Serialized(e[k].text))
      OBVIOUS
    <2>1. PICK k \in 1 .. Len(e) :
            /\ e[k].kind = "result" /\ p[q].result = e[k] /\ p[q].id = e[k].id
            /\ ToolEnd(p[q]) = Dated(e, k)
      BY ResultIsDated
    <2> QED  BY <2>1 DEF ResultDraft
  <1>4. IsFiniteSet(S)
    <2>1. IsFiniteSet(1 .. Len(e)) /\ S \subseteq 1 .. Len(e)
      BY FS_Interval DEF Log
    <2> QED  BY <2>1, FS_Subset
  <1>5. \A q \in 1 .. Len(p) : c[q] \in Nat
    BY DEF Laid
  <1>6. f \in [S -> T] /\ \A k \in S : f[k] = c[tool(k)] + 1
    <2>1. ASSUME NEW k \in S PROVE c[tool(k)] + 1 \in T
      <3>1. /\ c[tool(k)] + 1 \in 1 .. Len(s) /\ s[c[tool(k)] + 1] = ResultDraft(p[tool(k)])
        BY <1>1 DEF Laid
      <3>2. ResultDraft(p[tool(k)]) = Draft(Dated(e, k), "result", e[k].id, Serialized(e[k].text))
        BY <1>1, <1>2, <1>3
      <3> QED  BY <3>1, <3>2
    <2> QED  BY <2>1
  <1> HIDE DEF f
  <1>7. \A k, l \in S : f[k] = f[l] => k = l
    <2> SUFFICES ASSUME NEW k \in S, NEW l \in S, f[k] = f[l] PROVE k = l
      OBVIOUS
    <2>1. c[tool(k)] = c[tool(l)]
      BY <1>1, <1>5, <1>6
    <2>2. tool(k) = tool(l)
      BY <1>1, <2>1 DEF Laid
    <2> QED  BY <1>1, <1>2, <2>2
  <1>8. ASSUME NEW x \in T PROVE \E k \in S : f[k] = x
    <2>1. s[x].kind = "result" /\ x \in 1 .. Len(s) /\ s[x] = d
      BY DEF Draft
    <2>2. PICK q \in 1 .. Len(p) : x = c[q] + 1 /\ p[q].result # NoResult
      BY <2>1, KindsAre
    <2>3. s[x] = ResultDraft(p[q])
      BY <2>2 DEF Laid
    <2>4. PICK k \in 1 .. Len(e) :
            /\ e[k].kind = "result" /\ p[q].result = e[k]
            /\ ResultDraft(p[q]) = Draft(Dated(e, k), "result", e[k].id, Serialized(e[k].text))
      BY <1>3, <2>2
    <2>5. k \in S
      <3>1. Draft(Dated(e, k), "result", e[k].id, Serialized(e[k].text)) = d
        BY <2>1, <2>3, <2>4
      <3> QED  BY <2>4, <3>1 DEF Draft
    <2>6. tool(k) = q
      BY <1>1, <2>4, <2>5, ResultHasTool
    <2> QED  BY <1>6, <2>2, <2>5, <2>6
  <1> HIDE DEF S, T
  <1>9. Cardinality(T) = Cardinality(S)
    BY <1>4, <1>6, <1>7, <1>8, Equinumerous
  <1> QED  BY <1>9 DEF S, T

---------------------------------------------------------------------------
(* What comes back from a trace.                                           *)

\* What is of a kind is a sequence, whatever it is of.
LEMMA OfKindIsAFunction ==
  ASSUME NEW s, NEW kind
  PROVE  OfKind(s, kind) = [m \in DOMAIN OfKind(s, kind) |-> OfKind(s, kind)[m]]
  BY DEF OfKind

\* The draft of a message has the message's time.
LEMMA MessageHas ==
  ASSUME NEW d, NEW u, NEW v, d = Draft(u, "message", "", v)
  PROVE  d.wall = u /\ d.kind = "message"
  BY DEF Draft

\* The messages come back in the order of their times.
LEMMA MessagesReturn ==
  ASSUME NEW e, Log(e), NEW p, NEW s, NEW o, NEW c, Laid(e, p, s, o, c)
  PROVE  OfKind(SortedByWall(s), "message") =
           [m \in DOMAIN OfKind(e, "message") |->
              LET x == OfKind(SortedByWall(e), "message")[m]
              IN  Draft(x.wall, "message", "", x.text)]
  <1> DEFINE M == At(e, "message")
             T == At(s, "message")
             K == Cardinality(M)
             a == InOrder(M, Sooner(M))
             b == InOrder(M, Earlier(e, M))
             g == InOrder(T, Earlier(s, T))
             f == [x \in T |-> a[x - o]]
             q == OfKind(SortedByWall(s), "message")
             r == OfKind(SortedByWall(e), "message")
  <1>1. Timed(e) /\ Timed(s) /\ DOMAIN s = 1 .. Len(s) /\ DOMAIN e = 1 .. Len(e)
    BY DEF Log, Timed, Laid
  <1>2. /\ K \in Nat /\ Len(OfKind(e, "message")) = K /\ DOMAIN OfKind(e, "message") = 1 .. K
        /\ \A m \in 1 .. K : a[m] \in M /\ OfKind(e, "message")[m] = e[a[m]]
    BY <1>1, OfKindIs
  <1>3. /\ DOMAIN r = 1 .. K /\ \A m \in 1 .. K : r[m] = e[b[m]]
    BY <1>1, SortedOfKind
  <1>4. /\ DOMAIN q = 1 .. Cardinality(T) /\ Cardinality(T) \in Nat
        /\ \A m \in 1 .. Cardinality(T) : q[m] = s[g[m]]
    BY <1>1, SortedOfKind
  <1>5. /\ Ordering(M, Sooner(M)) /\ Ordering(M, Earlier(e, M)) /\ Ordering(T, Earlier(s, T))
    <2>1. M \subseteq DOMAIN e /\ T \subseteq DOMAIN s
      BY DEF At
    <2> QED  BY <1>1, <2>1, TheyOrder
  <1>6. \A m \in 1 .. K : s[o + m] = Draft(e[a[m]].wall, "message", "", e[a[m]].text)
    BY <1>2 DEF Laid, MessageDraft
  <1>7. o \in Nat /\ \A m \in 1 .. K : o + m \in 1 .. Len(s)
    BY <1>2 DEF Laid
  <1>8. \A x \in T : x - o \in 1 .. K /\ x = o + (x - o)
    <2> SUFFICES ASSUME NEW x \in T PROVE x - o \in 1 .. K /\ x = o + (x - o)
      OBVIOUS
    <2>1. x \in 1 .. Len(s) /\ s[x].kind = "message"
      BY <1>1 DEF At
    <2>2. PICK m \in 1 .. K : x = o + m
      BY <1>2, <2>1, KindsAre
    <2> HIDE DEF M, K, T, a, b, g, f, q, r
    <2>3. o \in Nat /\ m \in Int
      BY <1>2, <1>7
    <2>4. x - o = m /\ x = o + (x - o)
      BY <2>2, <2>3
    <2> QED  BY <2>4
  <1>9. \A m \in 1 .. K : o + m \in T /\ (o + m) - o = m
    <2> SUFFICES ASSUME NEW m \in 1 .. K PROVE o + m \in T /\ (o + m) - o = m
      OBVIOUS
    <2>1. s[o + m].kind = "message" /\ o + m \in 1 .. Len(s) /\ o \in Nat /\ m \in Int
      <3> HIDE DEF M, K, T, a, b, g, f, q, r
      <3>1. o + m \in 1 .. Len(s) /\ o \in Nat /\ m \in Int
        BY <1>2, <1>7
      <3>2. s[o + m].kind = "message"
        <4> DEFINE d == s[o + m]
                   u == e[a[m]].wall
                   v == e[a[m]].text
        <4>1. d = Draft(u, "message", "", v)
          BY <1>6
        <4> HIDE DEF d, u, v
        <4>2. d.kind = "message"
          BY <4>1, MessageHas
        <4> QED  BY <4>2 DEF d
      <3> QED  BY <3>1, <3>2
    <2>2. o + m \in T
      BY <1>1, <2>1 DEF At
    <2>3. (o + m) - o = m
      BY <2>1
    <2> QED  BY <2>2, <2>3
  <1>10. /\ \A i \in M : \E n \in 1 .. K : a[n] = i
        /\ \A m, n \in 1 .. K : m < n <=> a[m] \in Sooner(M)[a[n]]
    <2> HIDE DEF M
    <2> QED  BY <1>5, InOrderIs
  <1>11. \A n \in 1 .. K : b[n] \in M
    <2> HIDE DEF M
    <2> QED  BY <1>5, InOrderIs
  <1>12. \A n \in 1 .. Cardinality(T) : g[n] \in T
    <2> HIDE DEF T
    <2> QED  BY <1>5, InOrderIs
  <1>13. M \subseteq Nat /\ \A x \in M : e[x].wall \in Int
    BY DEF At, Log
  <1>14. T \subseteq Nat
    BY <1>1 DEF At
  <1>15. \A x \in T : s[x] = Draft(e[a[x - o]].wall, "message", "", e[a[x - o]].text)
    BY <1>6, <1>8
  <1> HIDE DEF T, M, a
  <1>16. f \in [T -> M] /\ \A x \in T : f[x] = a[x - o]
    BY <1>2, <1>8
  <1> HIDE DEF f
  <1>17. \A y \in M : \E x \in T : f[x] = y
    <2> SUFFICES ASSUME NEW y \in M PROVE \E x \in T : f[x] = y
      OBVIOUS
    <2>1. PICK n \in 1 .. K : a[n] = y
      BY <1>10
    <2>2. o + n \in T /\ f[o + n] = y
      BY <1>9, <1>16, <2>1
    <2> QED  BY <2>2
  <1>18. \A x, y \in T : x \in Earlier(s, T)[y] <=> f[x] \in Earlier(e, M)[f[y]]
    <2> SUFFICES ASSUME NEW x \in T, NEW y \in T
                 PROVE  x \in Earlier(s, T)[y] <=> f[x] \in Earlier(e, M)[f[y]]
      OBVIOUS
    <2>1. x \in Earlier(s, T)[y] <=> \/ s[x].wall < s[y].wall
                                     \/ s[x].wall = s[y].wall /\ x < y
      BY DEF Earlier
    <2>2. f[x] \in M /\ f[y] \in M
      BY <1>16
    <2>3. f[x] \in Earlier(e, M)[f[y]] <=> \/ e[f[x]].wall < e[f[y]].wall
                                           \/ e[f[x]].wall = e[f[y]].wall /\ f[x] < f[y]
      BY <2>2 DEF Earlier
    <2>4. s[x].wall = e[f[x]].wall /\ s[y].wall = e[f[y]].wall
      <3>1. ASSUME NEW z \in T PROVE s[z].wall = e[f[z]].wall
        <4> DEFINE d == s[z]
                   u == e[f[z]].wall
                   v == e[f[z]].text
        <4>1. d = Draft(u, "message", "", v)
          BY <1>15, <1>16
        <4> HIDE DEF d, u, v
        <4>2. d.wall = u
          BY <4>1, MessageHas
        <4> QED  BY <4>2 DEF d, u
      <3> QED  BY <3>1
    <2>5. x < y <=> f[x] < f[y]
      <3>1. x - o < y - o <=> a[x - o] \in Sooner(M)[a[y - o]]
        BY <1>8, <1>10
      <3>2. a[x - o] \in Sooner(M)[a[y - o]] <=> a[x - o] < a[y - o]
        BY <1>2, <1>8 DEF Sooner
      <3>3. x < y <=> x - o < y - o
        <4>1. x \in Nat /\ y \in Nat /\ o \in Nat
          BY <1>7, <1>14
        <4> QED  BY <4>1
      <3> QED  BY <1>16, <3>1, <3>2, <3>3
    <2> QED  BY <2>1, <2>3, <2>4, <2>5
  <1>19. /\ Cardinality(M) = Cardinality(T)
         /\ \A n \in 1 .. Cardinality(T) : b[n] = f[g[n]]
    BY <1>5, <1>16, <1>17, <1>18, SameOrder
  <1> HIDE DEF q, r, b, g
  <1>20. ASSUME NEW m \in 1 .. K
         PROVE  q[m] = Draft(r[m].wall, "message", "", r[m].text)
    <2>1. q[m] = s[g[m]] /\ g[m] \in T /\ b[m] = f[g[m]] /\ r[m] = e[b[m]]
      BY <1>3, <1>4, <1>12, <1>19
    <2>2. s[g[m]] = Draft(e[f[g[m]]].wall, "message", "", e[f[g[m]]].text)
      BY <1>15, <1>16, <2>1
    <2> QED  BY <2>1, <2>2
  <1>21. q = [m \in DOMAIN q |-> q[m]]
    BY OfKindIsAFunction DEF q
  <1>22. q = [m \in DOMAIN OfKind(e, "message") |-> Draft(r[m].wall, "message", "", r[m].text)]
    BY <1>2, <1>4, <1>19, <1>20, <1>21
  <1> QED  BY <1>22 DEF q, r

\* In the sorted drafts no result precedes its call.
LEMMA CallsPrecede ==
  ASSUME NEW e, Log(e), NEW p, Paired(e, Len(e), p),
         NEW s, NEW o, NEW c, Laid(e, p, s, o, c), NEW x, NEW n \in 1 .. Len(s)
  PROVE  Count(SortedByWall(s), x, "result", 1, n) <= Count(SortedByWall(s), x, "call", 1, n)
  <1> DEFINE t == SortedByWall(s)
             N == Len(s)
             w == InOrder(1 .. N, Earlier(s, 1 .. N))
             S == {k \in 1 .. n : t[k].kind = "result" /\ t[k].id = x.id}
             T == {k \in 1 .. n : t[k].kind = "call" /\ t[k].id = x.id}
             tool(k) == CHOOSE q \in 1 .. Len(p) : w[k] = c[q] + 1 /\ p[q].result # NoResult
             place(q) == CHOOSE m \in 1 .. N : w[m] = c[q]
             f == [k \in S |-> place(tool(k))]
  <1>1. /\ N \in Nat
        /\ \A k \in 1 .. N : w[k] \in 1 .. N /\ t[k] = s[w[k]]
        /\ \A i \in 1 .. N : \E k \in 1 .. N : w[k] = i
        /\ \A k, l \in 1 .. N : w[k] = w[l] => k = l
        /\ \A k, l \in 1 .. N : k < l <=> \/ s[w[k]].wall < s[w[l]].wall
                                          \/ s[w[k]].wall = s[w[l]].wall /\ w[k] < w[l]
    BY SortingIs DEF Laid
  <1> HIDE DEF t, w, N
  <1>2. n \in 1 .. N /\ 1 .. n \subseteq 1 .. N
    BY <1>1 DEF N
  <1>3. \A k \in S : tool(k) \in 1 .. Len(p) /\ w[k] = c[tool(k)] + 1 /\ p[tool(k)].result # NoResult
    <2> SUFFICES ASSUME NEW k \in S
                 PROVE  /\ tool(k) \in 1 .. Len(p) /\ w[k] = c[tool(k)] + 1
                        /\ p[tool(k)].result # NoResult
      OBVIOUS
    <2>1. w[k] \in 1 .. N /\ s[w[k]].kind = "result"
      BY <1>1, <1>2
    <2>2. \E q \in 1 .. Len(p) : w[k] = c[q] + 1 /\ p[q].result # NoResult
      BY <2>1, KindsAre DEF N
    <2> QED  BY <2>2
  <1> HIDE DEF tool
  <1>4. \A q \in 1 .. Len(p) : /\ c[q] \in 1 .. N /\ s[c[q]] = CallDraft(p[q])
                               /\ place(q) \in 1 .. N /\ w[place(q)] = c[q]
    <2> SUFFICES ASSUME NEW q \in 1 .. Len(p)
                 PROVE  /\ c[q] \in 1 .. N /\ s[c[q]] = CallDraft(p[q])
                        /\ place(q) \in 1 .. N /\ w[place(q)] = c[q]
      OBVIOUS
    <2>1. c[q] \in 1 .. N /\ s[c[q]] = CallDraft(p[q])
      BY DEF Laid, N
    <2>2. \E m \in 1 .. N : w[m] = c[q]
      BY <1>1, <2>1
    <2> QED  BY <2>1, <2>2
  <1> HIDE DEF place
  <1>5. ASSUME NEW k \in S PROVE place(tool(k)) \in T
    <2> DEFINE q == tool(k)
               m == place(q)
    <2>1. q \in 1 .. Len(p) /\ w[k] = c[q] + 1 /\ p[q].result # NoResult
      BY <1>3
    <2> HIDE DEF q
    <2>2. /\ m \in 1 .. N /\ w[m] = c[q] /\ s[c[q]] = CallDraft(p[q])
          /\ s[c[q] + 1] = ResultDraft(p[q]) /\ c[q] \in Nat
      BY <1>4, <2>1 DEF Laid
    <2> HIDE DEF m
    <2>3. /\ t[m].kind = "call" /\ t[m].id = p[q].id /\ s[w[m]].wall = p[q].call.wall
      <3>1. t[m] = CallDraft(p[q]) /\ s[w[m]] = CallDraft(p[q])
        BY <1>1, <2>2
      <3> QED  BY <3>1, DraftsSay
    <2>4. /\ t[k].id = p[q].id /\ s[w[k]].wall = ToolEnd(p[q]) /\ k \in 1 .. N
      <3>1. k \in 1 .. N
        BY <1>2
      <3>2. t[k] = ResultDraft(p[q]) /\ s[w[k]] = ResultDraft(p[q])
        BY <1>1, <2>1, <2>2, <3>1
      <3> QED  BY <3>1, <3>2, DraftsSay
    <2>5. p[q].call.wall \in Int /\ p[q].result.wall \in Int
      BY <2>1, ToolsHaveTimes
    <2>6. p[q].call.wall <= ToolEnd(p[q]) /\ ToolEnd(p[q]) \in Int
      BY <2>1, <2>5 DEF ToolEnd, Later
    <2>7. w[m] < w[k]
      BY <2>1, <2>2
    <2>8. m < k
      <3>1. s[w[m]].wall < s[w[k]].wall \/ (s[w[m]].wall = s[w[k]].wall /\ w[m] < w[k])
        <4>1. s[w[m]].wall <= s[w[k]].wall /\ s[w[m]].wall \in Int /\ s[w[k]].wall \in Int
          BY <2>3, <2>4, <2>5, <2>6
        <4> QED  BY <2>7, <4>1
      <3> QED  BY <1>1, <2>2, <2>4, <3>1
    <2>9. m \in 1 .. n
      BY <1>2, <2>2, <2>8
    <2> QED  BY <2>3, <2>4, <2>9 DEF m, q
  <1>6. IsFiniteSet(S) /\ IsFiniteSet(T)
    <2>1. IsFiniteSet(1 .. n) /\ S \subseteq 1 .. n /\ T \subseteq 1 .. n
      BY <1>1, <1>2, FS_Interval
    <2> QED  BY <2>1, FS_Subset
  <1>7. f \in [S -> T] /\ \A k \in S : f[k] = place(tool(k))
    BY <1>5
  <1> HIDE DEF f
  <1>8. \A k, l \in S : f[k] = f[l] => k = l
    <2> SUFFICES ASSUME NEW k \in S, NEW l \in S, f[k] = f[l] PROVE k = l
      OBVIOUS
    <2>1. c[tool(k)] = c[tool(l)]
      <3>1. tool(k) \in 1 .. Len(p) /\ tool(l) \in 1 .. Len(p) /\ place(tool(k)) = place(tool(l))
        BY <1>3, <1>7
      <3>2. w[place(tool(k))] = c[tool(k)] /\ w[place(tool(l))] = c[tool(l)]
        BY <1>4, <3>1
      <3> QED  BY <3>1, <3>2, Zenon
    <2>2. w[k] = w[l] /\ k \in 1 .. N /\ l \in 1 .. N
      BY <1>2, <1>3, <2>1
    <2> QED  BY <1>1, <2>2
  <1> HIDE DEF S, T
  <1>9. Cardinality(S) <= Cardinality(T)
    <2>1. f \in Injection(S, T)
      BY <1>7, <1>8 DEF Injection, IsInjective
    <2> QED  BY <1>6, <2>1, FS_Injection
  <1> QED  BY <1>9 DEF S, T, t, Count

\* What an exported trace brings back of any recorded session.
LEMMA TraceReturns ==
  ASSUME NEW e, Log(e), Len(e) # 0, Worded(e), Export(e) # NoTrace
  PROVE  /\ Drafts(e, "message") =
              [m \in DOMAIN OfKind(e, "message") |->
                  LET x == OfKind(SortedByWall(e), "message")[m]
                  IN  Draft(x.wall, "message", "", x.text)]
         /\ \A i \in Calls(e) :
              Alike(e, "call", e[i].wall, e[i].id, Serialized(e[i].text))
              = Cardinality({k \in Calls(e) :
                    /\ e[k].wall = e[i].wall /\ e[k].id = e[i].id
                    /\ Serialized(e[k].text) = Serialized(e[i].text)})
         /\ \A j \in DOMAIN e : e[j].kind = "result" =>
              Alike(e, "result", Dated(e, j), e[j].id, Serialized(e[j].text))
              = Cardinality({k \in DOMAIN e :
                    /\ e[k].kind = "result" /\ Dated(e, k) = Dated(e, j)
                    /\ e[k].id = e[j].id
                    /\ Serialized(e[k].text) = Serialized(e[j].text)})
         /\ LET drafts == Import(Export(e))
            IN  \A d \in DOMAIN drafts :
                  Count(drafts, drafts[d], "result", 1, d) <= Count(drafts, drafts[d], "call", 1, d)
  <1> DEFINE p == Tools(e)
             s == Flat(e)
  <1>1. Import(Export(e)) = SortedByWall(s)
    BY DraftsAre
  <1>2. PICK o, c : Laid(e, p, s, o, c)
    BY DraftsAre
  <1>3. Paired(e, Len(e), p)
    BY ToolsKept
  <1> HIDE DEF p, s
  <1>4. Timed(s)
    BY <1>2 DEF Laid
  <1>5. DOMAIN e = 1 .. Len(e)
    BY DEF Log
  <1>6. \A kind : Drafts(e, kind) = OfKind(SortedByWall(s), kind)
    BY <1>1 DEF Drafts
  <1>7. ASSUME NEW kind, NEW wall, NEW id, NEW text
        PROVE  Alike(e, kind, wall, id, text)
                 = Cardinality({x \in 1 .. Len(s) : s[x] = Draft(wall, kind, id, text)})
    <2> DEFINE d == Draft(wall, kind, id, text)
    <2>1. d.kind = kind
      BY DEF Draft
    <2>0. Alike(e, kind, wall, id, text)
            = Cardinality({x \in DOMAIN Drafts(e, kind) : Drafts(e, kind)[x] = d})
      BY DEF Alike
    <2> HIDE DEF d
    <2>2. LET q == OfKind(SortedByWall(s), kind)
          IN  Cardinality({x \in DOMAIN q : q[x] = d}) = Cardinality({i \in 1 .. Len(s) : s[i] = d})
      BY <1>4, <2>1, SortingKeepsAlike
    <2>3. Drafts(e, kind) = OfKind(SortedByWall(s), kind)
      BY <1>6
    <2>4. Alike(e, kind, wall, id, text) = Cardinality({i \in 1 .. Len(s) : s[i] = d})
      BY <2>0, <2>2, <2>3
    <2> QED  BY <2>4 DEF d
  <1>8. Drafts(e, "message") =
          [m \in DOMAIN OfKind(e, "message") |->
              LET x == OfKind(SortedByWall(e), "message")[m]
              IN  Draft(x.wall, "message", "", x.text)]
    <2>1. Drafts(e, "message") = OfKind(SortedByWall(s), "message")
      BY <1>6
    <2>2. OfKind(SortedByWall(s), "message") =
            [m \in DOMAIN OfKind(e, "message") |->
                LET x == OfKind(SortedByWall(e), "message")[m]
                IN  Draft(x.wall, "message", "", x.text)]
      BY <1>2, MessagesReturn
    <2> QED  BY <2>1, <2>2
  <1>9. ASSUME NEW i \in Calls(e)
        PROVE  Alike(e, "call", e[i].wall, e[i].id, Serialized(e[i].text))
               = Cardinality({k \in Calls(e) :
                     /\ e[k].wall = e[i].wall /\ e[k].id = e[i].id
                     /\ Serialized(e[k].text) = Serialized(e[i].text)})
    <2>1. Cardinality({x \in 1 .. Len(s) :
                s[x] = Draft(e[i].wall, "call", e[i].id, Serialized(e[i].text))})
          = Cardinality({k \in Calls(e) :
                /\ e[k].wall = e[i].wall /\ e[k].id = e[i].id
                /\ Serialized(e[k].text) = Serialized(e[i].text)})
      BY <1>2, <1>3, CallsAlike
    <2>2. Alike(e, "call", e[i].wall, e[i].id, Serialized(e[i].text))
          = Cardinality({x \in 1 .. Len(s) :
                s[x] = Draft(e[i].wall, "call", e[i].id, Serialized(e[i].text))})
      BY <1>7
    <2> QED  BY <2>1, <2>2, Zenon
  <1>10. ASSUME NEW j \in DOMAIN e, e[j].kind = "result"
         PROVE  Alike(e, "result", Dated(e, j), e[j].id, Serialized(e[j].text))
                = Cardinality({k \in DOMAIN e :
                      /\ e[k].kind = "result" /\ Dated(e, k) = Dated(e, j)
                      /\ e[k].id = e[j].id
                      /\ Serialized(e[k].text) = Serialized(e[j].text)})
    <2>1. Cardinality({x \in 1 .. Len(s) :
                s[x] = Draft(Dated(e, j), "result", e[j].id, Serialized(e[j].text))})
          = Cardinality({k \in 1 .. Len(e) :
                /\ e[k].kind = "result" /\ Dated(e, k) = Dated(e, j) /\ e[k].id = e[j].id
                /\ Serialized(e[k].text) = Serialized(e[j].text)})
      BY <1>2, <1>3, <1>5, <1>10, ResultsAlike
    <2>2. Alike(e, "result", Dated(e, j), e[j].id, Serialized(e[j].text))
          = Cardinality({x \in 1 .. Len(s) :
                s[x] = Draft(Dated(e, j), "result", e[j].id, Serialized(e[j].text))})
      BY <1>7
    <2> QED  BY <1>5, <2>1, <2>2, Zenon
  <1>11. DOMAIN SortedByWall(s) = 1 .. Len(s)
    BY <1>4, SortingIs
  <1>12. LET drafts == SortedByWall(s)
         IN  \A d \in DOMAIN drafts :
               Count(drafts, drafts[d], "result", 1, d) <= Count(drafts, drafts[d], "call", 1, d)
    BY <1>2, <1>3, <1>11, CallsPrecede
  <1> QED  BY <1>1, <1>8, <1>9, <1>10, <1>12

\* A trace that is exported and imported again brings back the messages in the order of their
\* times, each call and each result as often as it was recorded, and no result before its
\* call, for every transcript and whatever the clock showed.
THEOREM RoundTrips == Spec => []RoundTrip
  <1>1. ASSUME StreamInv PROVE RoundTrip
    <2>1. ASSUME RanItsCourse, NEW walls \in Stamps
          PROVE  Log(Recorded(walls)) /\ Len(Recorded(walls)) # 0 /\ Worded(Recorded(walls))
      <3>1. observer = "stream" /\ RolloutInv
        BY <1>1, <2>1 DEF StreamInv, NoStream, RanItsCourse
      <3>2. \E n \in 0 .. Len(file) : Tells(n)
        BY <2>1, <3>1 DEF RolloutInv, Telling, RanItsCourse
      <3> QED  BY <3>1, <3>2, RecordedIsALog
    <2> QED  BY <2>1, TraceReturns, Zenon DEF RoundTrip, Dated
  <1> QED  BY <1>1, ObserversKept, PTL DEF ObserversInv

---------------------------------------------------------------------------
(* Paths and their order.                                                  *)

\* A path and what is above it.
Chain(n) == Ancestors[n] \cup {n}

\* A directory and all that is below it.
Branch(d) == Below(d) \cup {d}

\* The order of the names of two paths, where they part.
Precedes(a, b) ==
    \A m \in Chain(a), n \in Chain(b) : Parent[m] = Parent[n] => m = n \/ Before(m, n)

\* Of two members of a chain one is above the other.
LEMMA ChainIsOrdered ==
  ASSUME NEW n \in Nodes, NEW a \in Chain(n), NEW b \in Chain(n)
  PROVE  a = b \/ a \in Ancestors[b] \/ b \in Ancestors[a]
  <1> DEFINE Good(m) == \A x, y \in Chain(m) : x = y \/ x \in Ancestors[y] \/ y \in Ancestors[x]
             Bad == {m \in Nodes : ~Good(m)}
  <1>1. ASSUME NEW m \in Nodes, Parent[m] = Root \/ Good(Parent[m])
        PROVE  Good(m)
    <2>1. CASE Parent[m] = Root
      BY <2>1, AncestorsStep DEF Chain
    <2>2. CASE Parent[m] # Root
      <3>1. Ancestors[m] = Chain(Parent[m])
        BY <2>2, AncestorsStep DEF Chain
      <3> QED  BY <1>1, <2>2, <3>1 DEF Chain
    <2> QED  BY <2>1, <2>2
  <1>2. Bad = {}
    <2>1. SUFFICES ASSUME Bad # {} PROVE FALSE
      OBVIOUS
    <2>2. PICK m \in Bad : Parent[m] \notin Bad
      <3>1. Bad \in SUBSET Nodes
        OBVIOUS
      <3> HIDE DEF Bad
      <3> QED  BY <2>1, <3>1, RootAssumption DEF RootAssumption
    <2>3. m \in Nodes /\ ~Good(m) /\ (Parent[m] = Root \/ Good(Parent[m]))
      BY <2>2, TreeAssumption DEF TreeAssumption
    <2> HIDE DEF Good
    <2> QED  BY <1>1, <2>3
  <1> QED  BY <1>2

\* A chain has one member in each directory.
LEMMA ChainIsThin ==
  ASSUME NEW n \in Nodes, NEW a \in Chain(n), NEW b \in Chain(n), Parent[a] = Parent[b]
  PROVE  a = b
  <1>1. a \in Nodes /\ b \in Nodes
    BY AncestorsAre DEF Chain
  <1>2. ASSUME NEW x \in Nodes, NEW y \in Nodes, x \in Ancestors[y], Parent[x] = Parent[y]
        PROVE  FALSE
    <2> DEFINE u == Parent[y]
    <2>1. u # Root /\ u \in Nodes /\ Ancestors[y] = {u} \cup Ancestors[u]
      BY <1>2, AncestorsStep, TreeAssumption DEF TreeAssumption
    <2>2. Ancestors[x] = {u} \cup Ancestors[u]
      BY <1>2, <2>1, AncestorsStep
    <2>3. u \in Ancestors[x] /\ (x = u \/ x \in Ancestors[u])
      BY <1>2, <2>1, <2>2
    <2>4. u \in Ancestors[u]
      BY <2>1, <2>3, AncestorsNest
    <2> QED  BY <2>1, <2>4, NoCycles
  <1> QED  BY <1>1, <1>2, ChainIsOrdered

\* The children of a directory have one and the same chain above them.
LEMMA Siblings ==
  ASSUME NEW c \in Nodes, NEW e \in Nodes, Parent[c] = Parent[e]
  PROVE  Ancestors[c] = Ancestors[e]
  BY AncestorsStep

\* Names are ordered.
LEMMA BeforeIs ==
  /\ \A m \in Nodes : ~Before(m, m)
  /\ \A m, n \in Nodes : m = n \/ Before(m, n) \/ Before(n, m)
  /\ \A m, n, o \in Nodes : Before(m, n) /\ Before(n, o) => Before(m, o)
  <1>1. /\ \A i \in DOMAIN NameOrder : i \in Int
        /\ \A n \in Nodes : \E i \in DOMAIN NameOrder : NameOrder[i] = n
        /\ \A i, j \in DOMAIN NameOrder : NameOrder[i] = NameOrder[j] => i = j
    BY DiffAssumption DEF DiffAssumption
  <1>2. \A m \in Nodes : ~Before(m, m)
    BY <1>1 DEF Before
  <1>3. ASSUME NEW m \in Nodes, NEW n \in Nodes PROVE m = n \/ Before(m, n) \/ Before(n, m)
    <2>1. PICK i \in DOMAIN NameOrder, j \in DOMAIN NameOrder : NameOrder[i] = m /\ NameOrder[j] = n
      BY <1>1
    <2>2. i = j \/ i < j \/ j < i
      BY <1>1
    <2> QED  BY <2>1, <2>2 DEF Before
  <1>4. ASSUME NEW m \in Nodes, NEW n \in Nodes, NEW o \in Nodes, Before(m, n), Before(n, o)
        PROVE  Before(m, o)
    <2>1. PICK i \in DOMAIN NameOrder, j \in DOMAIN NameOrder :
                  i < j /\ NameOrder[i] = m /\ NameOrder[j] = n
      BY <1>4 DEF Before
    <2>2. PICK k \in DOMAIN NameOrder, l \in DOMAIN NameOrder :
                  k < l /\ NameOrder[k] = n /\ NameOrder[l] = o
      BY <1>4 DEF Before
    <2>3. j = k
      BY <1>1, <2>1, <2>2
    <2>4. i < l
      BY <1>1, <2>1, <2>2, <2>3
    <2> QED  BY <2>1, <2>2, <2>4 DEF Before
  <1> QED  BY <1>2, <1>3, <1>4

\* What is below one child precedes what is below a later one.
LEMMA BranchesPrecede ==
  ASSUME NEW c \in Nodes, NEW e \in Nodes, Parent[c] = Parent[e], Before(c, e),
         NEW a \in Branch(c), NEW b \in Branch(e)
  PROVE  a \in Nodes /\ b \in Nodes /\ a # b /\ Precedes(a, b)
  <1>1. c # Root /\ e # Root /\ c # e
    BY TreeAssumption, BeforeIs DEF TreeAssumption
  <1>2. a \in Nodes /\ b \in Nodes /\ c \in Chain(a) /\ e \in Chain(b)
    BY <1>1 DEF Branch, Below, Chain
  <1>3. a # b
    BY <1>1, <1>2, ChainIsThin
  <1>4. ASSUME NEW m \in Chain(a), NEW n \in Chain(b), Parent[m] = Parent[n]
        PROVE  m = n \/ Before(m, n)
    <2>1. m = c \/ m \in Ancestors[c] \/ c \in Ancestors[m]
      BY <1>2, ChainIsOrdered
    <2>2. m \in Nodes /\ n \in Nodes
      BY <1>2, AncestorsAre DEF Chain
    <2>3. CASE m = c
      BY <1>2, <1>4, <2>3, ChainIsThin
    <2>4. CASE m \in Ancestors[c]
      <3>1. m \in Ancestors[e]
        BY <2>4, Siblings
      <3>2. m \in Chain(b)
        BY <1>2, <3>1, AncestorsNest DEF Chain
      <3> QED  BY <1>2, <1>4, <3>2, ChainIsThin
    <2>5. CASE c \in Ancestors[m]
      <3>1. Ancestors[m] = Ancestors[n]
        BY <1>4, <2>2, Siblings
      <3>2. c \in Chain(b)
        BY <1>2, <2>5, <3>1, AncestorsNest DEF Chain
      <3> QED  BY <1>1, <1>2, <3>2, ChainIsThin
    <2> QED  BY <2>1, <2>3, <2>4, <2>5
  <1> QED  BY <1>2, <1>3, <1>4 DEF Precedes

---------------------------------------------------------------------------
(* The entries of a directory.                                             *)

\* Numbered in the order of their names.
Ascending(s, N) == \A i, j \in 1 .. N : i < j => Before(s[i], s[j])

\* Any nodes can be put in the order of their names.
LEMMA Sortable ==
  ASSUME NEW S, S \subseteq Nodes
  PROVE  /\ IsFiniteSet(S) /\ Cardinality(S) \in Nat
         /\ \E s \in [1 .. Cardinality(S) -> S] : Ascending(s, Cardinality(S))
  <1> DEFINE N == Len(NameOrder)
             Upto(m) == {n \in S : \E i \in 1 .. m : NameOrder[i] = n}
             Good(m) == \E s \in [1 .. Cardinality(Upto(m)) -> Upto(m)] :
                            Ascending(s, Cardinality(Upto(m)))
             Bad == {m \in Nat : m <= N /\ ~Good(m)}
  <1>1. /\ N \in Nat /\ DOMAIN NameOrder = 1 .. N
        /\ \A i, j \in 1 .. N : NameOrder[i] = NameOrder[j] => i = j
        /\ \A i \in 1 .. N : NameOrder[i] \in Nodes
    BY DiffAssumption DEF DiffAssumption
  <1>2. \A T : T \subseteq S => IsFiniteSet(T) /\ Cardinality(T) \in Nat
    BY TreeAssumption, FS_Subset, FS_CardinalityType DEF TreeAssumption
  <1>3. Bad = {}
    <2>1. SUFFICES ASSUME Bad # {} PROVE FALSE
      OBVIOUS
    <2>2. PICK m \in Bad : \A k \in Bad : m <= k
      <3>1. Bad \subseteq Nat
        OBVIOUS
      <3> HIDE DEF Bad
      <3> QED  BY <2>1, <3>1, LeastIn
    <2>3. m # 0
      <3>1. Upto(0) = {}
        OBVIOUS
      <3> HIDE DEF Upto
      <3>2. Cardinality(Upto(0)) = 0
        BY <3>1, FS_EmptySet
      <3>3. [i \in 1 .. 0 |-> 0] \in [1 .. 0 -> Upto(0)]
        OBVIOUS
      <3>4. Ascending([i \in 1 .. 0 |-> 0], 0)
        BY DEF Ascending
      <3>5. Good(0)
        BY <3>2, <3>3, <3>4
      <3> QED  BY <2>2, <3>5
    <2> DEFINE k == m - 1
    <2>4. k \in Nat /\ k + 1 = m /\ m \in 1 .. N /\ m \in Nat /\ ~Good(m) /\ Good(k)
      <3>1. k \in Nat /\ k + 1 = m /\ m \in 1 .. N /\ k <= N /\ ~(m <= k) /\ m \in Nat
        BY <1>1, <2>2, <2>3
      <3>2. k \notin Bad
        BY <2>2, <3>1, Zenon
      <3>3. ~Good(m) /\ Good(k)
        <4> HIDE DEF Good, k
        <4> QED  BY <2>2, <3>1, <3>2
      <3> QED  BY <3>1, <3>3
    <2> HIDE DEF k
    <2> DEFINE x == NameOrder[m]
    <2>5. Upto(m) = Upto(k) \cup (IF x \in S THEN {x} ELSE {})
      <3>1. \A i \in 1 .. m : i \in 1 .. k \/ i = m
        BY <2>4
      <3>2. 1 .. k \subseteq 1 .. m /\ m \in 1 .. m
        BY <2>4
      <3> QED  BY <3>1, <3>2
    <2>6. x \notin Upto(k) /\ \A n \in Upto(k) : Before(n, x)
      <3>1. \A i \in 1 .. k : i \in 1 .. N /\ i < m
        BY <1>1, <2>4
      <3> QED  BY <1>1, <2>4, <3>1 DEF Before
    <2>7. Upto(k) \subseteq S /\ IsFiniteSet(Upto(k)) /\ Cardinality(Upto(k)) \in Nat
      BY <1>2
    <2> DEFINE U == Upto(k)
               C == Cardinality(U)
    <2>8. PICK s \in [1 .. C -> U] : Ascending(s, C)
      BY <2>4
    <2>9. x \in S
      BY <2>4, <2>5
    <2>10. Upto(m) = U \cup {x} /\ Cardinality(Upto(m)) = C + 1
      <3>1. Upto(m) = U \cup {x}
        BY <2>5, <2>9
      <3> HIDE DEF Upto
      <3> QED  BY <2>6, <2>7, <3>1, FS_AddElement
    <2> HIDE DEF x
    <2> DEFINE t == [i \in 1 .. C + 1 |-> IF i = C + 1 THEN x ELSE s[i]]
    <2>11. t \in [1 .. C + 1 -> U \cup {x}] /\ Ascending(t, C + 1)
      <3> C \in Nat
        BY <2>7
      <3> HIDE DEF U, C
      <3>1. ASSUME NEW i \in 1 .. C + 1, i # C + 1 PROVE i \in 1 .. C /\ t[i] = s[i] /\ s[i] \in U
        BY <3>1
      <3>2. C + 1 \in 1 .. C + 1 /\ t[C + 1] = x
        OBVIOUS
      <3>3. t \in [1 .. C + 1 -> U \cup {x}]
        BY <3>1, <3>2
      <3>4. ASSUME NEW i \in 1 .. C + 1, NEW j \in 1 .. C + 1, i < j PROVE Before(t[i], t[j])
        <4>1. i # C + 1
          BY <3>4
        <4>2. CASE j = C + 1
          <5>1. t[i] \in U /\ t[j] = x
            BY <3>1, <3>2, <4>1, <4>2
          <5> QED  BY <2>6, <5>1 DEF U
        <4>3. CASE j # C + 1
          <5>1. i \in 1 .. C /\ j \in 1 .. C /\ t[i] = s[i] /\ t[j] = s[j]
            BY <3>1, <4>1, <4>3
          <5> QED  BY <2>8, <3>4, <5>1 DEF Ascending
        <4> QED  BY <4>2, <4>3
      <3> HIDE DEF t
      <3>5. Ascending(t, C + 1)
        BY <3>4 DEF Ascending
      <3> QED  BY <3>3, <3>5
    <2> HIDE DEF t, C, U
    <2>12. Good(m)
      <3> HIDE DEF Upto
      <3> QED  BY <2>10, <2>11 DEF Good
    <2> QED  BY <2>4, <2>12
  <1>4. Upto(N) = S
    BY <1>1, DiffAssumption DEF DiffAssumption
  <1>5. Good(N)
    <2> HIDE DEF Good
    <2> QED  BY <1>1, <1>3
  <1> QED  BY <1>2, <1>4, <1>5

\* The entries of a directory are its children that are there, in the order of their names.
LEMMA EntriesAre ==
  ASSUME NEW t, NEW d
  PROVE  LET s == Entries(t, d) IN
         /\ s \in Seq(Nodes) /\ Len(s) \in Nat
         /\ \A i \in 1 .. Len(s) : s[i] \in Nodes /\ Parent[s[i]] = d /\ t[s[i]] # "absent"
         /\ \A n \in Children(d) : t[n] # "absent" => \E i \in 1 .. Len(s) : s[i] = n
         /\ Ascending(s, Len(s))
  <1> DEFINE S == {n \in Children(d) : t[n] # "absent"}
             N == Cardinality(S)
             s == Entries(t, d)
  <1>1. S \subseteq Nodes
    BY DEF Children
  <1>2. /\ IsFiniteSet(S) /\ N \in Nat
        /\ \E u \in [1 .. N -> S] : Ascending(u, N)
    BY <1>1, Sortable
  <1>3. s \in [1 .. N -> S] /\ Ascending(s, N)
    <2>1. s = CHOOSE u \in [1 .. N -> S] : Ascending(u, N)
      BY DEF Entries, Ascending
    <2> HIDE DEF s, N, S
    <2> QED  BY <1>2, <2>1
  <1> HIDE DEF s, N
  <1>4. \A i \in 1 .. N : s[i] \in Nodes
    BY <1>1, <1>3
  <1>5. \A i, j \in 1 .. N : s[i] = s[j] => i = j
    <2>1. \A i, j \in 1 .. N : i < j => s[i] # s[j]
      BY <1>3, <1>4, BeforeIs DEF Ascending
    <2>2. \A i, j \in 1 .. N : i = j \/ i < j \/ j < i
      BY <1>2
    <2> QED  BY <2>1, <2>2
  <1>6. \A n \in S : \E i \in 1 .. N : s[i] = n
    <2>1. IsFiniteSet(1 .. N) /\ Cardinality(1 .. N) = N
      <3>1. 1 \in Int /\ N \in Int
        BY <1>2
      <3>2. /\ IsFiniteSet(1 .. N)
            /\ Cardinality(1 .. N) = IF 1 > N THEN 0 ELSE N - 1 + 1
        BY <3>1, FS_Interval, Zenon
      <3>3. (IF 1 > N THEN 0 ELSE N - 1 + 1) = N
        BY <1>2
      <3> QED  BY <3>2, <3>3
    <2> HIDE DEF S
    <2>2. s \in Injection(1 .. N, S)
      BY <1>3, <1>5 DEF Injection, IsInjective
    <2>3. s \in Surjection(1 .. N, S)
      <3>1. Cardinality(1 .. N) = Cardinality(S) <=> s \in Surjection(1 .. N, S)
        BY <1>2, <2>2, FS_Injection
      <3> QED  BY <2>1, <3>1 DEF N
    <2> QED  BY <2>3 DEF Surjection
  <1>7. s \in Seq(Nodes) /\ Len(s) = N
    BY <1>1, <1>2, <1>3
  <1> QED  BY <1>2, <1>3, <1>6, <1>7 DEF Children, s

---------------------------------------------------------------------------
(* Lists of changes.                                                       *)

\* C lists the topmost changes among the nodes P: each as what it is, once and in order.
Lists(left, right, C, P) ==
    /\ \E S : C \in Seq(S)
    /\ \A i \in 1 .. Len(C) :
         /\ C[i] = [node |-> C[i].node, change |-> Expected(left, right, C[i].node)]
         /\ C[i].node \in Topmost(left, right) \cap P
    /\ \A n \in Topmost(left, right) \cap P : \E i \in 1 .. Len(C) : C[i].node = n
    /\ \A i, j \in 1 .. Len(C) : i < j => /\ C[i].node # C[j].node
                                          /\ Precedes(C[i].node, C[j].node)

\* There is nothing to list.
LEMMA NothingToList ==
  ASSUME NEW left, NEW right, NEW P, Topmost(left, right) \cap P = {}
  PROVE  Lists(left, right, <<>>, P)
  BY DEF Lists

\* There is one change to list.
LEMMA OneToList ==
  ASSUME NEW left, NEW right, NEW P, NEW n, NEW what,
         Topmost(left, right) \cap P = {n}, what = Expected(left, right, n)
  PROVE  Lists(left, right, Change(n, what), P)
  <1> DEFINE c == [node |-> n, change |-> what]
             C == <<c>>
  <1>1. C \in Seq({c}) /\ Len(C) = 1 /\ C[1] = c
    <2> HIDE DEF c
    <2> QED  OBVIOUS
  <1>2. c.node = n /\ c = [node |-> c.node, change |-> Expected(left, right, c.node)]
    OBVIOUS
  <1> HIDE DEF c, C
  <1>3. \A i \in 1 .. Len(C) : C[i] = c
    BY <1>1
  <1>4. \A i, j \in 1 .. Len(C) : ~(i < j)
    BY <1>1
  <1>5. Lists(left, right, C, P)
    BY <1>1, <1>2, <1>3, <1>4 DEF Lists
  <1>6. C = Change(n, what)
    BY DEF C, c, Change
  <1> QED  BY <1>5, <1>6

\* One list behind another.
LEMMA ListsJoin ==
  ASSUME NEW left, NEW right, NEW P, NEW Q, NEW B, NEW C,
         Lists(left, right, B, P), Lists(left, right, C, Q),
         \A a \in P, b \in Q : a # b /\ Precedes(a, b)
  PROVE  Lists(left, right, B \o C, P \cup Q)
  <1> DEFINE D == B \o C
             M == Len(B)
             N == Len(C)
             T == Topmost(left, right)
  <1>1. PICK S : B \in Seq(S)
    BY DEF Lists
  <1>2. PICK R : C \in Seq(R)
    BY DEF Lists
  <1>3. B \in Seq(S \cup R) /\ C \in Seq(S \cup R)
    BY <1>1, <1>2, SeqMonotonic
  <1>4. /\ D \in Seq(S \cup R) /\ Len(D) = M + N
        /\ \A i \in 1 .. M + N : D[i] = IF i <= M THEN B[i] ELSE C[i - M]
        /\ M \in Nat /\ N \in Nat
    BY <1>3, ConcatProperties
  <1> HIDE DEF D
  <1>5. \A i \in 1 .. Len(D) : \/ i \in 1 .. M /\ D[i] = B[i]
                               \/ i - M \in 1 .. N /\ D[i] = C[i - M] /\ i > M
    <2> TAKE i \in 1 .. Len(D)
    <2>1. i <= M => i \in 1 .. M
      BY <1>4
    <2>2. ~(i <= M) => i - M \in 1 .. N /\ i > M
      BY <1>4
    <2>3. D[i] = IF i <= M THEN B[i] ELSE C[i - M]
      BY <1>4
    <2> QED  BY <2>1, <2>2, <2>3
  <1>6. /\ \A i \in 1 .. M : i \in 1 .. Len(D) /\ D[i] = B[i]
        /\ \A k \in 1 .. N : k + M \in 1 .. Len(D) /\ D[k + M] = C[k]
    <2>1. ASSUME NEW i \in 1 .. M PROVE i \in 1 .. Len(D) /\ D[i] = B[i]
      BY <1>4
    <2>2. ASSUME NEW k \in 1 .. N PROVE k + M \in 1 .. Len(D) /\ D[k + M] = C[k]
      <3>1. k + M \in 1 .. M + N /\ ~(k + M <= M) /\ (k + M) - M = k
        BY <1>4
      <3> QED  BY <1>4, <3>1
    <2> QED  BY <2>1, <2>2
  <1> HIDE DEF M, N, T
  <1>7. /\ \A i \in 1 .. M : /\ B[i] = [node |-> B[i].node, change |-> Expected(left, right, B[i].node)]
                             /\ B[i].node \in T \cap P
        /\ \A i \in 1 .. N : /\ C[i] = [node |-> C[i].node, change |-> Expected(left, right, C[i].node)]
                             /\ C[i].node \in T \cap Q
    BY DEF Lists, M, N, T
  <1>8. ASSUME NEW i \in 1 .. Len(D)
        PROVE  /\ D[i] = [node |-> D[i].node, change |-> Expected(left, right, D[i].node)]
               /\ D[i].node \in T \cap (P \cup Q)
    <2>1. CASE i \in 1 .. M /\ D[i] = B[i]
      BY <1>7, <2>1
    <2>2. CASE i - M \in 1 .. N /\ D[i] = C[i - M]
      <3> DEFINE k == i - M
      <3>1. k \in 1 .. N /\ D[i] = C[k]
        BY <2>2
      <3> HIDE DEF k
      <3> QED  BY <1>7, <3>1
    <2> QED  BY <1>5, <2>1, <2>2
  <1>9. ASSUME NEW n \in T \cap (P \cup Q) PROVE \E i \in 1 .. Len(D) : D[i].node = n
    <2>1. CASE n \in P
      <3>1. PICK i \in 1 .. M : B[i].node = n
        BY <2>1 DEF Lists, M, T
      <3> QED  BY <1>6, <3>1
    <2>2. CASE n \in Q
      <3>1. PICK k \in 1 .. N : C[k].node = n
        BY <2>2 DEF Lists, N, T
      <3>2. k + M \in 1 .. Len(D) /\ D[k + M] = C[k]
        BY <1>6
      <3> QED  BY <3>1, <3>2
    <2> QED  BY <2>1, <2>2
  <1>10. ASSUME NEW i \in 1 .. Len(D), NEW j \in 1 .. Len(D), i < j
         PROVE  D[i].node # D[j].node /\ Precedes(D[i].node, D[j].node)
    <2>1. CASE i \in 1 .. M /\ D[i] = B[i] /\ j \in 1 .. M /\ D[j] = B[j]
      BY <1>10, <2>1 DEF Lists, M
    <2>2. CASE i \in 1 .. M /\ D[i] = B[i] /\ j - M \in 1 .. N /\ D[j] = C[j - M]
      <3> DEFINE k == j - M
      <3>1. k \in 1 .. N /\ D[j] = C[k]
        BY <2>2
      <3> HIDE DEF k
      <3>2. D[i].node \in P /\ D[j].node \in Q
        BY <1>7, <2>2, <3>1
      <3> QED  BY <3>2
    <2>3. CASE i - M \in 1 .. N /\ D[i] = C[i - M] /\ j - M \in 1 .. N /\ D[j] = C[j - M]
      <3> DEFINE k == i - M
                 l == j - M
      <3>1. k \in 1 .. N /\ l \in 1 .. N /\ k < l /\ D[i] = C[k] /\ D[j] = C[l]
        BY <1>4, <1>10, <2>3
      <3> HIDE DEF k, l
      <3> QED  BY <3>1 DEF Lists, N
    <2>4. ~(i > M /\ j \in 1 .. M)
      BY <1>4, <1>10
    <2> QED  BY <1>5, <2>1, <2>2, <2>3, <2>4
  <1>11. Lists(left, right, D, P \cup Q)
    BY <1>4, <1>8, <1>9, <1>10 DEF Lists, T
  <1> QED  BY <1>11 DEF D

\* Nodes without a change add nothing to a list.
LEMMA ListsMore ==
  ASSUME NEW left, NEW right, NEW C, NEW P, NEW Q, Lists(left, right, C, P),
         Topmost(left, right) \cap P = Topmost(left, right) \cap Q
  PROVE  Lists(left, right, C, Q)
  BY DEF Lists

---------------------------------------------------------------------------
(* The merge of two directories' entries.                                  *)

\* f is the loop after each turn.
Turns(left, right, l, r, below, f) ==
    /\ f[0] = [i |-> 1, j |-> 1, changes |-> <<>>]
    /\ Merge(left, right, l, r, below) = f[Len(l) + Len(r)].changes
    /\ \A k \in 1 .. Len(l) + Len(r) : f[k] = Turn(left, right, l, r, below, f[k - 1])

LEMMA MergeStepwise ==
  ASSUME NEW left, NEW right, NEW l, NEW r, NEW below, Len(l) \in Nat, Len(r) \in Nat
  PROVE  \E f : Turns(left, right, l, r, below, f)
  <1> DEFINE N == Len(l) + Len(r)
             first == [i |-> 1, j |-> 1, changes |-> <<>>]
             T(at) == Turn(left, right, l, r, below, at)
             Step(g, k) == IF k = 0 THEN first ELSE T(g[k - 1])
             Bad == {n \in Nat : n <= N /\ ~\E g : g = [k \in 0 .. n |-> Step(g, k)]}
  <1>1. Merge(left, right, l, r, below) = (CHOOSE g : g = [k \in 0 .. N |-> Step(g, k)])[N].changes
    BY DEF Merge
  <1>2. N \in Nat
    OBVIOUS
  <1> HIDE DEF N, first, T
  <1>3. Bad = {}
    <2>1. SUFFICES ASSUME Bad # {} PROVE FALSE
      OBVIOUS
    <2>2. PICK n \in Bad : \A m \in Bad : n <= m
      BY <2>1, LeastIn
    <2>3. n # 0
      <3>1. [k \in 0 .. 0 |-> first] = [k \in 0 .. 0 |-> Step([j \in 0 .. 0 |-> first], k)]
        OBVIOUS
      <3> QED  BY <3>1
    <2>4. n - 1 \in Nat /\ n - 1 \notin Bad /\ n - 1 <= N
      <3>1. n - 1 \in Nat /\ ~(n <= n - 1) /\ n - 1 <= N
        BY <1>2, <2>3
      <3>2. n - 1 \notin Bad
        BY <2>2, <3>1, Zenon
      <3> QED  BY <3>1, <3>2
    <2>5. PICK g : g = [k \in 0 .. n - 1 |-> Step(g, k)]
      BY <2>4
    <2> DEFINE h == [k \in 0 .. n |-> IF k = n THEN T(g[n - 1]) ELSE g[k]]
    <2>6. \A k \in 0 .. n : h[k] = Step(h, k)
      <3>1. ASSUME NEW k \in 0 .. n PROVE h[k] = Step(h, k)
        <4>1. CASE k = 0
          BY <2>3, <2>5, <4>1
        <4>2. CASE k = n
          BY <2>3, <4>2
        <4>3. CASE k # n /\ k # 0
          <5>1. k \in 0 .. n - 1 /\ k - 1 \in 0 .. n - 1 /\ k - 1 # n /\ k - 1 \in 0 .. n
            BY <4>3
          <5>2. h[k] = g[k] /\ h[k - 1] = g[k - 1]
            BY <4>3, <5>1
          <5>3. g[k] = Step(g, k)
            BY <5>1, <2>5, Zenon
          <5> QED  BY <4>3, <5>2, <5>3
        <4> QED  BY <4>1, <4>2, <4>3
      <3> QED  BY <3>1
    <2>7. h = [k \in 0 .. n |-> Step(h, k)]
      BY <2>6
    <2> QED  BY <2>2, <2>7
  <1>4. \E g : g = [k \in 0 .. N |-> Step(g, k)]
    BY <1>2, <1>3
  <1> DEFINE f == CHOOSE g : g = [k \in 0 .. N |-> Step(g, k)]
  <1>5. f = [k \in 0 .. N |-> Step(f, k)]
    BY <1>4, Zenon
  <1>6. Merge(left, right, l, r, below) = f[N].changes
    BY <1>1
  <1> HIDE DEF f
  <1>7. f[0] = first /\ \A k \in 1 .. N : f[k] = T(f[k - 1])
    BY <1>2, <1>5
  <1> USE DEF N, first, T
  <1> QED  BY <1>6, <1>7 DEF Turns

\* What was passed on one side precedes what is yet to come on the other.
Aligned(l, i, r, j) ==
    /\ \A a \in 1 .. i - 1, b \in j .. Len(r) : Before(l[a], r[b])
    /\ \A b \in 1 .. j - 1, a \in i .. Len(l) : Before(r[b], l[a])

\* Nodes in the order of their names.
Sorted(s) ==
    /\ Len(s) \in Nat /\ Ascending(s, Len(s))
    /\ \A i \in 1 .. Len(s) : s[i] \in Nodes

\* The turn past an entry that the other side does not have.
LEMMA OneAhead ==
  ASSUME NEW l, NEW r, Sorted(l), Sorted(r), NEW i \in 1 .. Len(l) + 1, NEW j \in 1 .. Len(r) + 1,
         Aligned(l, i, r, j), OnlyIn(l, i, r, j)
  PROVE  /\ i \in 1 .. Len(l) /\ Aligned(l, i + 1, r, j)
         /\ \A b \in 1 .. Len(r) : r[b] # l[i]
         /\ \A a \in 1 .. i - 1 : Before(l[a], l[i])
         /\ \A b \in 1 .. j - 1 : Before(r[b], l[i])
  <1>1. i \in 1 .. Len(l) /\ Len(l) \in Nat /\ Len(r) \in Nat /\ l[i] \in Nodes
    BY DEF OnlyIn, Sorted
  <1>2. ASSUME NEW b \in j .. Len(r) PROVE Before(l[i], r[b])
    <2>1. j \in 1 .. Len(r) /\ b \in 1 .. Len(r) /\ (b = j \/ j < b)
      BY <1>1
    <2>2. Before(l[i], r[j])
      BY <1>1, <2>1 DEF OnlyIn
    <2>3. j < b => Before(r[j], r[b])
      BY <2>1 DEF Sorted, Ascending
    <2>4. r[j] \in Nodes /\ r[b] \in Nodes
      BY <2>1 DEF Sorted
    <2> QED  BY <1>1, <2>1, <2>2, <2>3, <2>4, BeforeIs
  <1>3. ASSUME NEW b \in 1 .. j - 1 PROVE Before(r[b], l[i])
    <2>1. i \in i .. Len(l)
      BY <1>1
    <2> QED  BY <2>1 DEF Aligned
  <1>4. ASSUME NEW b \in 1 .. Len(r) PROVE r[b] # l[i]
    <2>1. b \in j .. Len(r) \/ b \in 1 .. j - 1
      BY <1>1
    <2> QED  BY <1>1, <1>2, <1>3, <2>1, BeforeIs
  <1>5. ASSUME NEW a \in 1 .. i - 1 PROVE Before(l[a], l[i])
    <2>1. a \in 1 .. Len(l) /\ a < i
      BY <1>1
    <2> QED  BY <1>1, <2>1 DEF Sorted, Ascending
  <1>6. Aligned(l, i + 1, r, j)
    <2>1. ASSUME NEW a \in 1 .. (i + 1) - 1, NEW b \in j .. Len(r) PROVE Before(l[a], r[b])
      <3>1. a = i \/ a \in 1 .. i - 1
        BY <1>1
      <3> QED  BY <1>2, <3>1 DEF Aligned
    <2>2. ASSUME NEW b \in 1 .. j - 1, NEW a \in i + 1 .. Len(l) PROVE Before(r[b], l[a])
      <3>1. a \in i .. Len(l)
        BY <1>1
      <3> QED  BY <3>1 DEF Aligned
    <2> QED  BY <2>1, <2>2 DEF Aligned
  <1> QED  BY <1>1, <1>3, <1>4, <1>5, <1>6

\* Aligned the one way is aligned the other way.
LEMMA AlignedBoth ==
  ASSUME NEW l, NEW r, NEW i, NEW j
  PROVE  Aligned(l, i, r, j) <=> Aligned(r, j, l, i)
  BY DEF Aligned

\* The turn past an entry of both sides.
LEMMA BothAhead ==
  ASSUME NEW l, NEW r, Sorted(l), Sorted(r), NEW i \in 1 .. Len(l) + 1, NEW j \in 1 .. Len(r) + 1,
         Aligned(l, i, r, j), ~(i > Len(l) /\ j > Len(r)), ~OnlyIn(l, i, r, j), ~OnlyIn(r, j, l, i)
  PROVE  /\ i \in 1 .. Len(l) /\ j \in 1 .. Len(r) /\ l[i] = r[j] /\ Aligned(l, i + 1, r, j + 1)
         /\ \A a \in 1 .. i - 1 : Before(l[a], l[i])
         /\ \A b \in 1 .. j - 1 : Before(r[b], l[i])
  <1>1. /\ i \in 1 .. Len(l) /\ j \in 1 .. Len(r) /\ Len(l) \in Nat /\ Len(r) \in Nat
        /\ ~Before(l[i], r[j]) /\ ~Before(r[j], l[i])
    BY DEF OnlyIn, Sorted
  <1>2. l[i] \in Nodes /\ r[j] \in Nodes /\ l[i] = r[j]
    BY <1>1, BeforeIs DEF Sorted
  <1>3. ASSUME NEW a \in 1 .. i - 1 PROVE Before(l[a], l[i])
    <2>1. a \in 1 .. Len(l) /\ a < i
      BY <1>1
    <2> QED  BY <1>1, <2>1 DEF Sorted, Ascending
  <1>4. ASSUME NEW b \in 1 .. j - 1 PROVE Before(r[b], l[i])
    <2>1. i \in i .. Len(l)
      BY <1>1
    <2> QED  BY <2>1 DEF Aligned
  <1>5. Aligned(l, i + 1, r, j + 1)
    <2>1. ASSUME NEW a \in 1 .. (i + 1) - 1, NEW b \in j + 1 .. Len(r) PROVE Before(l[a], r[b])
      <3>1. a = i \/ a \in 1 .. i - 1
        BY <1>1
      <3>2. b \in j .. Len(r) /\ b \in 1 .. Len(r) /\ j < b
        BY <1>1
      <3>3. Before(r[j], r[b])
        BY <1>1, <3>2 DEF Sorted, Ascending
      <3> QED  BY <1>2, <3>1, <3>2, <3>3 DEF Aligned
    <2>2. ASSUME NEW b \in 1 .. (j + 1) - 1, NEW a \in i + 1 .. Len(l) PROVE Before(r[b], l[a])
      <3>1. b = j \/ b \in 1 .. j - 1
        BY <1>1
      <3>2. a \in i .. Len(l) /\ a \in 1 .. Len(l) /\ i < a
        BY <1>1
      <3>3. Before(l[i], l[a])
        BY <1>1, <3>2 DEF Sorted, Ascending
      <3> QED  BY <1>2, <3>1, <3>2, <3>3 DEF Aligned
    <2> QED  BY <2>1, <2>2 DEF Aligned
  <1> QED  BY <1>1, <1>2, <1>3, <1>4, <1>5

---------------------------------------------------------------------------
(* What the entries of a directory contribute.                             *)

\* Directory d is in both trees.
Shared(left, right, d) ==
    /\ left \in Trees /\ right \in Trees /\ d \in Nodes \cup {Root}
    /\ IsDir(left, d) /\ IsDir(right, d)

\* Above the entries of a shared directory nothing changed.
LEMMA SharedAbove ==
  ASSUME NEW left, NEW right, NEW d, Shared(left, right, d), NEW c \in Children(d)
  PROVE  /\ c \in Nodes /\ Parent[c] = d /\ c # Root
         /\ \A m \in Ancestors[c] : left[m] = "dir" /\ right[m] = "dir"
  <1>1. c \in Nodes /\ Parent[c] = d /\ c # Root
    BY TreeAssumption DEF Children, TreeAssumption
  <1>2. ASSUME NEW m \in Ancestors[c] PROVE left[m] = "dir" /\ right[m] = "dir"
    <2>1. d # Root /\ d \in Nodes /\ Ancestors[c] = {d} \cup Ancestors[d]
      BY <1>1, <1>2, AncestorsStep DEF Shared
    <2>2. left[d] = "dir" /\ right[d] = "dir"
      BY <2>1 DEF Shared, IsDir
    <2> QED  BY <1>2, <2>1, <2>2, DirsAbove DEF Shared
  <1> QED  BY <1>1, <1>2

\* The topmost changes at an entry and below it.
LEMMA TopmostAt ==
  ASSUME NEW left, NEW right, NEW d, Shared(left, right, d), NEW c \in Children(d)
  PROVE  /\ left[c] # right[c] => Topmost(left, right) \cap Branch(c) = {c}
         /\ left[c] = right[c] =>
              Topmost(left, right) \cap Branch(c) = Topmost(left, right) \cap Below(c)
  <1>1. /\ c \in Nodes /\ c # Root
        /\ \A m \in Ancestors[c] : left[m] = "dir" /\ right[m] = "dir"
    BY SharedAbove
  <1>2. left[c] # right[c] => c \in Topmost(left, right)
    BY <1>1 DEF Topmost
  <1>3. \A n \in Below(c) : left[c] # right[c] => n \notin Topmost(left, right)
    BY <1>1 DEF Topmost, Below
  <1>4. left[c] = right[c] => c \notin Topmost(left, right)
    BY DEF Topmost
  <1> QED  BY <1>2, <1>3, <1>4 DEF Branch

\* Below what is no directory there is nothing.
LEMMA NothingBelow ==
  ASSUME NEW t \in Trees, NEW c \in Nodes, t[c] # "dir", NEW n \in Below(c)
  PROVE  t[n] = "absent"
  <1>1. n \in Nodes /\ c \in Ancestors[n]
    BY TreeAssumption DEF Below, TreeAssumption
  <1> QED  BY <1>1, DirsAbove

\* An entry of one side only.
LEMMA OneSided ==
  ASSUME NEW left, NEW right, NEW d, Shared(left, right, d), NEW c \in Children(d)
  PROVE  /\ left[c] # "absent" /\ right[c] = "absent" =>
              Lists(left, right, Change(c, "removed"), Branch(c))
         /\ left[c] = "absent" /\ right[c] # "absent" =>
              Lists(left, right, Change(c, "added"), Branch(c))
  <1>1. CASE left[c] # "absent" /\ right[c] = "absent"
    <2>1. Topmost(left, right) \cap Branch(c) = {c}
      BY <1>1, TopmostAt
    <2>2. Expected(left, right, c) = "removed"
      BY <1>1 DEF Expected
    <2> QED  BY <1>1, <2>1, <2>2, OneToList
  <1>2. CASE left[c] = "absent" /\ right[c] # "absent"
    <2>1. Topmost(left, right) \cap Branch(c) = {c}
      BY <1>2, TopmostAt
    <2>2. Expected(left, right, c) = "added"
      BY <1>2 DEF Expected
    <2> QED  BY <1>2, <2>1, <2>2, OneToList
  <1> QED  BY <1>1, <1>2

\* An entry of both sides.
LEMMA TwoSided ==
  ASSUME NEW left, NEW right, NEW d, Shared(left, right, d), NEW c \in Children(d), NEW b,
         left[c] # "absent", right[c] # "absent",
         left[c] = "dir" /\ right[c] = "dir" => Lists(left, right, b, Below(c))
  PROVE  Lists(left, right, ChangeOfEntry(left, right, c, b), Branch(c))
  <1>1. CASE Kind(left, c) # Kind(right, c)
    <2>1. left[c] # right[c] /\ (left[c] = "dir" \/ right[c] = "dir")
      BY <1>1 DEF Kind
    <2>2. Topmost(left, right) \cap Branch(c) = {c}
      BY <2>1, TopmostAt
    <2>3. Expected(left, right, c) = "type_changed"
      BY <2>1 DEF Expected
    <2>4. ChangeOfEntry(left, right, c, b) = Change(c, "type_changed")
      BY <1>1 DEF ChangeOfEntry, Kind
    <2> QED  BY <2>2, <2>3, <2>4, OneToList
  <1>2. CASE left[c] = "dir" /\ right[c] = "dir"
    <2>1. ChangeOfEntry(left, right, c, b) = b
      BY <1>2 DEF ChangeOfEntry, Kind
    <2>2. Topmost(left, right) \cap Branch(c) = Topmost(left, right) \cap Below(c)
      BY <1>2, TopmostAt
    <2> QED  BY <1>2, <2>1, <2>2, ListsMore
  <1>3. CASE left[c] # "dir" /\ right[c] # "dir" /\ left[c] # right[c]
    <2>1. Topmost(left, right) \cap Branch(c) = {c}
      BY <1>3, TopmostAt
    <2>2. Expected(left, right, c) = "modified"
      BY <1>3 DEF Expected
    <2>3. ChangeOfEntry(left, right, c, b) = Change(c, "modified")
      BY <1>3 DEF ChangeOfEntry, Kind
    <2> QED  BY <2>1, <2>2, <2>3, OneToList
  <1>4. CASE left[c] # "dir" /\ right[c] # "dir" /\ left[c] = right[c]
    <2>1. ChangeOfEntry(left, right, c, b) = <<>>
      BY <1>4 DEF ChangeOfEntry, Kind
    <2>2. Topmost(left, right) \cap Branch(c) = Topmost(left, right) \cap Below(c)
      BY <1>4, TopmostAt
    <2>3. c \in Nodes
      BY DEF Children
    <2>4. \A n \in Below(c) : left[n] = "absent" /\ right[n] = "absent"
      BY <1>4, <2>3, NothingBelow DEF Shared
    <2>5. Topmost(left, right) \cap Branch(c) = {}
      BY <2>2, <2>4 DEF Topmost
    <2> QED  BY <2>1, <2>5, NothingToList
  <1> QED  BY <1>1, <1>2, <1>3, <1>4 DEF Kind

\* What is listed of an entry is appended to what is listed of the entries before it.
LEMMA ListGrows ==
  ASSUME NEW left, NEW right, NEW d, NEW X, X \subseteq Children(d), NEW c \in Children(d),
         \A x \in X : Before(x, c), NEW C, NEW B,
         Lists(left, right, C, UNION {Branch(x) : x \in X}), Lists(left, right, B, Branch(c))
  PROVE  Lists(left, right, C \o B, UNION {Branch(x) : x \in X \cup {c}})
  <1> DEFINE P == UNION {Branch(x) : x \in X}
             Q == UNION {Branch(x) : x \in X \cup {c}}
  <1>1. Q = P \cup Branch(c)
    OBVIOUS
  <1>2. ASSUME NEW a \in P, NEW b \in Branch(c) PROVE a # b /\ Precedes(a, b)
    <2>1. PICK x \in X : a \in Branch(x)
      OBVIOUS
    <2>2. x \in Nodes /\ c \in Nodes /\ Parent[x] = Parent[c] /\ Before(x, c)
      BY DEF Children
    <2> QED  BY <2>1, <2>2, BranchesPrecede
  <1> HIDE DEF P, Q
  <1>3. Lists(left, right, C \o B, P \cup Branch(c))
    <2>1. Lists(left, right, C, P)
      BY DEF P
    <2> QED  BY <1>2, <2>1, ListsJoin
  <1>4. Lists(left, right, C \o B, Q)
    BY <1>1, <1>3
  <1> QED  BY <1>4 DEF Q

---------------------------------------------------------------------------
(* The merge lists the changes below a directory.                          *)

\* The entries the loop has passed.
Passed(l, i, r, j) == {l[a] : a \in 1 .. i - 1} \cup {r[b] : b \in 1 .. j - 1}

\* After k turns the changes at the entries passed are listed.
ListedAt(left, right, l, r, at, k) ==
    /\ at.i \in 1 .. Len(l) + 1 /\ at.j \in 1 .. Len(r) + 1 /\ Aligned(l, at.i, r, at.j)
    /\ Lists(left, right, at.changes, UNION {Branch(x) : x \in Passed(l, at.i, r, at.j)})
    /\ (at.i > Len(l) /\ at.j > Len(r)) \/ at.i + at.j >= k + 2

\* l and r are the entries of directory d on both sides.
BothEntries(left, right, d, l, r) == l = Entries(left, d) /\ r = Entries(right, d)

\* A child of the directory is an entry of the sides that have it, and in order.
LEMMA EntriesTell ==
  ASSUME NEW left, NEW right, NEW d, NEW l, NEW r, BothEntries(left, right, d, l, r)
  PROVE  /\ Sorted(l) /\ Sorted(r) /\ Len(l) \in Nat /\ Len(r) \in Nat
         /\ \A a \in 1 .. Len(l) : l[a] \in Children(d) /\ left[l[a]] # "absent"
         /\ \A b \in 1 .. Len(r) : r[b] \in Children(d) /\ right[r[b]] # "absent"
         /\ \A c \in Children(d) : left[c] # "absent" => \E a \in 1 .. Len(l) : l[a] = c
         /\ \A c \in Children(d) : right[c] # "absent" => \E b \in 1 .. Len(r) : r[b] = c
  <1>1. l = Entries(left, d) /\ r = Entries(right, d)
    BY DEF BothEntries
  <1>2. ASSUME NEW t, NEW s, s = Entries(t, d)
        PROVE  /\ Sorted(s) /\ Len(s) \in Nat
               /\ \A i \in 1 .. Len(s) : s[i] \in Children(d) /\ t[s[i]] # "absent"
               /\ \A c \in Children(d) : t[c] # "absent" => \E i \in 1 .. Len(s) : s[i] = c
    BY <1>2, EntriesAre DEF Sorted, Children
  <1> QED  BY <1>1, <1>2

\* One more is passed.
LEMMA PassedMore ==
  ASSUME NEW l, NEW r, NEW i \in Nat \ {0}, NEW j
  PROVE  Passed(l, i + 1, r, j) = Passed(l, i, r, j) \cup {l[i]}
  <1>1. {l[a] : a \in 1 .. (i + 1) - 1} = {l[a] : a \in 1 .. i - 1} \cup {l[i]}
    <2>1. 1 .. (i + 1) - 1 = (1 .. i - 1) \cup {i}
      OBVIOUS
    <2> QED  BY <2>1
  <1> QED  BY <1>1 DEF Passed

\* Either side first.
LEMMA PassedBoth ==
  ASSUME NEW l, NEW r, NEW i, NEW j
  PROVE  Passed(l, i, r, j) = Passed(r, j, l, i)
  BY DEF Passed

\* What was passed are entries, and they precede the next one.
LEMMA PassedAre ==
  ASSUME NEW left, NEW right, NEW d, NEW l, NEW r, BothEntries(left, right, d, l, r),
         NEW i \in 1 .. Len(l) + 1, NEW j \in 1 .. Len(r) + 1, NEW c,
         \A a \in 1 .. i - 1 : Before(l[a], c), \A b \in 1 .. j - 1 : Before(r[b], c)
  PROVE  Passed(l, i, r, j) \subseteq Children(d) /\ \A x \in Passed(l, i, r, j) : Before(x, c)
  <1>1. Len(l) \in Nat /\ Len(r) \in Nat
    BY EntriesTell
  <1>2. 1 .. i - 1 \subseteq 1 .. Len(l) /\ 1 .. j - 1 \subseteq 1 .. Len(r)
    BY <1>1
  <1>3. /\ \A a \in 1 .. Len(l) : l[a] \in Children(d)
        /\ \A b \in 1 .. Len(r) : r[b] \in Children(d)
    BY EntriesTell
  <1> QED  BY <1>2, <1>3 DEF Passed

\* A turn of the loop.
LEMMA TurnTells ==
  ASSUME NEW left, NEW right, NEW d, Shared(left, right, d),
         NEW l, NEW r, BothEntries(left, right, d, l, r), NEW below,
         \A c \in Children(d) : left[c] = "dir" /\ right[c] = "dir" =>
                                  Lists(left, right, below[c], Below(c)),
         NEW at, NEW k \in Nat, ListedAt(left, right, l, r, at, k)
  PROVE  ListedAt(left, right, l, r, Turn(left, right, l, r, below, at), k + 1)
  <1> DEFINE i == at.i
             j == at.j
             P == Passed(l, i, r, j)
             after == Turn(left, right, l, r, below, at)
  <1>1. /\ Sorted(l) /\ Sorted(r) /\ Len(l) \in Nat /\ Len(r) \in Nat
        /\ \A a \in 1 .. Len(l) : l[a] \in Children(d) /\ left[l[a]] # "absent"
        /\ \A b \in 1 .. Len(r) : r[b] \in Children(d) /\ right[r[b]] # "absent"
        /\ \A c \in Children(d) : left[c] # "absent" => \E a \in 1 .. Len(l) : l[a] = c
        /\ \A c \in Children(d) : right[c] # "absent" => \E b \in 1 .. Len(r) : r[b] = c
    BY EntriesTell
  <1>2. /\ i \in 1 .. Len(l) + 1 /\ j \in 1 .. Len(r) + 1 /\ i \in Nat \ {0} /\ j \in Nat \ {0}
        /\ Aligned(l, i, r, j) /\ Aligned(r, j, l, i)
        /\ Lists(left, right, at.changes, UNION {Branch(x) : x \in P})
        /\ (i > Len(l) /\ j > Len(r)) \/ i + j >= k + 2
    <2>1. /\ i \in 1 .. Len(l) + 1 /\ j \in 1 .. Len(r) + 1
          /\ Aligned(l, i, r, j)
          /\ Lists(left, right, at.changes, UNION {Branch(x) : x \in P})
          /\ (i > Len(l) /\ j > Len(r)) \/ i + j >= k + 2
      BY DEF ListedAt
    <2>2. Aligned(r, j, l, i)
      BY <2>1, AlignedBoth
    <2> QED  BY <1>1, <2>1, <2>2
  <1> HIDE DEF i, j, P, after
  <1>7. /\ Passed(l, i + 1, r, j) = P \cup {l[i]}
        /\ Passed(l, i, r, j + 1) = P \cup {r[j]}
        /\ Passed(l, i + 1, r, j + 1) = P \cup {l[i]} \cup {r[j]}
    <2>1. i \in Nat \ {0} /\ j \in Nat \ {0}
      BY <1>2
    <2>2. Passed(l, i + 1, r, j) = Passed(l, i, r, j) \cup {l[i]}
      BY <2>1, PassedMore
    <2>3. Passed(r, j + 1, l, i) = Passed(r, j, l, i) \cup {r[j]}
      BY <2>1, PassedMore
    <2>4. Passed(r, j + 1, l, i + 1) = Passed(r, j, l, i + 1) \cup {r[j]}
      BY <2>1, PassedMore
    <2>5. /\ Passed(r, j, l, i) = Passed(l, i, r, j)
          /\ Passed(r, j + 1, l, i) = Passed(l, i, r, j + 1)
          /\ Passed(r, j, l, i + 1) = Passed(l, i + 1, r, j)
          /\ Passed(r, j + 1, l, i + 1) = Passed(l, i + 1, r, j + 1)
      BY PassedBoth
    <2> QED  BY <2>2, <2>3, <2>4, <2>5 DEF P
  <1>3. CASE i > Len(l) /\ j > Len(r)
    <2>1. after = at
      <3>1. ~OnlyIn(l, i, r, j) /\ ~OnlyIn(r, j, l, i)
        BY <1>1, <1>2, <1>3 DEF OnlyIn
      <3> QED  BY <1>3, <3>1 DEF after, Turn, i, j
    <2>2. ListedAt(left, right, l, r, at, k + 1)
      BY <1>2, <1>3 DEF ListedAt, i, j, P
    <2> QED  BY <2>1, <2>2 DEF after
  <1>4. CASE OnlyIn(l, i, r, j)
    <2> DEFINE c == l[i]
               C == at.changes \o Change(c, "removed")
    <2>1. /\ i \in 1 .. Len(l) /\ Aligned(l, i + 1, r, j)
          /\ \A b \in 1 .. Len(r) : r[b] # c
          /\ \A a \in 1 .. i - 1 : Before(l[a], c)
          /\ \A b \in 1 .. j - 1 : Before(r[b], c)
      BY <1>1, <1>2, <1>4, OneAhead
    <2>2. after = [i |-> i + 1, j |-> j, changes |-> C]
      <3>1. ~(i > Len(l) /\ j > Len(r))
        BY <1>1, <2>1
      <3>2. ~OnlyIn(r, j, l, i)
        <4>1. l[i] \in Nodes
          BY <1>1, <2>1 DEF Children
        <4>2. OnlyIn(r, j, l, i) => j \in 1 .. Len(r) /\ Before(r[j], l[i]) /\ Before(l[i], r[j])
          BY <1>1, <1>2, <1>4, <2>1 DEF OnlyIn
        <4>3. j \in 1 .. Len(r) => r[j] \in Nodes
          BY <1>1 DEF Children
        <4> QED  BY <4>1, <4>2, <4>3, BeforeIs
      <3> QED  BY <1>4, <3>1, <3>2 DEF after, Turn, i, j
    <2>3. c \in Children(d) /\ left[c] # "absent" /\ right[c] = "absent"
      BY <1>1, <2>1
    <2>4. Lists(left, right, Change(c, "removed"), Branch(c))
      BY <2>3, OneSided
    <2> HIDE DEF c
    <2>5. P \subseteq Children(d) /\ \A x \in P : Before(x, c)
      BY <1>2, <2>1, PassedAre DEF P
    <2>6. Lists(left, right, C, UNION {Branch(x) : x \in P \cup {c}})
      BY <1>2, <2>3, <2>4, <2>5, ListGrows
    <2>7. Passed(l, i + 1, r, j) = P \cup {c}
      BY <1>7 DEF c
    <2> HIDE DEF C
    <2>8. after.i = i + 1 /\ after.j = j /\ after.changes = C
      BY <2>2
    <2>9. i + 1 \in 1 .. Len(l) + 1 /\ (i + 1) + j >= (k + 1) + 2
      BY <1>1, <1>2, <2>1
    <2>10. ListedAt(left, right, l, r, after, k + 1)
      BY <1>2, <2>1, <2>6, <2>7, <2>8, <2>9 DEF ListedAt
    <2> QED  BY <2>10 DEF after
  <1>5. CASE OnlyIn(r, j, l, i)
    <2> DEFINE c == r[j]
               C == at.changes \o Change(c, "added")
    <2>1. /\ j \in 1 .. Len(r) /\ Aligned(r, j + 1, l, i)
          /\ \A a \in 1 .. Len(l) : l[a] # c
          /\ \A b \in 1 .. j - 1 : Before(r[b], c)
          /\ \A a \in 1 .. i - 1 : Before(l[a], c)
      BY <1>1, <1>2, <1>5, OneAhead
    <2>2. after = [i |-> i, j |-> j + 1, changes |-> C]
      <3>1. ~(i > Len(l) /\ j > Len(r))
        BY <1>1, <2>1
      <3>2. ~OnlyIn(l, i, r, j)
        <4>1. r[j] \in Nodes
          BY <1>1, <2>1 DEF Children
        <4>2. OnlyIn(l, i, r, j) => i \in 1 .. Len(l) /\ Before(r[j], l[i]) /\ Before(l[i], r[j])
          BY <1>1, <1>2, <1>5, <2>1 DEF OnlyIn
        <4>3. i \in 1 .. Len(l) => l[i] \in Nodes
          BY <1>1 DEF Children
        <4> QED  BY <4>1, <4>2, <4>3, BeforeIs
      <3> QED  BY <1>5, <3>1, <3>2 DEF after, Turn, i, j
    <2>3. c \in Children(d) /\ left[c] = "absent" /\ right[c] # "absent"
      BY <1>1, <2>1
    <2>4. Lists(left, right, Change(c, "added"), Branch(c))
      BY <2>3, OneSided
    <2> HIDE DEF c
    <2>5. P \subseteq Children(d) /\ \A x \in P : Before(x, c)
      BY <1>2, <2>1, PassedAre DEF P
    <2>6. Lists(left, right, C, UNION {Branch(x) : x \in P \cup {c}})
      BY <1>2, <2>3, <2>4, <2>5, ListGrows
    <2>7. Passed(l, i, r, j + 1) = P \cup {c} /\ Aligned(l, i, r, j + 1)
      <3>1. Passed(l, i, r, j + 1) = P \cup {c}
        BY <1>7 DEF c
      <3>2. Aligned(l, i, r, j + 1)
        BY <2>1, AlignedBoth, Zenon
      <3> QED  BY <3>1, <3>2
    <2> HIDE DEF C
    <2>8. after.i = i /\ after.j = j + 1 /\ after.changes = C
      BY <2>2
    <2>9. j + 1 \in 1 .. Len(r) + 1 /\ i + (j + 1) >= (k + 1) + 2
      BY <1>1, <1>2, <2>1
    <2>10. ListedAt(left, right, l, r, after, k + 1)
      BY <1>2, <2>6, <2>7, <2>8, <2>9 DEF ListedAt
    <2> QED  BY <2>10 DEF after
  <1>6. CASE ~(i > Len(l) /\ j > Len(r)) /\ ~OnlyIn(l, i, r, j) /\ ~OnlyIn(r, j, l, i)
    <2> DEFINE c == l[i]
               C == at.changes \o ChangeOfEntry(left, right, c, below[c])
    <2>1. /\ i \in 1 .. Len(l) /\ j \in 1 .. Len(r) /\ c = r[j] /\ Aligned(l, i + 1, r, j + 1)
          /\ \A a \in 1 .. i - 1 : Before(l[a], c)
          /\ \A b \in 1 .. j - 1 : Before(r[b], c)
      BY <1>1, <1>2, <1>6, BothAhead
    <2>2. after = [i |-> i + 1, j |-> j + 1, changes |-> C]
      BY <1>6 DEF after, Turn, i, j
    <2>3. c \in Children(d) /\ left[c] # "absent" /\ right[c] # "absent"
      BY <1>1, <2>1
    <2>4. Lists(left, right, ChangeOfEntry(left, right, c, below[c]), Branch(c))
      BY <2>3, TwoSided
    <2> HIDE DEF c
    <2>5. P \subseteq Children(d) /\ \A x \in P : Before(x, c)
      BY <1>2, <2>1, PassedAre DEF P
    <2>6. Lists(left, right, C, UNION {Branch(x) : x \in P \cup {c}})
      BY <1>2, <2>3, <2>4, <2>5, ListGrows
    <2>7. Passed(l, i + 1, r, j + 1) = P \cup {c}
      <3>1. Passed(l, i + 1, r, j + 1) = P \cup {l[i]} \cup {r[j]}
        BY <1>7
      <3>2. r[j] = l[i]
        BY <2>1 DEF c
      <3> QED  BY <3>1, <3>2 DEF c
    <2> HIDE DEF C
    <2>8. after.i = i + 1 /\ after.j = j + 1 /\ after.changes = C
      BY <2>2
    <2>9. /\ i + 1 \in 1 .. Len(l) + 1 /\ j + 1 \in 1 .. Len(r) + 1
          /\ (i + 1) + (j + 1) >= (k + 1) + 2
      BY <1>1, <1>2, <2>1
    <2>10. ListedAt(left, right, l, r, after, k + 1)
      BY <1>2, <2>1, <2>6, <2>7, <2>8, <2>9 DEF ListedAt
    <2> QED  BY <2>10 DEF after
  <1> QED  BY <1>3, <1>4, <1>5, <1>6

\* compareTree lists what changed below a directory of both sides, once it has been
\* called for the directories in it.
LEMMA MergeTells ==
  ASSUME NEW left, NEW right, NEW d, Shared(left, right, d), NEW below,
         \A c \in Children(d) : left[c] = "dir" /\ right[c] = "dir" =>
                                  Lists(left, right, below[c], Below(c))
  PROVE  Lists(left, right, Merge(left, right, Entries(left, d), Entries(right, d), below), Below(d))
  <1> DEFINE l == Entries(left, d)
             r == Entries(right, d)
             N == Len(l) + Len(r)
  <1>1. BothEntries(left, right, d, l, r)
    BY DEF BothEntries
  <1> HIDE DEF l, r
  <1>2. /\ Len(l) \in Nat /\ Len(r) \in Nat /\ N \in Nat
        /\ \A a \in 1 .. Len(l) : l[a] \in Children(d)
        /\ \A b \in 1 .. Len(r) : r[b] \in Children(d)
        /\ \A c \in Children(d) : left[c] # "absent" => \E a \in 1 .. Len(l) : l[a] = c
        /\ \A c \in Children(d) : right[c] # "absent" => \E b \in 1 .. Len(r) : r[b] = c
    BY <1>1, EntriesTell
  <1>3. PICK f : /\ f[0] = [i |-> 1, j |-> 1, changes |-> <<>>]
                 /\ Merge(left, right, l, r, below) = f[N].changes
                 /\ \A k \in 1 .. N : f[k] = Turn(left, right, l, r, below, f[k - 1])
    <2>1. PICK f : Turns(left, right, l, r, below, f)
      BY <1>2, MergeStepwise
    <2> QED  BY <2>1 DEF Turns
  <1> DEFINE Bad == {k \in Nat : k <= N /\ ~ListedAt(left, right, l, r, f[k], k)}
  <1>4. Bad = {}
    <2>1. SUFFICES ASSUME Bad # {} PROVE FALSE
      OBVIOUS
    <2>2. PICK n \in Bad : \A m \in Bad : n <= m
      BY <2>1, LeastIn
    <2>3. n # 0
      <3>1. f[0].i = 1 /\ f[0].j = 1 /\ f[0].changes = <<>>
        BY <1>3
      <3>2. Aligned(l, 1, r, 1) /\ Passed(l, 1, r, 1) = {}
        BY DEF Aligned, Passed
      <3>3. Lists(left, right, <<>>, UNION {Branch(x) : x \in {}})
        BY NothingToList
      <3>4. 1 \in 1 .. Len(l) + 1 /\ 1 \in 1 .. Len(r) + 1 /\ 1 + 1 >= 0 + 2
        BY <1>2
      <3>5. ListedAt(left, right, l, r, f[0], 0)
        BY <3>1, <3>2, <3>3, <3>4 DEF ListedAt
      <3> QED  BY <2>2, <3>5
    <2>4. n - 1 \in Nat /\ n - 1 \notin Bad /\ n - 1 <= N /\ n \in 1 .. N /\ (n - 1) + 1 = n
      <3>1. n - 1 \in Nat /\ ~(n <= n - 1) /\ n - 1 <= N /\ n \in 1 .. N /\ (n - 1) + 1 = n
        BY <1>2, <2>2, <2>3
      <3>2. n - 1 \notin Bad
        BY <2>2, <3>1, Zenon
      <3> QED  BY <3>1, <3>2
    <2>5. ListedAt(left, right, l, r, f[n - 1], n - 1)
      BY <2>4
    <2>6. ListedAt(left, right, l, r, Turn(left, right, l, r, below, f[n - 1]), (n - 1) + 1)
      BY <1>1, <2>4, <2>5, TurnTells
    <2>7. ListedAt(left, right, l, r, f[n], n)
      BY <1>3, <2>4, <2>6
    <2> QED  BY <2>2, <2>7
  <1> DEFINE at == f[N]
             P == Passed(l, at.i, r, at.j)
  <1>5. /\ at.i = Len(l) + 1 /\ at.j = Len(r) + 1
        /\ Lists(left, right, at.changes, UNION {Branch(x) : x \in P})
    <2>1. ListedAt(left, right, l, r, at, N)
      BY <1>2, <1>4
    <2> HIDE DEF at
    <2>2. /\ at.i \in 1 .. Len(l) + 1 /\ at.j \in 1 .. Len(r) + 1
          /\ (at.i > Len(l) /\ at.j > Len(r)) \/ at.i + at.j >= N + 2
          /\ Lists(left, right, at.changes, UNION {Branch(x) : x \in P})
      BY <2>1 DEF ListedAt
    <2> QED  BY <1>2, <2>2
  <1> HIDE DEF at
  <1>6. P = {c \in Children(d) : left[c] # "absent" \/ right[c] # "absent"}
    <2>1. P = {l[a] : a \in 1 .. Len(l)} \cup {r[b] : b \in 1 .. Len(r)}
      <3>1. (Len(l) + 1) - 1 = Len(l) /\ (Len(r) + 1) - 1 = Len(r)
        BY <1>2
      <3> QED  BY <1>5, <3>1 DEF Passed
    <2>2. /\ \A a \in 1 .. Len(l) : left[l[a]] # "absent"
          /\ \A b \in 1 .. Len(r) : right[r[b]] # "absent"
      BY <1>1, EntriesTell
    <2> QED  BY <1>2, <2>1, <2>2
  <1> HIDE DEF P
  <1>7. Topmost(left, right) \cap UNION {Branch(x) : x \in P} = Topmost(left, right) \cap Below(d)
    <2>1. ASSUME NEW x \in P, NEW n \in Branch(x) PROVE n \in Below(d)
      <3>1. x \in Nodes /\ Parent[x] = d
        BY <1>6 DEF Children
      <3>2. x \in Below(d)
        BY <3>1, AncestorsStep DEF Below
      <3>3. n = x \/ (n \in Nodes /\ x \in Ancestors[n])
        <4>1. x # Root
          BY <3>1, TreeAssumption DEF TreeAssumption
        <4> HIDE DEF P
        <4> QED  BY <2>1, <4>1 DEF Branch, Below
      <3>4. n \in Nodes /\ x \in Ancestors[n] => n \in Below(d)
        BY <3>2, AncestorsNest DEF Below
      <3> QED  BY <3>2, <3>3, <3>4
    <2>2. ASSUME NEW n \in Topmost(left, right), n \in Below(d)
          PROVE  \E x \in P : n \in Branch(x)
      <3>1. n \in Nodes /\ left[n] # right[n]
        BY DEF Topmost
      <3>2. PICK c \in Children(d) : n = c \/ c \in Ancestors[n]
        <4>1. d \in Ancestors[n] \/ d = Root
          BY <2>2 DEF Below
        <4>2. d \in PathTo(n) /\ d # n
          BY <3>1, <4>1, NoCycles, TreeAssumption DEF PathTo, TreeAssumption
        <4> QED  BY <3>1, <4>2, WayDown
      <3>3. c \in Nodes
        BY DEF Children
      <3>4. n \in Branch(c)
        <4>1. c # Root
          BY <3>3, TreeAssumption DEF TreeAssumption
        <4> QED  BY <3>1, <3>2, <4>1 DEF Branch, Below
      <3>5. left[n] # "absent" \/ right[n] # "absent"
        BY <3>1
      <3>6. \A t \in Trees : t[n] # "absent" /\ c \in Ancestors[n] => t[c] = "dir"
        BY <3>1, DirsAbove
      <3>7. left[c] # "absent" \/ right[c] # "absent"
        BY <3>2, <3>5, <3>6 DEF Shared
      <3> QED  BY <1>6, <3>4, <3>7
    <2> QED  BY <2>1, <2>2
  <1>8. Lists(left, right, at.changes, Below(d))
    BY <1>5, <1>7, ListsMore
  <1>9. Merge(left, right, l, r, below) = at.changes
    BY <1>3 DEF at
  <1>10. Lists(left, right, Merge(left, right, l, r, below), Below(d))
    BY <1>8, <1>9
  <1> QED  BY <1>10 DEF l, r

---------------------------------------------------------------------------
(* The comparison of two trees, from the bottom up.                        *)

\* How much is below a directory.
Depth(d) == Cardinality(Below(d))

\* There is less below a directory than below the one it is in.
LEMMA DepthIs ==
  ASSUME NEW d \in Nodes \cup {Root}
  PROVE  /\ Depth(d) \in Nat /\ Depth(d) <= Cardinality(Nodes) /\ Cardinality(Nodes) \in Nat
         /\ \A c \in Children(d) : c \in Nodes /\ Depth(c) < Depth(d)
  <1>1. IsFiniteSet(Nodes) /\ \A n \in Nodes : n # Root
    BY TreeAssumption DEF TreeAssumption
  <1>2. Below(d) \subseteq Nodes
    BY DEF Below
  <1>3. /\ IsFiniteSet(Below(d)) /\ Depth(d) \in Nat /\ Depth(d) <= Cardinality(Nodes)
        /\ Cardinality(Nodes) \in Nat
    <2>1. IsFiniteSet(Below(d)) /\ Cardinality(Below(d)) <= Cardinality(Nodes)
      BY <1>1, <1>2, FS_Subset
    <2> QED  BY <1>1, <2>1, FS_CardinalityType DEF Depth
  <1>4. ASSUME NEW c \in Children(d) PROVE c \in Nodes /\ Depth(c) < Depth(d)
    <2>1. c \in Nodes /\ Parent[c] = d /\ c # Root
      BY <1>1 DEF Children
    <2>2. c \in Below(d)
      BY <2>1, AncestorsStep DEF Below
    <2>3. c \notin Below(c)
      BY <2>1, NoCycles DEF Below
    <2>4. Below(c) \subseteq Below(d)
      <3>1. ASSUME NEW n \in Below(c) PROVE n \in Below(d)
        <4>1. n \in Nodes /\ c \in Ancestors[n]
          BY <2>1 DEF Below
        <4>2. Ancestors[c] \subseteq Ancestors[n]
          BY <4>1, AncestorsNest
        <4> QED  BY <2>2, <4>1, <4>2 DEF Below
      <3> QED  BY <3>1
    <2>5. Cardinality(Below(c)) < Cardinality(Below(d))
      <3>1. Below(c) # Below(d)
        BY <2>2, <2>3
      <3>2. /\ IsFiniteSet(Below(c)) /\ Cardinality(Below(c)) <= Cardinality(Below(d))
            /\ Cardinality(Below(c)) # Cardinality(Below(d))
        BY <1>3, <2>4, <3>1, FS_Subset
      <3>3. Cardinality(Below(c)) \in Nat /\ Cardinality(Below(d)) \in Nat
        BY <1>3, <3>2, FS_CardinalityType
      <3> QED  BY <3>2, <3>3
    <2> QED  BY <2>1, <2>5 DEF Depth
  <1> QED  BY <1>3, <1>4

\* g is what compareTree returns for each directory.
Comparison(left, right, g) ==
    /\ Compared(left, right) = g[Root]
    /\ \A d \in Nodes \cup {Root} :
         g[d] = IF SameObject(left, right, d) THEN <<>>
                ELSE Merge(left, right, Entries(left, d), Entries(right, d),
                           [c \in Children(d) |-> g[c]])

LEMMA ComparedStepwise ==
  ASSUME NEW left, NEW right
  PROVE  \E g : Comparison(left, right, g)
  <1> DEFINE Dirs == Nodes \cup {Root}
             Same(d) == SameObject(left, right, d)
             M(d, b) == Merge(left, right, Entries(left, d), Entries(right, d), b)
             Step(g, d) == IF Same(d) THEN <<>> ELSE M(d, [c \in Children(d) |-> g[c]])
             Low(k) == {d \in Dirs : Depth(d) < k}
             Bad == {k \in Nat : ~\E g : g = [d \in Low(k) |-> Step(g, d)]}
  <1>1. Compared(left, right) = (CHOOSE g : g = [d \in Dirs |-> Step(g, d)])[Root]
    BY DEF Compared
  <1>2. \A d \in Dirs : /\ Depth(d) \in Nat /\ Depth(d) <= Cardinality(Nodes)
                        /\ Cardinality(Nodes) \in Nat
                        /\ \A c \in Children(d) : c \in Dirs /\ Depth(c) \in Nat /\ Depth(c) < Depth(d)
    BY DepthIs
  <1> HIDE DEF Dirs, Same, M
  <1>3. Bad = {}
    <2>1. SUFFICES ASSUME Bad # {} PROVE FALSE
      OBVIOUS
    <2>2. PICK n \in Bad : \A m \in Bad : n <= m
      BY <2>1, LeastIn
    <2>3. n # 0
      <3>1. Low(0) = {}
        BY <1>2
      <3> DEFINE g == [d \in {} |-> <<>>]
      <3>2. g = [d \in {} |-> Step(g, d)]
        OBVIOUS
      <3> HIDE DEF Low, Step, g
      <3>3. g = [d \in Low(0) |-> Step(g, d)]
        BY <3>1, <3>2
      <3> QED  BY <3>3
    <2> DEFINE k == n - 1
    <2>4. k \in Nat /\ k \notin Bad /\ n = k + 1
      <3>1. k \in Nat /\ ~(n <= k) /\ n = k + 1
        BY <2>2, <2>3
      <3>2. k \notin Bad
        BY <2>2, <3>1, Zenon
      <3> QED  BY <3>1, <3>2
    <2> HIDE DEF k
    <2>5. PICK g : g = [d \in Low(k) |-> Step(g, d)]
      BY <2>4
    <2>6. \A d \in Low(n) : Children(d) \subseteq Low(k) /\ Low(k) \subseteq Low(n)
      BY <1>2, <2>4
    <2> HIDE DEF Low
    <2> DEFINE h == [d \in Low(n) |-> IF d \in Low(k) THEN g[d] ELSE Step(g, d)]
    <2>7. \A d \in Low(n) : h[d] = Step(h, d)
      <3> TAKE d \in Low(n)
      <3>1. \A c \in Children(d) : h[c] = g[c]
        BY <2>6
      <3>2. [c \in Children(d) |-> h[c]] = [c \in Children(d) |-> g[c]]
        BY <3>1
      <3>3. Step(h, d) = Step(g, d)
        BY <3>2
      <3>4. d \in Low(k) => g[d] = Step(g, d)
        <4> HIDE DEF Step
        <4> QED  BY <2>5, Zenon
      <3>5. h[d] = Step(g, d)
        <4> HIDE DEF Step
        <4> QED  BY <3>4
      <3> QED  BY <3>3, <3>5
    <2>8. h = [d \in Low(n) |-> Step(h, d)]
      <3>1. h = [d \in Low(n) |-> h[d]]
        OBVIOUS
      <3> HIDE DEF h, Step
      <3> QED  BY <2>7, <3>1
    <2> HIDE DEF h
    <2> QED  BY <2>2, <2>8
  <1>4. \E g : g = [d \in Dirs |-> Step(g, d)]
    <2> DEFINE K == Cardinality(Nodes) + 1
    <2>1. K \in Nat /\ Low(K) = Dirs
      <3>1. Cardinality(Nodes) \in Nat
        BY <1>2 DEF Dirs
      <3> QED  BY <1>2, <3>1
    <2> HIDE DEF K, Low
    <2>2. PICK g : g = [d \in Low(K) |-> Step(g, d)]
      BY <1>3, <2>1
    <2> QED  BY <2>1, <2>2
  <1> DEFINE g == CHOOSE g : g = [d \in Dirs |-> Step(g, d)]
  <1>5. g = [d \in Dirs |-> Step(g, d)]
    BY <1>4, Zenon
  <1>6. Compared(left, right) = g[Root]
    BY <1>1
  <1> HIDE DEF g
  <1>7. \A d \in Dirs : g[d] = Step(g, d)
    <2> HIDE DEF Step
    <2> QED  BY <1>5
  <1> USE DEF Dirs, Same, M
  <1>8. Comparison(left, right, g)
    BY <1>6, <1>7 DEF Comparison
  <1> QED  BY <1>8

\* The comparison of two trees lists every topmost change.
LEMMA ComparedTells ==
  ASSUME NEW left \in Trees, NEW right \in Trees
  PROVE  Lists(left, right, Compared(left, right), Nodes)
  <1>1. PICK g : Comparison(left, right, g)
    BY ComparedStepwise
  <1> DEFINE Dirs == Nodes \cup {Root}
             Good(d) == Shared(left, right, d) => Lists(left, right, g[d], Below(d))
             Bad == {k \in Nat : \E d \in Dirs : Depth(d) = k /\ ~Good(d)}
  <1>2. ASSUME NEW d \in Dirs, \A c \in Children(d) : Good(c) PROVE Good(d)
    <2>1. SUFFICES ASSUME Shared(left, right, d) PROVE Lists(left, right, g[d], Below(d))
      OBVIOUS
    <2>2. CASE SameObject(left, right, d)
      <3>1. g[d] = <<>>
        BY <1>1, <2>2 DEF Comparison
      <3>2. Topmost(left, right) \cap Below(d) = {}
        BY <2>2 DEF SameObject, Topmost
      <3> QED  BY <3>1, <3>2, NothingToList
    <2>3. CASE ~SameObject(left, right, d)
      <3> DEFINE b == [c \in Children(d) |-> g[c]]
      <3>1. g[d] = Merge(left, right, Entries(left, d), Entries(right, d), b)
        BY <1>1, <2>3 DEF Comparison
      <3>2. ASSUME NEW c \in Children(d), left[c] = "dir", right[c] = "dir"
            PROVE  Lists(left, right, b[c], Below(c))
        <4>1. c \in Nodes /\ c # Root
          BY <2>1, SharedAbove
        <4>2. Shared(left, right, c)
          BY <3>2, <4>1 DEF Shared, IsDir
        <4> QED  BY <1>2, <4>2
      <3> HIDE DEF b
      <3>3. Lists(left, right, Merge(left, right, Entries(left, d), Entries(right, d), b), Below(d))
        BY <2>1, <3>2, MergeTells
      <3> QED  BY <3>1, <3>3
    <2> QED  BY <2>2, <2>3
  <1> HIDE DEF Good
  <1>3. Bad = {}
    <2>1. SUFFICES ASSUME Bad # {} PROVE FALSE
      OBVIOUS
    <2>2. PICK k \in Bad : \A m \in Bad : k <= m
      BY <2>1, LeastIn
    <2>3. PICK d \in Dirs : Depth(d) = k /\ ~Good(d)
      BY <2>2
    <2>4. ASSUME NEW c \in Children(d) PROVE Good(c)
      <3>1. Depth(c) \in Nat /\ ~(k <= Depth(c)) /\ c \in Dirs
        BY <2>2, <2>3, DepthIs
      <3>2. Depth(c) \notin Bad
        BY <2>2, <3>1, Zenon
      <3> QED  BY <3>1, <3>2
    <2> QED  BY <1>2, <2>3, <2>4
  <1>4. Good(Root)
    BY <1>3, DepthIs
  <1>5. Shared(left, right, Root) /\ Below(Root) = Nodes
    BY DEF Shared, IsDir, Below
  <1> QED  BY <1>1, <1>4, <1>5 DEF Good, Comparison

---------------------------------------------------------------------------
(* What the diff of two trees says.                                        *)

\* At a node that differs, or above it, there is a topmost change.
LEMMA Uppermost ==
  ASSUME NEW left, NEW right, NEW n \in Nodes, left[n] # right[n]
  PROVE  \E m \in Topmost(left, right) : m \in Chain(n)
  <1> DEFINE T == Topmost(left, right)
             Differs(m) == \E a \in Chain(m) : left[a] # right[a]
             S == {m \in Nodes : Differs(m) /\ Chain(m) \cap T = {}}
  <1>1. SUFFICES ASSUME S # {} PROVE FALSE
    BY DEF Chain
  <1>2. PICK m \in S : Parent[m] \notin S
    <2>1. S \in SUBSET Nodes
      OBVIOUS
    <2> HIDE DEF S
    <2> QED  BY <1>1, <2>1, RootAssumption DEF RootAssumption
  <1>3. m \in Nodes /\ Differs(m) /\ Chain(m) \cap T = {}
    BY <1>2
  <1>4. \A a \in Ancestors[m] : left[a] = right[a]
    <2>1. CASE Parent[m] = Root
      BY <1>3, <2>1, AncestorsStep
    <2>2. CASE Parent[m] # Root
      <3>1. Parent[m] \in Nodes /\ Ancestors[m] = Chain(Parent[m])
        BY <1>3, <2>2, AncestorsStep, TreeAssumption DEF Chain, TreeAssumption
      <3>2. Chain(Parent[m]) \cap T = {}
        BY <1>3, <3>1 DEF Chain
      <3> HIDE DEF T
      <3> QED  BY <1>2, <3>1, <3>2
    <2> QED  BY <2>1, <2>2
  <1>5. left[m] # right[m]
    BY <1>3, <1>4 DEF Chain
  <1> QED  BY <1>3, <1>4, <1>5 DEF Topmost, Chain

\* A list of changes has as many changes as there are.
LEMMA ListsCount ==
  ASSUME NEW left, NEW right, NEW C, Lists(left, right, C, Nodes)
  PROVE  Len(C) \in Nat /\ Cardinality(Topmost(left, right)) = Len(C)
  <1> DEFINE T == Topmost(left, right)
             N == Len(C)
             f == [i \in 1 .. N |-> C[i].node]
  <1>1. N \in Nat
    <2>1. PICK S : C \in Seq(S)
      BY DEF Lists
    <2> QED  BY <2>1
  <1>2. /\ \A i \in 1 .. N : C[i].node \in T
        /\ \A n \in T : \E i \in 1 .. N : C[i].node = n
        /\ \A i, j \in 1 .. N : i < j => C[i].node # C[j].node
    BY DEF Lists, Topmost
  <1> HIDE DEF T, N
  <1>3. \A i, j \in 1 .. N : f[i] = f[j] => i = j
    <2>1. \A i, j \in 1 .. N : i = j \/ i < j \/ j < i
      BY <1>1
    <2> QED  BY <1>2, <2>1
  <1>4. f \in [1 .. N -> T] /\ \A n \in T : \E i \in 1 .. N : f[i] = n
    BY <1>2
  <1> HIDE DEF f
  <1>5. f \in Bijection(1 .. N, T)
    BY <1>3, <1>4 DEF Bijection, Injection, Surjection, IsInjective
  <1>6. ExistsBijection(1 .. N, T)
    BY <1>5 DEF ExistsBijection
  <1>7. Cardinality(T) = N
    BY <1>1, <1>6, FS_CountingElements
  <1> QED  BY <1>1, <1>7 DEF T, N

\* Every difference is covered by a topmost change.
LEMMA DifferencesAreCovered ==
  ASSUME NEW left \in Trees, NEW right \in Trees, NEW n \in Nodes, left[n] # right[n],
         NEW m \in Topmost(left, right), m \in Chain(n), NEW c,
         c = [node |-> m, change |-> Expected(left, right, m)]
  PROVE  n \in Covered(c)
  <1>1. m \in Nodes /\ m # Root /\ left[m] # right[m]
    BY TreeAssumption DEF Topmost, TreeAssumption
  <1>2. c.node = m /\ c.change = Expected(left, right, m)
    OBVIOUS
  <1>3. CASE n = m
    BY <1>2, <1>3 DEF Covered
  <1>4. CASE m \in Ancestors[n]
    <2>1. n \in Below(m)
      BY <1>1, <1>4 DEF Below
    <2>2. Expected(left, right, m) # "modified"
      <3>1. \A t \in Trees : t[n] # "absent" => t[m] = "dir"
        BY <1>4, DirsAbove
      <3>2. left[m] = "dir" \/ right[m] = "dir"
        BY <3>1
      <3> QED  BY <1>1, <3>2 DEF Expected
    <2> QED  BY <1>2, <2>1, <2>2 DEF Covered
  <1> QED  BY <1>3, <1>4 DEF Chain

\* diffTrees: the diff of any two trees tells the change.
LEMMA DiffTells ==
  ASSUME NEW left \in Trees, NEW right \in Trees
  PROVE  TellsTheChange(left, right)
  <1> DEFINE all == Compared(left, right)
             T == Topmost(left, right)
             N == Len(all)
             M == IF MaxStateChanges = 0 \/ N < MaxStateChanges THEN N ELSE MaxStateChanges
             diff == DiffTrees(left, right)
  <1>1. Lists(left, right, all, Nodes)
    BY ComparedTells
  <1>2. PICK S : all \in Seq(S)
    BY <1>1 DEF Lists
  <1>3. N \in Nat /\ DOMAIN all = 1 .. N
    BY <1>2
  <1>4. /\ \A i \in 1 .. N : /\ all[i] = [node |-> all[i].node,
                                          change |-> Expected(left, right, all[i].node)]
                             /\ all[i].node \in T
        /\ \A n \in T : \E i \in 1 .. N : all[i].node = n
        /\ \A i, j \in 1 .. N : i < j => Precedes(all[i].node, all[j].node)
    BY <1>1 DEF Lists, Topmost
  <1>5. diff = [equal |-> left = right, changes |-> SubSeq(all, 1, M), total |-> N,
                truncated |-> N > M]
    BY DEF DiffTrees
  <1>6. N = Cardinality(T)
    BY <1>1, ListsCount
  <1> HIDE DEF all, T, diff
  <1>7. M \in Nat /\ M <= N
    BY <1>3, DiffAssumption DEF DiffAssumption
  <1> HIDE DEF M
  <1>8. /\ diff.equal <=> left = right
        /\ diff.changes = SubSeq(all, 1, M) /\ diff.total = N
        /\ diff.truncated <=> N > M
    BY <1>5
  <1>9. (left = right) <=> N = 0
    <2>1. ASSUME left = right PROVE N = 0
      <3>1. T = {}
        BY <2>1 DEF T, Topmost
      <3> QED  BY <1>3, <1>4, <3>1
    <2>2. ASSUME N = 0 PROVE left = right
      <3>1. T = {}
        BY <1>4, <2>2
      <3>2. \A n \in Nodes : left[n] = right[n]
        BY <3>1, Uppermost DEF T
      <3> QED  BY <3>2 DEF Trees
    <2> QED  BY <2>1, <2>2
  <1>10. {[node |-> n, change |-> Expected(left, right, n)] : n \in T} = ToSet(all)
    <2>1. ASSUME NEW n \in T
          PROVE  [node |-> n, change |-> Expected(left, right, n)] \in ToSet(all)
      <3>1. PICK i \in 1 .. N : all[i].node = n
        BY <1>4
      <3> QED  BY <1>3, <1>4, <3>1 DEF ToSet
    <2>2. ASSUME NEW i \in DOMAIN all
          PROVE  \E n \in T : all[i] = [node |-> n, change |-> Expected(left, right, n)]
      BY <1>3, <1>4
    <2> QED  BY <2>1, <2>2 DEF ToSet
  <1>11. ASSUME NEW n \in Nodes, left[n] # right[n]
         PROVE  \E i \in DOMAIN all : n \in Covered(all[i])
    <2>1. PICK m \in T : m \in Chain(n)
      BY <1>11, Uppermost DEF T
    <2>2. PICK i \in 1 .. N : all[i].node = m
      BY <1>4
    <2>3. all[i] = [node |-> m, change |-> Expected(left, right, m)]
      BY <1>4, <2>2
    <2> QED  BY <1>3, <1>11, <2>1, <2>3, DifferencesAreCovered DEF T
  <1>12. Len(SubSeq(all, 1, M)) = M /\ IsPrefix(SubSeq(all, 1, M), all)
    <2> DEFINE p == SubSeq(all, 1, M)
    <2>1. \A i \in 1 .. M : all[i] \in S
      BY <1>2, <1>3, <1>7
    <2>2. p \in Seq(S) /\ Len(p) = M
      BY <1>7, <2>1, SubSeqProperties
    <2> HIDE DEF p
    <2>3. SubSeq(p, 1, Len(p)) = p
      BY <2>2, SubSeqFull
    <2>4. IsPrefix(p, all)
      BY <1>7, <2>2, <2>3 DEF IsPrefix, p
    <2> QED  BY <2>2, <2>4 DEF p
  <1>13. ASSUME NEW i \in DOMAIN all, NEW j \in DOMAIN all, i < j,
                NEW m \in Ancestors[all[i].node] \cup {all[i].node},
                NEW n \in Ancestors[all[j].node] \cup {all[j].node}, Parent[m] = Parent[n]
         PROVE  m = n \/ Before(m, n)
    BY <1>3, <1>4, <1>13 DEF Precedes, Chain
  <1>14. /\ diff.equal <=> diff.total = 0
         /\ diff.total = Cardinality(T)
         /\ IsPrefix(diff.changes, all)
         /\ diff.truncated <=> Len(diff.changes) < diff.total
    <2>1. N > M <=> M < N
      BY <1>3, <1>7
    <2> QED  BY <1>6, <1>8, <1>9, <1>12, <2>1
  <1> QED  BY <1>10, <1>11, <1>13, <1>14 DEF TellsTheChange, all, T, diff

---------------------------------------------------------------------------
(* The states that are compared are trees.                                 *)

\* What a snapshot contains of a tree is a tree.
LEMMA VisibleIsATree ==
  ASSUME NEW t \in Trees
  PROVE  Visible(t) \in Trees
  <1>1. Visible(t) \in [Nodes -> {"absent", "dir"} \cup Contents]
    BY DEF Visible, Trees
  <1>2. ASSUME NEW n \in Nodes, Visible(t)[n] # "absent"
        PROVE  IsDir(Visible(t), Parent[n])
    <2>1. CASE Parent[n] = Root
      BY <2>1 DEF IsDir
    <2>2. CASE Parent[n] # Root
      <3> DEFINE p == Parent[n]
      <3>1. p \in Nodes /\ Ancestors[n] = {p} \cup Ancestors[p]
        BY <2>2, AncestorsStep, TreeAssumption DEF TreeAssumption
      <3>2. /\ t[n] # "absent"
            /\ \A m \in Ancestors[n] \cup {n} : ~Match(m, IsDir(t, m))
        BY <1>2 DEF Visible
      <3>3. t[p] = "dir"
        BY <2>2, <3>2 DEF Trees, IsDir
      <3> HIDE DEF p
      <3>4. Visible(t)[p] = t[p]
        BY <3>1, <3>2 DEF Visible
      <3> QED  BY <3>3, <3>4 DEF IsDir, p
    <2> QED  BY <2>1, <2>2
  <1> QED  BY <1>1, <1>2 DEF Trees

\* So is what a capture contains of a workspace that changes meanwhile.
LEMMA CapturesAreTrees ==
  ASSUME began \in Trees, tree \in Trees
  PROVE  Captures \subseteq Trees
  <1> DEFINE Early(n, early) == (Ancestors[n] \cup {n}) \cap early # {}
             C(early) == [n \in Nodes |-> IF Early(n, early) THEN Visible(began)[n]
                                                             ELSE Visible(tree)[n]]
  <1>1. Captures = {C(early) : early \in SUBSET Children(Root)}
    BY DEF Captures
  <1>2. Visible(began) \in Trees /\ Visible(tree) \in Trees
    BY VisibleIsATree
  <1>3. ASSUME NEW early \in SUBSET Children(Root) PROVE C(early) \in Trees
    <2>1. C(early) \in [Nodes -> {"absent", "dir"} \cup Contents]
      BY <1>2 DEF Trees
    <2>2. ASSUME NEW n \in Nodes, C(early)[n] # "absent"
          PROVE  IsDir(C(early), Parent[n])
      <3>1. CASE Parent[n] = Root
        BY <3>1 DEF IsDir
      <3>2. CASE Parent[n] # Root
        <4> DEFINE p == Parent[n]
        <4>1. p \in Nodes /\ Ancestors[n] = {p} \cup Ancestors[p]
          BY <3>2, AncestorsStep, TreeAssumption DEF TreeAssumption
        <4>2. n \notin early
          BY <3>2 DEF Children
        <4>3. Early(n, early) <=> Early(p, early)
          BY <4>1, <4>2
        <4>4. \A t \in Trees : t[n] # "absent" => t[p] = "dir"
          BY <3>2 DEF Trees, IsDir
        <4> HIDE DEF p, Early
        <4>5. C(early)[p] = "dir"
          BY <1>2, <2>2, <4>1, <4>3, <4>4
        <4> QED  BY <4>5 DEF IsDir, p
      <3> QED  BY <3>1, <3>2
    <2> HIDE DEF C
    <2> QED  BY <2>1, <2>2 DEF Trees
  <1> QED  BY <1>1, <1>3

\* The workspace, the state a capture began from, and the states published.
Comparable == {tree, start, began, position} \subseteq Trees

LEMMA ComparableStarts ==
  ASSUME Init
  PROVE  Comparable
  <1>1. /\ tree \in StartTrees /\ start = Visible(tree)
        /\ began = start /\ position = start
    BY DEF Init, WatcherInit, NoWatcher
  <1>2. tree \in Trees
    BY <1>1, WatcherAssumption DEF WatcherAssumption
  <1> QED  BY <1>1, <1>2, VisibleIsATree DEF Comparable

LEMMA ComparableKeeps ==
  ASSUME Comparable, [Next]_observersVars
  PROVE  Comparable'
  <1> USE DEF Comparable
  <1>1. CASE UNCHANGED watcherVars
    BY <1>1 DEF watcherVars, worldVars, loopVars
  <1>2. CASE World
    <2>1. PICK n \in Nodes : Write(n) \/ Delete(n) \/ Arrive(n)
      BY <1>2 DEF World
    <2>2. tree' \in Trees /\ UNCHANGED <<start, began, position>>
      BY <2>1 DEF Write, Delete, Arrive, Happens, loopVars
    <2> QED  BY <2>2
  <1>3. CASE Source
    <2>1. UNCHANGED <<tree, start, began, position>>
      BY <1>3 DEF Source, HandleEvent, HandleOverflow, AddWatch, ListDir, GoOn, Walked,
                  loopVars, worldVars
    <2> QED  BY <2>1
  <1>4. CASE BeginCapture \/ TakeSignal \/ TakeError
    <2>1. UNCHANGED <<tree, start, position>> /\ began' \in {began, tree}
      BY <1>4 DEF BeginCapture, TakeSignal, TakeError, worldVars
    <2> QED  BY <2>1
  <1>5. CASE EndCapture \/ RecordArtifact \/ ReconcileFails
    <2>1. UNCHANGED <<tree, start>> /\ began' \in {began, start}
      BY <1>5 DEF EndCapture, RecordArtifact, ReconcileFails, worldVars
    <2>2. position' = position \/ position' \in Captures
      BY <1>5 DEF EndCapture, RecordArtifact, ReconcileFails, Publish
    <2> QED  BY <2>1, <2>2, CapturesAreTrees
  <1>6. CASE UNCHANGED observersVars
    BY <1>1, <1>6 DEF observersVars
  <1> QED  BY <1>1, <1>2, <1>3, <1>4, <1>5, <1>6 DEF Next, WatcherNext, Checkpoint

\* The diff of the state a recording started from and its last checkpoint names
\* every topmost change once, as what it is and in order, covers every difference,
\* and says so when it leaves some out, whatever the workspace and its changes.
THEOREM DiffsAreTrue == Spec => []DiffTellsTheChange
  <1>1. Spec => []Comparable
    BY ComparableStarts, ComparableKeeps, PTL DEF Spec
  <1>2. ASSUME Comparable PROVE DiffTellsTheChange
    BY <1>2, DiffTells DEF Comparable, DiffTellsTheChange
  <1> QED  BY <1>1, <1>2, PTL

---------------------------------------------------------------------------
(* Types.                                                                  *)

\* What the stream's invariant does not say of its type: flags, its own and Codex's.
StreamFlags ==
    /\ rows \in 0 .. 2 /\ exists \in BOOLEAN /\ exited \in BOOLEAN
    /\ final \in BOOLEAN /\ announced \in BOOLEAN
    /\ failed \in {"no", "thread", "event", "read", "line"}
    /\ sinkBroken \in BOOLEAN /\ diagnosed \in BOOLEAN

\* Every step of the stream, of Codex and of the recorder sets flags to flags.
LEMMA StreamFlagsKeep ==
  ASSUME StreamFlags, RolloutNext
  PROVE  StreamFlags'
  <1> USE DEF StreamFlags
  <1>1. CASE Codex
    <2>1. CASE Correlate
      <3>1. rows' \in 0 .. 1 \/ rows' \in 0 .. 2
        BY <2>1 DEF Correlate
      <3> QED  BY <2>1, <3>1 DEF Correlate, streamVars, sinkVars
    <2>2. CASE CreateRollout \/ Exit
      BY <2>2 DEF Exit, CreateRollout, streamVars, sinkVars
    <2>3. CASE BeginLine \/ EndLine
      BY <2>3 DEF BeginLine, EndLine, streamVars, sinkVars
    <2> QED  BY <1>1, <2>1, <2>2, <2>3 DEF Codex
  <1>2. CASE StopStream \/ Interrupt \/ BreakSink
    BY <1>2 DEF StopStream, Interrupt, BreakSink, streamVars, codexVars
  <1>3. CASE Cease
    BY <1>3 DEF Cease, GiveUpLooking, ReadForTheLastTime, codexVars, sinkVars, Return
  <1>4. CASE Report
    BY <1>4 DEF Report, codexVars
  <1>5. CASE Look \/ LookAgain \/ Check \/ Announce
    BY <1>5 DEF Look, LookAgain, Check, Announce, codexVars, sinkVars, GoTo, Return
  <1>6. CASE Read \/ ReadFails \/ EndOfFile \/ NoLineLeft \/ Tick
    BY <1>6 DEF Read, ReadFails, EndOfFile, NoLineLeft, Tick, codexVars, sinkVars, GoTo, Return
  <1>7. CASE TreatLine
    BY <1>7 DEF TreatLine, Fails, codexVars, sinkVars
  <1> QED
    BY <1>1, <1>2, <1>3, <1>4, <1>5, <1>6, <1>7 DEF RolloutNext, Stream, Poll, Surroundings

\* What the watcher's invariant does not say of its type: bounds, flags and artifacts.
WatcherFlags ==
    /\ changes \in 0 .. MaxChanges
    /\ watched \subseteq Nodes \cup {Root} /\ overflow \in BOOLEAN
    /\ Len(queue) <= QueueSize
    /\ signal \in BOOLEAN /\ error \in BOOLEAN
    /\ loop \in {"waiting", "starting", "select", "capturing", "recording", "none", "over"}
    /\ timer \in BOOLEAN /\ pending \subseteq {n \in Nodes : position[n] \in Contents}
    /\ artifacts \in [Nodes -> {"none"} \cup Contents]
    /\ reported \in BOOLEAN /\ missed \in BOOLEAN

\* Every step keeps within the bounds: no notification is queued beyond its limit.
LEMMA WatcherFlagsKeep ==
  ASSUME Watching, WatcherFlags, Comparable, [WatcherNext]_watcherVars
  PROVE  WatcherFlags'
  <1> USE DEF WatcherFlags
  <1>1. CASE UNCHANGED watcherVars
    BY <1>1 DEF watcherVars, worldVars, libraryVars, sourceVars, loopVars
  <1>2. CASE World
    <2>1. PICK n \in Nodes, new \in Trees, created \in BOOLEAN : Happens(n, new, created)
      BY <1>2, Changes DEF Watching
    <2>2. UNCHANGED <<signal, error, loop, timer, position, pending, artifacts, reported, missed>>
      BY <2>1 DEF Happens, sourceVars, loopVars
    <2>3. changes' \in 0 .. MaxChanges
      BY <2>1, WatcherAssumption DEF Happens, WatcherAssumption
    <2>4. watched' \subseteq Nodes \cup {Root} /\ overflow' \in BOOLEAN
      BY <2>1 DEF Happens
    <2>5. Len(queue') <= QueueSize
      <3>1. queue' = queue \/ (Len(queue) < QueueSize /\ \E x : queue' = Append(queue, x))
        BY <2>1 DEF Happens
      <3>2. \A x : Len(Append(queue, x)) = Len(queue) + 1 /\ Len(queue) \in Nat
        BY DEF Watching
      <3> QED  BY <3>1, <3>2, WatcherAssumption DEF WatcherAssumption
    <2> QED  BY <2>2, <2>3, <2>4, <2>5
  <1>3. CASE HandleEvent \/ HandleOverflow
    <2>1. UNCHANGED <<changes, watched, loop, timer, position, pending, artifacts, reported, missed>>
      BY <1>3 DEF HandleEvent, HandleOverflow, loopVars, worldVars
    <2>2. overflow' \in BOOLEAN /\ signal' \in BOOLEAN /\ error' \in BOOLEAN
      BY <1>3 DEF HandleEvent, HandleOverflow, Signal, SignalError, sourceVars
    <2>3. queue' = queue \/ (queue # <<>> /\ queue' = Tail(queue))
      BY <1>3 DEF HandleEvent, HandleOverflow
    <2>4. queue # <<>> => Len(Tail(queue)) = Len(queue) - 1 /\ Len(queue) \in Nat
      BY DEF Watching
    <2>5. Len(queue') <= QueueSize
      BY <2>3, <2>4, WatcherAssumption DEF WatcherAssumption
    <2> QED  BY <2>1, <2>2, <2>5
  <1>4. CASE AddWatch \/ ListDir
    <2>1. UNCHANGED <<changes, overflow, queue, timer, position, pending, artifacts, missed>>
      BY <1>4 DEF AddWatch, ListDir, GoOn, Walked, loopVars, worldVars, libraryVars
    <2>2. /\ signal' \in BOOLEAN /\ error' \in BOOLEAN /\ reported' \in BOOLEAN
          /\ loop' \in {"waiting", "starting", "select", "capturing", "recording", "none", "over"}
      BY <1>4 DEF AddWatch, ListDir, GoOn, Walked, Signal, SignalError, FirstStep, loopVars
    <2>3. watched' \subseteq Nodes \cup {Root}
      <3>1. CASE ListDir
        BY <3>1 DEF ListDir, libraryVars
      <3>2. CASE AddWatch
        <4>1. Head(walk) \in Walks
          BY <3>2 DEF AddWatch, Watching
        <4>2. Head(walk).dir \in Nodes \cup {Root}
          BY <4>1 DEF Walks
        <4> QED  BY <3>2, <4>2 DEF AddWatch
      <3> QED  BY <1>4, <3>1, <3>2
    <2> QED  BY <2>1, <2>2, <2>3
  <1>5. CASE BeginCapture \/ TakeSignal \/ TakeError
    BY <1>5 DEF BeginCapture, TakeSignal, TakeError, libraryVars, sourceVars, worldVars
  <1>6. CASE EndCapture \/ RecordArtifact \/ ReconcileFails
    <2>1. /\ UNCHANGED <<libraryVars, sourceVars, worldVars>> /\ UNCHANGED <<timer, reported>>
          /\ loop' \in {"select", "recording", "over"}
          /\ missed' \in BOOLEAN
      BY <1>6 DEF EndCapture, RecordArtifact, ReconcileFails, Publish, ToRecord
    <2>2. pending' \subseteq {n \in Nodes : position'[n] \in Contents}
      <3>1. CASE EndCapture
        BY <3>1 DEF EndCapture, Publish, ToRecord, ArtifactDelta
      <3>2. CASE RecordArtifact \/ ReconcileFails
        <4>1. position' = position /\ pending' \subseteq pending
          BY <3>2 DEF RecordArtifact, ReconcileFails, ToRecord
        <4> QED  BY <4>1
      <3> QED  BY <1>6, <3>1, <3>2
    <2>3. artifacts' \in [Nodes -> {"none"} \cup Contents]
      <3>1. CASE RecordArtifact
        <4>1. PICK n \in pending : artifacts' = [artifacts EXCEPT ![n] = position[n]]
          BY <3>1 DEF RecordArtifact
        <4>2. position[n] \in Contents
          BY <4>1
        <4> QED  BY <4>1, <4>2
      <3>2. CASE ~RecordArtifact
        BY <1>6, <3>2 DEF EndCapture, ReconcileFails
      <3> QED  BY <3>1, <3>2
    <2> QED  BY <2>1, <2>2, <2>3 DEF libraryVars, sourceVars, worldVars
  <1> QED  BY <1>1, <1>2, <1>3, <1>4, <1>5, <1>6 DEF WatcherNext, Source, Checkpoint

\* Both.
FlagsInv == StreamFlags /\ WatcherFlags

\* They hold in the beginning, for either observer.
LEMMA FlagsStart ==
  ASSUME Init
  PROVE  FlagsInv
  <1>1. StreamFlags
    <2>1. /\ rows = 0
          /\ {exists, exited, final, announced, sinkBroken, diagnosed} \subseteq BOOLEAN
          /\ failed = "no"
      BY DEF Init, RolloutInit, NoStream
    <2> QED  BY <2>1 DEF StreamFlags
  <1>2. Len(<<>>) = 0
    OBVIOUS
  <1>3. WatcherFlags
    <2>1. changes \in {0, MaxChanges} /\ queue = <<>> /\ watched = {}
          /\ pending = {} /\ artifacts = [n \in Nodes |-> "none"]
      BY DEF Init, WatcherInit, NoWatcher
    <2>2. /\ {overflow, signal, error, timer, reported, missed} \subseteq BOOLEAN
          /\ loop \in {"waiting", "none"}
      BY DEF Init, WatcherInit, NoWatcher
    <2>3. changes \in 0 .. MaxChanges /\ Len(queue) <= QueueSize
      BY <1>2, <2>1, WatcherAssumption DEF WatcherAssumption
    <2>4. artifacts \in [Nodes -> {"none"} \cup Contents]
      BY <2>1
    <2> QED  BY <2>1, <2>2, <2>3, <2>4 DEF WatcherFlags
  <1> QED  BY <1>1, <1>3 DEF FlagsInv

\* A step of one observer leaves the other's alone.
LEMMA FlagsKeep ==
  ASSUME ObserversInv, Comparable, FlagsInv, [Next]_observersVars
  PROVE  FlagsInv'
  <1>1. CASE RolloutNext /\ UNCHANGED watcherVars
    BY <1>1, StreamFlagsKeep, WatcherFlagsKeep DEF FlagsInv, ObserversInv, WatcherInv
  <1>2. CASE [WatcherNext]_watcherVars /\ UNCHANGED rolloutVars
    <2>1. WatcherFlags'
      BY <1>2, WatcherFlagsKeep DEF FlagsInv, ObserversInv, WatcherInv
    <2>2. StreamFlags'
      BY <1>2 DEF FlagsInv, StreamFlags, rolloutVars, codexVars, streamVars, sinkVars
    <2> QED  BY <2>1, <2>2 DEF FlagsInv
  <1> QED  BY <1>1, <1>2 DEF Next, observersVars

\* The invariants hold together in every reachable state.
LEMMA FlagsKept == Spec => [](ObserversInv /\ Comparable /\ FlagsInv)
  BY ObserversStart, ObserversKeep, ComparableStarts, ComparableKeeps, FlagsStart, FlagsKeep, PTL
     DEF Spec

\* The stream's variables keep their types: it reads no further than the file goes,
\* and is at one of its places.
THEOREM StreamTyping == Spec => []RolloutTypeOK
  <1>1. ASSUME ObserversInv, FlagsInv PROVE RolloutTypeOK
    <2>1. CASE observer = "stream"
      <3>1. Following /\ Reading /\ StreamFlags
        BY <1>1, <2>1 DEF ObserversInv, StreamInv, RolloutInv, FlagsInv
      <3>2. Size \in Nat
        BY <3>1 DEF Reading, Size
      <3>3. offset \in 0 .. Size
        BY <3>1, <3>2 DEF Reading
      <3> QED  BY <3>1, <3>3 DEF Following, Reading, StreamFlags, RolloutTypeOK
    <2>2. CASE observer # "stream"
      <3>1. NoStream /\ StreamFlags
        BY <1>1, <2>2 DEF ObserversInv, StreamInv, FlagsInv
      <3>2. offset \in 0 .. Size
        BY <3>1 DEF NoStream, Size
      <3> QED  BY <3>1, <3>2 DEF NoStream, StreamFlags, RolloutTypeOK
    <2> QED  BY <2>1, <2>2
  <1> QED  BY <1>1, FlagsKept, PTL

\* The watcher's and the loop's variables keep their types: every state is one of
\* the nodes, the walk is of directories and the queue within its limit.
THEOREM WatcherTyping == Spec => []WatcherTypeOK
  <1>1. ASSUME ObserversInv, Comparable, FlagsInv PROVE WatcherTypeOK
    <2>1. Watching /\ WatcherFlags
      BY <1>1 DEF ObserversInv, WatcherInv, FlagsInv
    <2>2. {start, began, position} \subseteq [Nodes -> {"absent", "dir"} \cup Contents]
      BY <1>1 DEF Comparable, Trees
    <2>3. \A i \in DOMAIN queue : queue[i].node \in Nodes /\ queue[i].created \in BOOLEAN
      <3>1. \A i \in DOMAIN queue : queue[i] \in Notes
        BY <2>1 DEF Watching
      <3> QED  BY <3>1 DEF Notes
    <2>4. \A i \in DOMAIN walk : walk[i].do \in {"add", "list"} /\ walk[i].dir \in Nodes \cup {Root}
      <3>1. \A i \in DOMAIN walk : walk[i] \in Walks
        BY <2>1 DEF Watching
      <3> QED  BY <3>1 DEF Walks
    <2> QED  BY <2>1, <2>2, <2>3, <2>4 DEF Watching, WatcherFlags, WatcherTypeOK
  <1> QED  BY <1>1, FlagsKept, PTL
=============================================================================
