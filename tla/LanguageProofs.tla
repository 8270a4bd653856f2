---------------------------- MODULE LanguageProofs ----------------------------
(***************************************************************************)
(* What Language promises of the language model, for every alphabet,       *)
(* taxonomy, set of remarks, model and number of restarts.                 *)
(*                                                                         *)
(* The edit distance is computed row by row, and what a recursion over     *)
(* data computes cannot be proved by induction here: the argument takes    *)
(* the least row at which it would fail instead.  One way, every cell      *)
(* holds at most the cost of an alignment, so two texts that differ by two *)
(* insertions or deletions are at most 2 apart.  The other way, a cell of  *)
(* at most 2 comes from cells of at most 2, so the prefixes it stands for  *)
(* are at most that many edits apart.                                      *)
(***************************************************************************)
EXTENDS Language, TLAPS, FiniteSetTheorems, SequenceTheorems

------------------------------------------------------------------------------
(* Notices *)

LEMMA NoticeNext ==
  ASSUME [Next]_vars
  PROVE  \/ notice' = NoNotice \/ notice' = notice
         \/ \E v \in NoticeInputs :
              \E first, second \in Completions({Draft(v, s) : s \in Shapes}) :
                notice' = GenerateNotice(v, first, second)
<1>1. CASE UNCHANGED vars
  BY <1>1 DEF vars
<1>2. CASE Next
  BY <1>2 DEF Next, PersistNotice
<1> QED  BY <1>1, <1>2

\* Whatever the model returns, a text of its own was validated itself.
LEMMA GeneratedValid ==
  ASSUME NEW v \in NoticeInputs,
         NEW first \in Completions({Draft(v, s) : s \in Shapes}),
         NEW second \in Completions({Draft(v, s) : s \in Shapes}),
         NEW n, n = GenerateNotice(v, first, second)
  PROVE  /\ n.inputs = v
         /\ n.errors = Errors(v, n.body)
         /\ \/ /\ n.generated_by = "llm" /\ n.errors = {}
               /\ \E s \in Shapes : n.body = Draft(v, s)
            \/ n.generated_by = "template" /\ n.body = StaticTemplate(v)
<1>1. ASSUME NEW d \in Completions({Draft(v, s) : s \in Shapes}), Usable(v, d)
      PROVE  (\E s \in Shapes : d = Draft(v, s)) /\ Errors(v, d) = {}
  BY <1>1 DEF Completions, Usable
<1>2. CASE Usable(v, first)
  BY <1>1, <1>2 DEF GenerateNotice, NoticeResult
<1>3. CASE ~Usable(v, first) /\ first # Unavailable /\ Usable(v, second)
  BY <1>1, <1>3 DEF GenerateNotice, NoticeResult
<1>4. CASE ~Usable(v, first) /\ ~(first # Unavailable /\ Usable(v, second))
  BY <1>4 DEF GenerateNotice, NoticeResult
<1> QED  BY <1>2, <1>3, <1>4

\* A text by the model reaches a payer only if it is compliant.
THEOREM LlmTextsCompliant == Spec => []LlmTextCompliant
<1>1. Init => LlmTextCompliant
  BY DEF Init, NoticeInit, LlmTextCompliant
<1>2. LlmTextCompliant /\ [Next]_vars => LlmTextCompliant'
  <2> SUFFICES ASSUME LlmTextCompliant, [Next]_vars PROVE LlmTextCompliant'
    OBVIOUS
  <2>1. CASE notice' = NoNotice \/ notice' = notice
    BY <2>1 DEF LlmTextCompliant
  <2>2. ASSUME NEW v \in NoticeInputs,
               NEW first \in Completions({Draft(v, s) : s \in Shapes}),
               NEW second \in Completions({Draft(v, s) : s \in Shapes}),
               notice' = GenerateNotice(v, first, second),
               notice'.generated_by = "llm"
        PROVE  LlmTextCompliant'
    <3>1. notice'.inputs = v /\ Errors(v, notice'.body) = {}
      BY <2>2, GeneratedValid
    <3>2. PICK s \in Shapes : notice'.body = Draft(v, s)
      BY <2>2, GeneratedValid
    <3>3. \A e \in {"missing", "opt-out", "number", "prohibited", "length"} :
            e \notin Errors(v, notice'.body)
      BY <3>1
    <3>4. /\ Fields \subseteq notice'.body.states
          /\ notice'.body.optOut
          /\ notice'.body.numbers \subseteq Whitelist(v)
          /\ ~notice'.body.prohibited
          /\ ~(notice'.body.length > MaxLength)
      BY <3>3 DEF Errors
    <3>5. notice'.body.states = Fields
      BY <3>2, <3>4 DEF Draft
    <3>6. Whitelist(v) \subseteq FactNumbers(v)
      BY DEF Whitelist, NumbersOf, FactNumbers, Fields
    <3>7. notice'.body.length <= MaxLength
      <4>1. s.length \in Nat /\ MaxLength \in Nat /\ notice'.body.length = s.length
        BY <3>2, NoticeAssumption DEF Draft
      <4> QED  BY <3>4, <4>1
    <3> QED  BY <3>1, <3>4, <3>5, <3>6, <3>7 DEF LlmTextCompliant
  <2> QED  BY <2>1, <2>2, NoticeNext DEF LlmTextCompliant
<1> QED  BY <1>1, <1>2, PTL DEF Spec

\* A notice stored against the validator's verdict is the template's, of facts
\* that no template could state.
THEOREM InvalidFromFacts == Spec => []InvalidOnlyFromFacts
<1>1. Init => InvalidOnlyFromFacts
  BY DEF Init, NoticeInit, InvalidOnlyFromFacts
<1>2. InvalidOnlyFromFacts /\ [Next]_vars => InvalidOnlyFromFacts'
  <2> SUFFICES ASSUME InvalidOnlyFromFacts, [Next]_vars PROVE InvalidOnlyFromFacts'
    OBVIOUS
  <2>1. CASE notice' = NoNotice \/ notice' = notice
    BY <2>1 DEF InvalidOnlyFromFacts
  <2>2. ASSUME NEW v \in NoticeInputs,
               NEW first \in Completions({Draft(v, s) : s \in Shapes}),
               NEW second \in Completions({Draft(v, s) : s \in Shapes}),
               notice' = GenerateNotice(v, first, second),
               notice'.errors # {}
        PROVE  InvalidOnlyFromFacts'
    <3> DEFINE t == StaticTemplate(v)
    <3>1. notice'.inputs = v /\ notice'.errors = Errors(v, t)
      BY <2>2, GeneratedValid
    <3>2. PICK e \in {"missing", "opt-out", "number", "prohibited", "length"} :
            e \in Errors(v, t)
      BY <2>2, <3>1 DEF Errors
    <3>3. /\ t.states = Fields /\ t.optOut
          /\ t.numbers = NumbersOf(v, Fields)
          /\ t.prohibited = \E f \in Fields : v[f].prohibited
      BY DEF StaticTemplate
    <3>4. CASE e = "missing" \/ e = "opt-out"
      BY <3>1, <3>2, <3>3, <3>4 DEF Errors, InvalidOnlyFromFacts
    <3>5. CASE e = "number"
      <4>1. PICK k : k \in NumbersOf(v, Fields) /\ k \notin Whitelist(v)
        BY <3>2, <3>3, <3>5 DEF Errors
      <4>2. PICK f \in Fields : k \in v[f].numbers
        BY <4>1 DEF NumbersOf
      <4>3. Whitelist(v) = UNION {v[g].numbers : g \in Fields \ {"merchant_name", "reason"}}
        BY DEF Whitelist, NumbersOf, Fields
      <4>4. f \in {"merchant_name", "reason"}
        BY <4>1, <4>2, <4>3
      <4> QED  BY <3>1, <4>1, <4>2, <4>3, <4>4 DEF InvalidOnlyFromFacts
    <3>6. CASE e = "prohibited"
      BY <3>1, <3>2, <3>3, <3>6 DEF Errors, InvalidOnlyFromFacts
    <3>7. CASE e = "length"
      BY <3>1, <3>2, <3>7 DEF Errors, InvalidOnlyFromFacts
    <3> QED  BY <3>2, <3>4, <3>5, <3>6, <3>7
  <2> QED  BY <2>1, <2>2, NoticeNext DEF InvalidOnlyFromFacts
<1> QED  BY <1>1, <1>2, PTL DEF Spec

------------------------------------------------------------------------------
(* Least elements *)

LEMMA LeastOf ==
  ASSUME NEW T \in SUBSET Nat, T # {}
  PROVE  \E x \in T : \A y \in T : x <= y
<1> DEFINE Less == {p \in Nat \X Nat : p[1] < p[2]}
<1>1. IsWellFoundedOn(Less, Nat)
  BY NatLessThanWellFounded DEF OpToRel
<1>2. \A x, y \in Nat : y < x => <<y, x>> \in Less
  OBVIOUS
<1> HIDE DEF Less
<1>3. PICK x \in T : \A y \in T : <<y, x>> \notin Less
  BY <1>1, WFMin
<1>4. ASSUME NEW y \in T PROVE x <= y
  <2>1. x \in Nat /\ y \in Nat /\ <<y, x>> \notin Less
    BY <1>3
  <2>2. ~(y < x)
    BY <1>2, <2>1
  <2> QED  BY <2>1, <2>2
<1> QED  BY <1>4

LEMMA LeastIs ==
  ASSUME NEW T \in SUBSET Nat, T # {}
  PROVE  Least(T) \in T /\ \A y \in T : Least(T) <= y
BY LeastOf DEF Least

------------------------------------------------------------------------------
(* The table of _levenshtein *)

Cost(a, b, i, j) == IF a[i] = b[j] THEN 0 ELSE 1

\* By row and column, what the table of a and b holds.
IsTable(a, b, D) ==
  /\ D \in [0 .. Len(a) -> [0 .. Len(b) -> Nat]]
  /\ \A i \in 0 .. Len(a) : D[i][0] = i
  /\ \A j \in 0 .. Len(b) : D[0][j] = j
  /\ \A i \in 1 .. Len(a), j \in 1 .. Len(b) :
       /\ D[i][j] <= D[i - 1][j] + 1
       /\ D[i][j] <= D[i][j - 1] + 1
       /\ D[i][j] <= D[i - 1][j - 1] + Cost(a, b, i, j)
       /\ \/ D[i][j] = D[i - 1][j] + 1
          \/ D[i][j] = D[i][j - 1] + 1
          \/ D[i][j] = D[i - 1][j - 1] + Cost(a, b, i, j)

\* A table is built in order, each row or place from the one before it.
Unfolds(f, n, V, first, g) ==
  /\ f \in [0 .. n -> V]
  /\ f[0] = first
  /\ \A i \in 1 .. n : f[i] = g[i][f[i - 1]]

LEMMA Recursion ==
  ASSUME NEW n \in Nat, NEW V, NEW first \in V, NEW g \in [1 .. n -> [V -> V]]
  PROVE  \E f : Unfolds(f, n, V, first, g)
<1> DEFINE Reached(m) == \E f \in [0 .. n -> V] :
                           /\ f[0] = first
                           /\ \A i \in 1 .. n : i <= m => f[i] = g[i][f[i - 1]]
           Short == {m \in Nat : ~Reached(m)}
<1>1. Reached(0)
  <2> DEFINE f == [i \in 0 .. n |-> first]
  <2>1. f \in [0 .. n -> V] /\ f[0] = first /\ \A i \in 1 .. n : ~(i <= 0)
    OBVIOUS
  <2> QED  BY <2>1
<1>2. ASSUME NEW m \in Nat, Reached(m) PROVE Reached(m + 1)
  <2>1. PICK f \in [0 .. n -> V] :
          /\ f[0] = first
          /\ \A i \in 1 .. n : i <= m => f[i] = g[i][f[i - 1]]
    BY <1>2
  <2> DEFINE e == [i \in 0 .. n |-> IF i = 0 THEN first ELSE g[i][f[i - 1]]]
  <2>2. ASSUME NEW i \in 0 .. n, i # 0 PROVE g[i][f[i - 1]] \in V
    <3>1. i \in 1 .. n /\ i - 1 \in 0 .. n
      BY <2>2
    <3>2. f[i - 1] \in V /\ g[i] \in [V -> V]
      BY <2>1, <3>1
    <3> QED  BY <3>2
  <2>3. e \in [0 .. n -> V] /\ e[0] = first
    BY <2>2
  <2>4. ASSUME NEW i \in 1 .. n, i <= m + 1 PROVE e[i] = g[i][e[i - 1]]
    <3>1. i \in 0 .. n /\ i # 0 /\ i - 1 \in 0 .. n
      BY <2>4
    <3>2. e[i] = g[i][f[i - 1]]
      BY <3>1
    <3>3. e[i - 1] = f[i - 1]
      <4>1. CASE i = 1
        BY <2>1, <2>3, <4>1
      <4>2. CASE i # 1
        <5>1. i - 1 \in 1 .. n /\ i - 1 <= m /\ i - 1 # 0
          BY <2>4, <4>2
        <5>2. e[i - 1] = g[i - 1][f[i - 1 - 1]]
          BY <3>1, <5>1
        <5> QED  BY <2>1, <5>1, <5>2
      <4> QED  BY <4>1, <4>2
    <3> QED  BY <3>2, <3>3
  <2> HIDE DEF e
  <2> QED  BY <2>3, <2>4
<1> HIDE DEF Reached
<1>3. Short = {}
  <2> SUFFICES ASSUME Short # {} PROVE FALSE
    OBVIOUS
  <2>1. PICK m \in Short : \A x \in Short : m <= x
    <3>1. Short \in SUBSET Nat
      OBVIOUS
    <3> HIDE DEF Short
    <3> QED  BY <3>1, LeastOf
  <2>2. m \in Nat /\ ~Reached(m) /\ m # 0
    BY <1>1, <2>1
  <2>3. m - 1 \in Nat /\ m - 1 \notin Short /\ (m - 1) + 1 = m
    BY <2>1, <2>2
  <2>4. Reached((m - 1) + 1)
    BY <1>2, <2>3
  <2> QED  BY <2>2, <2>3, <2>4
<1>4. Reached(n)
  BY <1>3
<1>5. PICK f \in [0 .. n -> V] :
        /\ f[0] = first
        /\ \A i \in 1 .. n : i <= n => f[i] = g[i][f[i - 1]]
  BY <1>4 DEF Reached
<1>6. \A i \in 1 .. n : f[i] = g[i][f[i - 1]]
  BY <1>5
<1> QED  BY <1>5, <1>6 DEF Unfolds

LEMMA NextRowIs ==
  ASSUME NEW a \in Seq(Char), NEW b \in Seq(Char), NEW i \in 1 .. Len(a),
         NEW prev \in [0 .. Len(b) -> Nat], NEW next, next = NextRow(a, b, i, prev)
  PROVE  /\ next \in [0 .. Len(b) -> Nat]
         /\ next[0] = i
         /\ \A j \in 1 .. Len(b) :
              /\ next[j] <= prev[j] + 1
              /\ next[j] <= next[j - 1] + 1
              /\ next[j] <= prev[j - 1] + Cost(a, b, i, j)
              /\ \/ next[j] = prev[j] + 1
                 \/ next[j] = next[j - 1] + 1
                 \/ next[j] = prev[j - 1] + Cost(a, b, i, j)
<1>0. Len(a) \in Nat /\ Len(b) \in Nat /\ i \in Nat
  BY LenProperties
<1> DEFINE n == Len(b)
           Ways(j, x) == {prev[j] + 1, x + 1, prev[j - 1] + Cost(a, b, i, j)}
           Fn(f) == [j \in 0 .. n |-> IF j = 0 THEN i ELSE Least(Ways(j, f[j - 1]))]
           g == [j \in 1 .. n |-> [x \in Nat |-> Least(Ways(j, x))]]
<1>1. ASSUME NEW j \in 1 .. n, NEW x \in Nat
      PROVE  /\ prev[j] \in Nat /\ prev[j - 1] \in Nat /\ Cost(a, b, i, j) \in Nat
             /\ Least(Ways(j, x)) \in Nat /\ Least(Ways(j, x)) \in Ways(j, x)
             /\ \A y \in Ways(j, x) : Least(Ways(j, x)) <= y
  <2>1. j \in 0 .. n /\ j - 1 \in 0 .. n
    BY <1>0
  <2>2. prev[j] \in Nat /\ prev[j - 1] \in Nat /\ Cost(a, b, i, j) \in Nat
    BY <2>1 DEF Cost
  <2>3. Ways(j, x) \in SUBSET Nat /\ Ways(j, x) # {}
    BY <2>2
  <2> HIDE DEF Ways
  <2>4. /\ Least(Ways(j, x)) \in Ways(j, x)
        /\ \A y \in Ways(j, x) : Least(Ways(j, x)) <= y
    BY <2>3, LeastIs
  <2> QED  BY <2>2, <2>3, <2>4
<1>2. next = CHOOSE f : f = Fn(f)
  BY DEF NextRow, Cost
<1>3. n \in Nat
  BY <1>0
<1> HIDE DEF n
<1>4. g \in [1 .. n -> [Nat -> Nat]]
  <2> HIDE DEF Ways
  <2> QED  BY <1>1
<1>5. PICK f \in [0 .. n -> Nat] :
        f[0] = i /\ \A j \in 1 .. n : f[j] = g[j][f[j - 1]]
  <2> HIDE DEF g
  <2>1. \E f : Unfolds(f, n, Nat, i, g)
    BY <1>0, <1>3, <1>4, Recursion
  <2> QED  BY <2>1 DEF Unfolds
<1>6. f = Fn(f)
  <2>1. ASSUME NEW j \in 0 .. n, j # 0 PROVE f[j] = Least(Ways(j, f[j - 1]))
    <3>1. j \in 1 .. n /\ j - 1 \in 0 .. n
      BY <1>3, <2>1
    <3>2. f[j - 1] \in Nat
      BY <3>1
    <3> HIDE DEF Ways
    <3> QED  BY <1>5, <3>1, <3>2
  <2> HIDE DEF Ways
  <2> QED  BY <1>5, <2>1
<1>7. next = Fn(next)
  <2> HIDE DEF Fn
  <2> QED  BY <1>2, <1>6
<1>8. /\ DOMAIN next = 0 .. n /\ next[0] = i
      /\ \A j \in 1 .. n : next[j] = Least(Ways(j, next[j - 1]))
  <2>1. 0 \in 0 .. n /\ \A j \in 1 .. n : j \in 0 .. n /\ j # 0
    BY <1>3
  <2> HIDE DEF Ways
  <2> QED  BY <1>7, <2>1
<1>9. next = [j \in 0 .. n |-> next[j]]
  <2> HIDE DEF Ways
  <2> QED  BY <1>7
<1> HIDE DEF Fn, g
<1>10. \A j \in 0 .. n : next[j] \in Nat
  <2> DEFINE Bad == {j \in Nat : j <= n /\ next[j] \notin Nat}
  <2>1. Bad = {}
    <3> SUFFICES ASSUME Bad # {} PROVE FALSE
      OBVIOUS
    <3>1. PICK j \in Bad : \A x \in Bad : j <= x
      <4>1. Bad \in SUBSET Nat
        OBVIOUS
      <4> HIDE DEF Bad
      <4> QED  BY <4>1, LeastOf
    <3>2. j \in Nat /\ j <= n /\ next[j] \notin Nat /\ j # 0
      BY <1>0, <1>8, <3>1
    <3>3. j - 1 \in Nat /\ j - 1 <= n /\ j - 1 \notin Bad /\ j \in 1 .. n
      BY <1>3, <3>1, <3>2
    <3>4. next[j - 1] \in Nat
      BY <3>3
    <3> HIDE DEF Ways
    <3> QED  BY <1>1, <1>8, <3>2, <3>3, <3>4
  <2> TAKE j \in 0 .. n
  <2>2. j \in Nat /\ j <= n
    BY <1>3
  <2> QED  BY <2>1, <2>2
<1>11. next \in [0 .. n -> Nat]
  <2> HIDE DEF Ways
  <2> QED  BY <1>9, <1>10
<1>12. ASSUME NEW j \in 1 .. n
       PROVE  /\ next[j] <= prev[j] + 1
              /\ next[j] <= next[j - 1] + 1
              /\ next[j] <= prev[j - 1] + Cost(a, b, i, j)
              /\ \/ next[j] = prev[j] + 1
                 \/ next[j] = next[j - 1] + 1
                 \/ next[j] = prev[j - 1] + Cost(a, b, i, j)
  <2>1. j - 1 \in 0 .. n
    BY <1>3
  <2>2. next[j - 1] \in Nat
    BY <1>10, <2>1
  <2>3. /\ next[j] \in Ways(j, next[j - 1])
        /\ \A y \in Ways(j, next[j - 1]) : next[j] <= y
    <3> HIDE DEF Ways
    <3>1. next[j] = Least(Ways(j, next[j - 1]))
      BY <1>8
    <3> QED  BY <1>1, <2>2, <3>1
  <2> QED  BY <2>3
<1> QED  BY <1>8, <1>11, <1>12 DEF n

\* What _levenshtein returns is the last place of such a table.
LEMMA LevenshteinTable ==
  ASSUME NEW a \in Seq(Char), NEW b \in Seq(Char)
  PROVE  \E D : IsTable(a, b, D) /\ Levenshtein(a, b) = D[Len(a)][Len(b)]
<1>0. Len(a) \in Nat /\ Len(b) \in Nat
  BY LenProperties
<1> DEFINE n == Len(a)
           V == [0 .. Len(b) -> Nat]
           top == [j \in 0 .. Len(b) |-> j]
           Fn(f) == [i \in 0 .. n |-> IF i = 0 THEN top ELSE NextRow(a, b, i, f[i - 1])]
           g == [i \in 1 .. n |-> [x \in V |-> NextRow(a, b, i, x)]]
           row == CHOOSE f : f = Fn(f)
<1>1. Levenshtein(a, b) = row[n][Len(b)]
  BY DEF Levenshtein
<1>2. n \in Nat
  BY <1>0
<1>3. top \in V
  BY <1>0
<1>4. \A i \in 1 .. n, x \in V : NextRow(a, b, i, x) \in V
  BY NextRowIs
<1>5. g \in [1 .. n -> [V -> V]]
  <2> HIDE DEF V
  <2> QED  BY <1>4
<1> HIDE DEF n, V
<1>6. PICK f \in [0 .. n -> V] :
        f[0] = top /\ \A i \in 1 .. n : f[i] = g[i][f[i - 1]]
  <2> HIDE DEF g, top
  <2>1. \E f : Unfolds(f, n, V, top, g)
    BY <1>2, <1>3, <1>5, Recursion
  <2> QED  BY <2>1 DEF Unfolds
<1>7. f = Fn(f)
  <2> HIDE DEF top
  <2>1. ASSUME NEW i \in 0 .. n, i # 0 PROVE f[i] = NextRow(a, b, i, f[i - 1])
    <3>1. i \in 1 .. n /\ i - 1 \in 0 .. n
      BY <1>2, <2>1
    <3>2. f[i - 1] \in V
      BY <3>1
    <3> QED  BY <1>6, <3>1, <3>2
  <2> QED  BY <1>6, <2>1
<1>8. row = Fn(row)
  <2> HIDE DEF Fn
  <2> QED  BY <1>7
<1> HIDE DEF row
<1>9. /\ DOMAIN row = 0 .. n /\ row[0] = top /\ row = [i \in 0 .. n |-> row[i]]
      /\ \A i \in 1 .. n : row[i] = NextRow(a, b, i, row[i - 1])
  <2>1. 0 \in 0 .. n /\ \A i \in 1 .. n : i \in 0 .. n /\ i # 0
    BY <1>2
  <2> HIDE DEF top
  <2> QED  BY <1>8, <2>1
<1> HIDE DEF Fn, g
<1>10. \A i \in 0 .. n : row[i] \in V
  <2> HIDE DEF top
  <2> DEFINE Bad == {i \in Nat : i <= n /\ row[i] \notin V}
  <2>1. Bad = {}
    <3> SUFFICES ASSUME Bad # {} PROVE FALSE
      OBVIOUS
    <3>1. PICK i \in Bad : \A x \in Bad : i <= x
      <4>1. Bad \in SUBSET Nat
        OBVIOUS
      <4> HIDE DEF Bad
      <4> QED  BY <4>1, LeastOf
    <3>2. i \in Nat /\ i <= n /\ row[i] \notin V /\ i # 0
      BY <1>3, <1>9, <3>1
    <3>3. i - 1 \in Nat /\ i - 1 <= n /\ i - 1 \notin Bad /\ i \in 1 .. n
      BY <1>2, <3>1, <3>2
    <3>4. row[i - 1] \in V
      BY <3>3
    <3> QED  BY <1>4, <1>9, <3>2, <3>3, <3>4
  <2> TAKE i \in 0 .. n
  <2>2. i \in Nat /\ i <= n
    BY <1>2
  <2> QED  BY <2>1, <2>2
<1>11. ASSUME NEW i \in 1 .. n
       PROVE  /\ row[i][0] = i
              /\ \A j \in 1 .. Len(b) :
                   /\ row[i][j] <= row[i - 1][j] + 1
                   /\ row[i][j] <= row[i][j - 1] + 1
                   /\ row[i][j] <= row[i - 1][j - 1] + Cost(a, b, i, j)
                   /\ \/ row[i][j] = row[i - 1][j] + 1
                      \/ row[i][j] = row[i][j - 1] + 1
                      \/ row[i][j] = row[i - 1][j - 1] + Cost(a, b, i, j)
  <2>1. i - 1 \in 0 .. n /\ i \in 1 .. Len(a)
    BY <1>2 DEF n
  <2>2. row[i - 1] \in [0 .. Len(b) -> Nat] /\ row[i] = NextRow(a, b, i, row[i - 1])
    BY <1>9, <1>10, <2>1 DEF V
  <2> HIDE DEF top
  <2> QED  BY <2>1, <2>2, NextRowIs
<1>12. IsTable(a, b, row)
  <2>1. row \in [0 .. Len(a) -> [0 .. Len(b) -> Nat]]
    BY <1>9, <1>10 DEF n, V
  <2>2. \A i \in 0 .. Len(a) : row[i][0] = i
    <3>1. row[0][0] = 0
      BY <1>0, <1>9
    <3>2. \A i \in 0 .. Len(a) : i = 0 \/ i \in 1 .. n
      BY <1>0 DEF n
    <3> QED  BY <1>11, <3>1, <3>2
  <2>3. \A j \in 0 .. Len(b) : row[0][j] = j
    BY <1>9
  <2>4. \A i \in 1 .. Len(a) : i \in 1 .. n
    BY DEF n
  <2> HIDE DEF top
  <2> QED  BY <1>11, <2>1, <2>2, <2>3, <2>4 DEF IsTable
<1> QED  BY <1>1, <1>12 DEF n

LEMMA TableTyped ==
  ASSUME NEW a, NEW b, NEW D, IsTable(a, b, D), NEW i \in 0 .. Len(a), NEW j \in 0 .. Len(b)
  PROVE  D[i][j] \in Nat
BY DEF IsTable

LEMMA TableEdges ==
  ASSUME NEW a, NEW b, NEW D, IsTable(a, b, D)
  PROVE  /\ \A i \in 0 .. Len(a) : D[i][0] = i
         /\ \A j \in 0 .. Len(b) : D[0][j] = j
BY DEF IsTable

LEMMA TableStep ==
  ASSUME NEW a, NEW b, NEW D, IsTable(a, b, D), NEW i \in 1 .. Len(a), NEW j \in 1 .. Len(b)
  PROVE  /\ D[i][j] <= D[i - 1][j] + 1
         /\ D[i][j] <= D[i][j - 1] + 1
         /\ D[i][j] <= D[i - 1][j - 1] + Cost(a, b, i, j)
         /\ \/ D[i][j] = D[i - 1][j] + 1
            \/ D[i][j] = D[i][j - 1] + 1
            \/ D[i][j] = D[i - 1][j - 1] + Cost(a, b, i, j)
         /\ Cost(a, b, i, j) \in 0 .. 1
BY DEF IsTable, Cost

\* k characters of a from place m on are those of t from place q on.
SameAt(a, m, t, q, k) == \A x \in 1 .. k : a[m + x] = t[q + x]

\* Row m of D is at most c above row q of F.
RowNear(D, m, F, q, c, n) == \A j \in 0 .. n : D[m][j] <= F[q][j] + c

\* Where two strings agree, a table's rows stay as near to the other's as they
\* were before.
LEMMA RowsFollow ==
  ASSUME NEW a \in Seq(Char), NEW t \in Seq(Char), NEW b \in Seq(Char),
         NEW D, IsTable(a, b, D), NEW F, IsTable(t, b, F), NEW c \in Nat,
         NEW m \in Nat, NEW q \in Nat, NEW k \in Nat,
         m + k <= Len(a), q + k <= Len(t),
         RowNear(D, m, F, q, c, Len(b)), SameAt(a, m, t, q, k)
  PROVE  RowNear(D, m + k, F, q + k, c, Len(b))
<1>0. Len(a) \in Nat /\ Len(b) \in Nat /\ Len(t) \in Nat
  BY LenProperties
<1> DEFINE Near(x, j) == D[m + x][j] <= F[q + x][j] + c
           Far == {s \in Nat : \E x \in 0 .. k, j \in 0 .. Len(b) : x + j = s /\ ~Near(x, j)}
<1>1. \A j \in 0 .. Len(b) : Near(0, j)
  <2>1. m + 0 = m /\ q + 0 = q
    OBVIOUS
  <2> QED  BY <2>1 DEF RowNear
<1>2. ASSUME NEW x \in 1 .. k, NEW j \in 0 .. Len(b),
             \A y \in 0 .. k, l \in 0 .. Len(b) : y + l < x + j => Near(y, l)
      PROVE  Near(x, j)
  <2>1. PICK u, v : u = m + x /\ v = q + x
    OBVIOUS
  <2>2. /\ u \in 1 .. Len(a) /\ v \in 1 .. Len(t) /\ u - 1 = m + (x - 1) /\ v - 1 = q + (x - 1)
        /\ m \in 0 .. Len(a) /\ q \in 0 .. Len(t) /\ x \in Nat
    BY <1>0, <2>1
  <2> HIDE DEF Near
  <2>3. CASE j = 0
    <3>1. D[m][0] = m /\ F[q][0] = q /\ D[u][0] = u /\ F[v][0] = v
      <4>1. u \in 0 .. Len(a) /\ v \in 0 .. Len(t)
        BY <1>0, <2>2
      <4> QED  BY <2>2, <4>1, TableEdges
    <3>2. 0 \in 0 .. Len(b)
      BY <1>0
    <3>3. D[m][0] <= F[q][0] + c
      BY <3>2 DEF RowNear
    <3> QED  BY <2>1, <2>2, <2>3, <3>1, <3>3 DEF Near
  <2>4. CASE j # 0
    <3>1. /\ j \in 1 .. Len(b) /\ j - 1 \in 0 .. Len(b) /\ x - 1 \in 0 .. k /\ x \in 0 .. k
          /\ (x - 1) + j < x + j /\ x + (j - 1) < x + j /\ (x - 1) + (j - 1) < x + j
      BY <1>0, <2>2, <2>4
    <3>2. Near(x - 1, j) /\ Near(x, j - 1) /\ Near(x - 1, j - 1)
      BY <1>2, <3>1
    <3>3. /\ D[u - 1][j] <= F[v - 1][j] + c
          /\ D[u][j - 1] <= F[v][j - 1] + c
          /\ D[u - 1][j - 1] <= F[v - 1][j - 1] + c
      BY <2>1, <2>2, <3>2 DEF Near
    <3>4. Cost(a, b, u, j) = Cost(t, b, v, j)
      BY <2>1 DEF Cost, SameAt
    <3>5. /\ u - 1 \in 0 .. Len(a) /\ u \in 0 .. Len(a)
          /\ v - 1 \in 0 .. Len(t) /\ v \in 0 .. Len(t)
      BY <1>0, <2>2
    <3>6. /\ D[u][j] \in Nat /\ D[u - 1][j] \in Nat
          /\ D[u][j - 1] \in Nat /\ D[u - 1][j - 1] \in Nat
          /\ F[v][j] \in Nat /\ F[v - 1][j] \in Nat
          /\ F[v][j - 1] \in Nat /\ F[v - 1][j - 1] \in Nat
      BY <3>1, <3>5, TableTyped
    <3>7. /\ D[u][j] <= D[u - 1][j] + 1
          /\ D[u][j] <= D[u][j - 1] + 1
          /\ D[u][j] <= D[u - 1][j - 1] + Cost(a, b, u, j)
      BY <2>2, <3>1, TableStep
    <3>8. /\ \/ F[v][j] = F[v - 1][j] + 1
             \/ F[v][j] = F[v][j - 1] + 1
             \/ F[v][j] = F[v - 1][j - 1] + Cost(t, b, v, j)
          /\ Cost(t, b, v, j) \in 0 .. 1
      BY <2>2, <3>1, TableStep
    <3>9. D[u][j] <= F[v][j] + c
      <4> DEFINE d == D[u][j]             f == F[v][j]
                 d1 == D[u - 1][j]        f1 == F[v - 1][j]
                 d2 == D[u][j - 1]        f2 == F[v][j - 1]
                 d3 == D[u - 1][j - 1]    f3 == F[v - 1][j - 1]
                 cost == Cost(a, b, u, j)
      <4>1. /\ d \in Nat /\ d1 \in Nat /\ d2 \in Nat /\ d3 \in Nat
            /\ f \in Nat /\ f1 \in Nat /\ f2 \in Nat /\ f3 \in Nat /\ cost \in 0 .. 1
        BY <3>4, <3>6, <3>8
      <4>2. d <= d1 + 1 /\ d <= d2 + 1 /\ d <= d3 + cost
        BY <3>7
      <4>3. f = f1 + 1 \/ f = f2 + 1 \/ f = f3 + cost
        BY <3>4, <3>8
      <4>4. d1 <= f1 + c /\ d2 <= f2 + c /\ d3 <= f3 + c
        BY <3>3
      <4> HIDE DEF d, d1, d2, d3, f, f1, f2, f3, cost
      <4>5. d <= f + c
        BY <4>1, <4>2, <4>3, <4>4
      <4> QED  BY <4>5 DEF d, f
    <3> QED  BY <2>1, <3>9 DEF Near
  <2> QED  BY <2>3, <2>4
<1> HIDE DEF Near
<1>3. Far = {}
  <2> SUFFICES ASSUME Far # {} PROVE FALSE
    OBVIOUS
  <2>1. PICK s \in Far : \A y \in Far : s <= y
    <3>1. Far \in SUBSET Nat
      OBVIOUS
    <3> HIDE DEF Far
    <3> QED  BY <3>1, LeastOf
  <2>2. PICK x \in 0 .. k, j \in 0 .. Len(b) : x + j = s /\ ~Near(x, j)
    BY <2>1
  <2>3. ASSUME NEW y \in 0 .. k, NEW l \in 0 .. Len(b), y + l < x + j
        PROVE  Near(y, l)
    <3>1. y + l \in Nat /\ ~(s <= y + l)
      BY ONLY <1>0, <2>2, <2>3, k \in Nat, y \in 0 .. k, l \in 0 .. Len(b), x \in 0 .. k, j \in 0 .. Len(b)
    <3>2. y + l \notin Far
      BY <2>1, <3>1
    <3> QED  BY <3>1, <3>2
  <2>4. x \in 1 .. k
    <3>1. x # 0
      BY <1>1, <2>2
    <3> QED  BY <3>1
  <2> QED  BY <1>2, <2>2, <2>3, <2>4
<1>4. ASSUME NEW j \in 0 .. Len(b) PROVE Near(k, j)
  <2>1. k \in 0 .. k /\ k + j \in Nat
    BY <1>0
  <2>2. k + j \notin Far
    BY <1>3
  <2> QED  BY <2>1, <2>2
<1> QED  BY <1>4 DEF Near, RowNear

\* The three ways one string can be an edit of another: the same up to place p,
\* the same again after m characters of the one and q of the other.
EditShape(a, t, p, m, q, k) ==
  /\ p \in Nat /\ m \in Nat /\ q \in Nat /\ k \in Nat
  /\ <<m, q>> \in {<<p + 1, p>>, <<p, p + 1>>, <<p + 1, p + 1>>}
  /\ m + k = Len(a) /\ q + k = Len(t)
  /\ SameAt(a, 0, t, 0, p)
  /\ SameAt(a, m, t, q, k)

LEMMA OneEditShape ==
  ASSUME NEW t \in Seq(Char), NEW a \in OneEdit(t)
  PROVE  a \in Seq(Char) /\ \E p, m, q, k : EditShape(a, t, p, m, q, k)
<1>0. Len(t) \in Nat /\ t \in [1 .. Len(t) -> Char] /\ DOMAIN t = 1 .. Len(t)
  BY LenProperties
<1>1. ASSUME NEW e \in 1 .. Len(t) + 1, NEW c \in Char,
             a = [i \in 1 .. Len(t) + 1 |-> IF i < e THEN t[i] ELSE IF i = e THEN c ELSE t[i - 1]]
      PROVE  /\ a \in Seq(Char) /\ Len(a) = Len(t) + 1
             /\ \A x \in 1 .. e - 1 : a[x] = t[x]
             /\ \A x \in 1 .. Len(t) - (e - 1) : a[e + x] = t[e - 1 + x]
  <2>1. \A i \in 1 .. Len(t) + 1 : a[i] \in Char
    <3> TAKE i \in 1 .. Len(t) + 1
    <3>1. i < e => i \in 1 .. Len(t)
      BY <1>0
    <3>2. ~(i < e) /\ i # e => i - 1 \in 1 .. Len(t)
      BY <1>0
    <3> QED  BY <1>0, <1>1, <3>1, <3>2
  <2>2. a \in [1 .. Len(t) + 1 -> Char]
    BY <1>1, <2>1
  <2>3. a \in Seq(Char) /\ Len(a) = Len(t) + 1
    BY <1>0, <2>2
  <2>4. ASSUME NEW x \in 1 .. Len(t) - (e - 1) PROVE a[e + x] = t[e - 1 + x]
    <3>1. e + x \in 1 .. Len(t) + 1 /\ ~(e + x < e) /\ e + x # e /\ e + x - 1 = e - 1 + x
      BY <1>0, <2>4
    <3> QED  BY <1>1, <3>1
  <2>5. ASSUME NEW x \in 1 .. e - 1 PROVE a[x] = t[x]
    <3>1. x \in 1 .. Len(t) + 1 /\ x < e
      BY <1>0, <2>5
    <3> QED  BY <1>1, <3>1
  <2> QED  BY <2>3, <2>4, <2>5
<1>2. ASSUME NEW e \in 1 .. Len(t),
             a = [i \in 1 .. Len(t) - 1 |-> IF i < e THEN t[i] ELSE t[i + 1]]
      PROVE  /\ a \in Seq(Char) /\ Len(a) = Len(t) - 1
             /\ \A x \in 1 .. e - 1 : a[x] = t[x]
             /\ \A x \in 1 .. Len(t) - e : a[e - 1 + x] = t[e + x]
  <2>1. \A i \in 1 .. Len(t) - 1 : i \in 1 .. Len(t) /\ i + 1 \in 1 .. Len(t)
    BY <1>0
  <2>2. a \in [1 .. Len(t) - 1 -> Char]
    BY <1>0, <1>2, <2>1
  <2>3. a \in Seq(Char) /\ Len(a) = Len(t) - 1
    <3>1. Len(t) - 1 \in Nat
      BY <1>0
    <3> QED  BY <2>2, <3>1
  <2>4. ASSUME NEW x \in 1 .. Len(t) - e PROVE a[e - 1 + x] = t[e + x]
    <3>1. e - 1 + x \in 1 .. Len(t) - 1 /\ ~(e - 1 + x < e) /\ e - 1 + x + 1 = e + x
      BY <1>0, <2>4
    <3> QED  BY <1>2, <3>1
  <2>5. ASSUME NEW x \in 1 .. e - 1 PROVE a[x] = t[x]
    <3>1. x \in 1 .. Len(t) - 1 /\ x < e
      BY <1>0, <2>5
    <3> QED  BY <1>2, <3>1
  <2> QED  BY <2>3, <2>4, <2>5
<1>3. ASSUME NEW e \in 1 .. Len(t), NEW c \in Char, a = [t EXCEPT ![e] = c]
      PROVE  /\ a \in Seq(Char) /\ Len(a) = Len(t)
             /\ \A x \in 1 .. e - 1 : a[x] = t[x]
             /\ \A x \in 1 .. Len(t) - e : a[e + x] = t[e + x]
  <2>1. a \in Seq(Char) /\ Len(a) = Len(t) /\ \A j \in 1 .. Len(t) : a[j] = IF j = e THEN c ELSE t[j]
    BY <1>3, ExceptSeq
  <2>2. \A x \in 1 .. e - 1 : x \in 1 .. Len(t) /\ x # e
    BY <1>0
  <2>3. \A x \in 1 .. Len(t) - e : e + x \in 1 .. Len(t) /\ e + x # e
    BY <1>0
  <2> QED  BY <2>1, <2>2, <2>3
<1>4. CASE \E e \in 1 .. Len(t) + 1, c \in Char :
             a = [i \in 1 .. Len(t) + 1 |-> IF i < e THEN t[i] ELSE IF i = e THEN c ELSE t[i - 1]]
  <2>1. PICK e \in 1 .. Len(t) + 1 : \E c \in Char :
          a = [i \in 1 .. Len(t) + 1 |-> IF i < e THEN t[i] ELSE IF i = e THEN c ELSE t[i - 1]]
    BY <1>4
  <2>2. /\ e - 1 \in Nat /\ e \in Nat /\ Len(t) - (e - 1) \in Nat /\ e = (e - 1) + 1
        /\ e + (Len(t) - (e - 1)) = Len(t) + 1 /\ (e - 1) + (Len(t) - (e - 1)) = Len(t)
    BY <1>0
  <2>3. /\ a \in Seq(Char) /\ Len(a) = Len(t) + 1
        /\ \A x \in 1 .. e - 1 : a[x] = t[x]
        /\ \A x \in 1 .. Len(t) - (e - 1) : a[e + x] = t[e - 1 + x]
    BY <1>1, <2>1
  <2>4. \A x \in 1 .. e - 1 : 0 + x = x
    OBVIOUS
  <2>5. EditShape(a, t, e - 1, e, e - 1, Len(t) - (e - 1))
    <3> DEFINE p == e - 1   k == Len(t) - (e - 1)
    <3>1. SameAt(a, 0, t, 0, p)
      BY <2>3, <2>4 DEF SameAt
    <3>2. SameAt(a, e, t, p, k)
      BY <2>3 DEF SameAt
    <3>3. p \in Nat /\ e \in Nat /\ k \in Nat /\ e = p + 1 /\ e + k = Len(a) /\ p + k = Len(t)
      BY <2>2, <2>3
    <3> HIDE DEF p, k
    <3>4. EditShape(a, t, p, e, p, k)
      BY <3>1, <3>2, <3>3 DEF EditShape
    <3> QED  BY <3>4 DEF p, k
  <2> QED  BY ONLY <2>3, <2>5
<1>5. CASE \E e \in 1 .. Len(t) :
             a = [i \in 1 .. Len(t) - 1 |-> IF i < e THEN t[i] ELSE t[i + 1]]
  <2>1. PICK e \in 1 .. Len(t) :
          a = [i \in 1 .. Len(t) - 1 |-> IF i < e THEN t[i] ELSE t[i + 1]]
    BY <1>5
  <2>2. /\ e - 1 \in Nat /\ e \in Nat /\ Len(t) - e \in Nat /\ e = (e - 1) + 1
        /\ (e - 1) + (Len(t) - e) = Len(t) - 1 /\ e + (Len(t) - e) = Len(t)
    BY <1>0
  <2>3. /\ a \in Seq(Char) /\ Len(a) = Len(t) - 1
        /\ \A x \in 1 .. e - 1 : a[x] = t[x]
        /\ \A x \in 1 .. Len(t) - e : a[e - 1 + x] = t[e + x]
    BY <1>2, <2>1
  <2>4. \A x \in 1 .. e - 1 : 0 + x = x
    OBVIOUS
  <2>5. EditShape(a, t, e - 1, e - 1, e, Len(t) - e)
    BY ONLY <2>2, <2>3, <2>4 DEF EditShape, SameAt
  <2> QED  BY ONLY <2>3, <2>5
<1>6. CASE \E e \in 1 .. Len(t), c \in Char : a = [t EXCEPT ![e] = c]
  <2>1. PICK e \in 1 .. Len(t) : \E c \in Char : a = [t EXCEPT ![e] = c]
    BY <1>6
  <2>2. /\ e - 1 \in Nat /\ e \in Nat /\ Len(t) - e \in Nat /\ e = (e - 1) + 1
        /\ e + (Len(t) - e) = Len(t)
    BY <1>0
  <2>3. /\ a \in Seq(Char) /\ Len(a) = Len(t)
        /\ \A x \in 1 .. e - 1 : a[x] = t[x]
        /\ \A x \in 1 .. Len(t) - e : a[e + x] = t[e + x]
    BY <1>3, <2>1
  <2>4. \A x \in 1 .. e - 1 : 0 + x = x
    OBVIOUS
  <2>5. EditShape(a, t, e - 1, e, e, Len(t) - e)
    BY ONLY <2>2, <2>3, <2>4 DEF EditShape, SameAt
  <2> QED  BY ONLY <2>3, <2>5
<1> QED  BY <1>0, <1>4, <1>5, <1>6 DEF OneEdit

\* A character more in one string costs one: down a table's rows, and across
\* its columns.
LEMMA RowAfter ==
  ASSUME NEW a \in Seq(Char), NEW b \in Seq(Char), NEW D, IsTable(a, b, D),
         NEW i \in Nat, i + 1 <= Len(a), NEW j \in 0 .. Len(b)
  PROVE  D[i + 1][j] <= D[i][j] + 1
<1>0. Len(a) \in Nat /\ Len(b) \in Nat
  BY LenProperties
<1>1. i + 1 \in 1 .. Len(a) /\ i \in 0 .. Len(a) /\ i + 1 \in 0 .. Len(a) /\ (i + 1) - 1 = i
  BY <1>0
<1>2. CASE j = 0
  <2>1. D[i + 1][0] = i + 1 /\ D[i][0] = i
    BY <1>1, TableEdges
  <2> QED  BY <1>2, <2>1
<1>3. CASE j # 0
  <2>1. j \in 1 .. Len(b)
    BY <1>0, <1>3
  <2> QED  BY <1>1, <2>1, TableStep
<1> QED  BY <1>2, <1>3

LEMMA ColumnAfter ==
  ASSUME NEW a \in Seq(Char), NEW b \in Seq(Char), NEW D, IsTable(a, b, D),
         NEW i \in 0 .. Len(a), NEW j \in 1 .. Len(b)
  PROVE  D[i][j] <= D[i][j - 1] + 1
<1>0. Len(a) \in Nat /\ Len(b) \in Nat
  BY LenProperties
<1>1. CASE i = 0
  <2>1. j \in 0 .. Len(b) /\ j - 1 \in 0 .. Len(b)
    BY <1>0
  <2>2. D[0][j] = j /\ D[0][j - 1] = j - 1
    BY <2>1, TableEdges
  <2> QED  BY <1>1, <2>2
<1>2. CASE i # 0
  <2>1. i \in 1 .. Len(a)
    BY <1>0, <1>2
  <2> QED  BY <2>1, TableStep
<1> QED  BY <1>1, <1>2

\* The same the other way round: a character less gains one at most.
LEMMA RowBefore ==
  ASSUME NEW a \in Seq(Char), NEW b \in Seq(Char), NEW D, IsTable(a, b, D),
         NEW i \in Nat, i + 1 <= Len(a)
  PROVE  RowNear(D, i, D, i + 1, 1, Len(b))
<1>0. Len(a) \in Nat /\ Len(b) \in Nat
  BY LenProperties
<1>1. i + 1 \in 1 .. Len(a) /\ i \in 0 .. Len(a) /\ i + 1 \in 0 .. Len(a) /\ (i + 1) - 1 = i
  BY <1>0
<1> DEFINE Bad == {j \in Nat : j <= Len(b) /\ ~(D[i][j] <= D[i + 1][j] + 1)}
<1>2. Bad = {}
  <2> SUFFICES ASSUME Bad # {} PROVE FALSE
    OBVIOUS
  <2>1. PICK j \in Bad : \A x \in Bad : j <= x
    <3>1. Bad \in SUBSET Nat
      OBVIOUS
    <3> HIDE DEF Bad
    <3> QED  BY <3>1, LeastOf
  <2>2. j \in 0 .. Len(b) /\ ~(D[i][j] <= D[i + 1][j] + 1)
    BY <1>0, <2>1
  <2>3. D[i + 1][0] = i + 1 /\ D[i][0] = i
    BY <1>1, TableEdges
  <2>4. j \in 1 .. Len(b) /\ j - 1 \in 0 .. Len(b) /\ j - 1 \in Nat /\ ~(j <= j - 1)
        /\ j - 1 <= Len(b)
    BY <1>0, <2>2, <2>3
  <2>5. j - 1 \notin Bad
    BY <2>1, <2>4
  <2>6. D[i][j - 1] <= D[i + 1][j - 1] + 1
    BY <2>4, <2>5
  <2>7. D[i][j] <= D[i][j - 1] + 1
    BY <1>1, <2>4, ColumnAfter
  <2>8. /\ \/ D[i + 1][j] = D[i][j] + 1
           \/ D[i + 1][j] = D[i + 1][j - 1] + 1
           \/ D[i + 1][j] = D[i][j - 1] + Cost(a, b, i + 1, j)
        /\ Cost(a, b, i + 1, j) \in 0 .. 1
    BY <1>1, <2>4, TableStep
  <2>9. D[i][j] \in Nat /\ D[i + 1][j] \in Nat /\ D[i][j - 1] \in Nat /\ D[i + 1][j - 1] \in Nat
    BY <1>1, <2>2, <2>4, TableTyped
  <2> DEFINE f == D[i][j]        g == D[i + 1][j]
             f1 == D[i][j - 1]   g1 == D[i + 1][j - 1]
             cost == Cost(a, b, i + 1, j)
  <2>10. f \in Nat /\ g \in Nat /\ f1 \in Nat /\ g1 \in Nat /\ cost \in 0 .. 1
    BY <2>8, <2>9
  <2>11. g = f + 1 \/ g = g1 + 1 \/ g = f1 + cost
    BY <2>8
  <2>12. f1 <= g1 + 1 /\ f <= f1 + 1 /\ ~(f <= g + 1)
    BY <2>2, <2>6, <2>7
  <2> HIDE DEF f, g, f1, g1, cost
  <2> QED  BY <2>10, <2>11, <2>12
<1>3. \A j \in 0 .. Len(b) : j \in Nat /\ j <= Len(b)
  BY <1>0
<1> QED  BY <1>2, <1>3 DEF RowNear

\* A character in place of another costs one at most.
LEMMA RowReplaced ==
  ASSUME NEW a \in Seq(Char), NEW t \in Seq(Char), NEW b \in Seq(Char),
         NEW D, IsTable(a, b, D), NEW F, IsTable(t, b, F),
         NEW i \in Nat, i + 1 <= Len(a), i + 1 <= Len(t), RowNear(D, i, F, i, 0, Len(b))
  PROVE  RowNear(D, i + 1, F, i + 1, 1, Len(b))
<1>0. Len(a) \in Nat /\ Len(b) \in Nat /\ Len(t) \in Nat
  BY LenProperties
<1>1. /\ i + 1 \in 1 .. Len(a) /\ i \in 0 .. Len(a) /\ i + 1 \in 0 .. Len(a) /\ (i + 1) - 1 = i
      /\ i + 1 \in 1 .. Len(t) /\ i \in 0 .. Len(t) /\ i + 1 \in 0 .. Len(t)
  BY <1>0
<1> DEFINE Bad == {j \in Nat : j <= Len(b) /\ ~(D[i + 1][j] <= F[i + 1][j] + 1)}
<1>2. Bad = {}
  <2> SUFFICES ASSUME Bad # {} PROVE FALSE
    OBVIOUS
  <2>1. PICK j \in Bad : \A x \in Bad : j <= x
    <3>1. Bad \in SUBSET Nat
      OBVIOUS
    <3> HIDE DEF Bad
    <3> QED  BY <3>1, LeastOf
  <2>2. j \in 0 .. Len(b) /\ ~(D[i + 1][j] <= F[i + 1][j] + 1)
    BY <1>0, <2>1
  <2>3. D[i + 1][0] = i + 1 /\ F[i + 1][0] = i + 1
    BY <1>1, TableEdges
  <2>4. j \in 1 .. Len(b) /\ j - 1 \in 0 .. Len(b) /\ j - 1 \in Nat /\ ~(j <= j - 1)
        /\ j - 1 <= Len(b)
    BY <1>0, <2>2, <2>3
  <2>5. j - 1 \notin Bad
    BY <2>1, <2>4
  <2>6. D[i + 1][j - 1] <= F[i + 1][j - 1] + 1
    BY <2>4, <2>5
  <2>7. /\ D[i + 1][j] <= D[i][j] + 1
        /\ D[i + 1][j] <= D[i + 1][j - 1] + 1
        /\ D[i + 1][j] <= D[i][j - 1] + Cost(a, b, i + 1, j)
        /\ Cost(a, b, i + 1, j) \in 0 .. 1
    BY <1>1, <2>4, TableStep
  <2>8. /\ \/ F[i + 1][j] = F[i][j] + 1
           \/ F[i + 1][j] = F[i + 1][j - 1] + 1
           \/ F[i + 1][j] = F[i][j - 1] + Cost(t, b, i + 1, j)
        /\ Cost(t, b, i + 1, j) \in 0 .. 1
    BY <1>1, <2>4, TableStep
  <2>9. /\ D[i][j] \in Nat /\ D[i + 1][j] \in Nat /\ D[i][j - 1] \in Nat /\ D[i + 1][j - 1] \in Nat
        /\ F[i][j] \in Nat /\ F[i + 1][j] \in Nat /\ F[i][j - 1] \in Nat /\ F[i + 1][j - 1] \in Nat
    BY <1>1, <2>2, <2>4, TableTyped
  <2>10. D[i][j] <= F[i][j] + 0 /\ D[i][j - 1] <= F[i][j - 1] + 0
    BY <2>2, <2>4 DEF RowNear
  <2> DEFINE d == D[i + 1][j]        f == F[i + 1][j]
             d1 == D[i][j]           f1 == F[i][j]
             d2 == D[i + 1][j - 1]   f2 == F[i + 1][j - 1]
             d3 == D[i][j - 1]       f3 == F[i][j - 1]
             x == Cost(a, b, i + 1, j)
             y == Cost(t, b, i + 1, j)
  <2>11. /\ d \in Nat /\ d1 \in Nat /\ d2 \in Nat /\ d3 \in Nat /\ x \in 0 .. 1
         /\ f \in Nat /\ f1 \in Nat /\ f2 \in Nat /\ f3 \in Nat /\ y \in 0 .. 1
    BY <2>7, <2>8, <2>9
  <2>12. d <= d1 + 1 /\ d <= d2 + 1 /\ d <= d3 + x
    BY <2>7
  <2>13. f = f1 + 1 \/ f = f2 + 1 \/ f = f3 + y
    BY <2>8
  <2>14. d1 <= f1 + 0 /\ d2 <= f2 + 1 /\ d3 <= f3 + 0 /\ ~(d <= f + 1)
    BY <2>2, <2>6, <2>10
  <2> HIDE DEF d, d1, d2, d3, f, f1, f2, f3, x, y
  <2> QED  BY <2>11, <2>12, <2>13, <2>14
<1>3. \A j \in 0 .. Len(b) : j \in Nat /\ j <= Len(b)
  BY <1>0
<1> QED  BY <1>2, <1>3 DEF RowNear

\* An edit moves a string one further away at most.
LEMMA OneEditNear ==
  ASSUME NEW t \in Seq(Char), NEW a \in OneEdit(t), NEW b \in Seq(Char)
  PROVE  Levenshtein(a, b) <= Levenshtein(t, b) + 1
<1>1. a \in Seq(Char)
  BY OneEditShape
<1>0. Len(a) \in Nat /\ Len(b) \in Nat /\ Len(t) \in Nat
  BY <1>1, LenProperties
<1>2. PICK D : IsTable(a, b, D) /\ Levenshtein(a, b) = D[Len(a)][Len(b)]
  BY <1>1, LevenshteinTable
<1>3. PICK F : IsTable(t, b, F) /\ Levenshtein(t, b) = F[Len(t)][Len(b)]
  BY LevenshteinTable
<1>4. PICK p, m, q, k : EditShape(a, t, p, m, q, k)
  BY OneEditShape
<1>5. /\ p \in Nat /\ m \in Nat /\ q \in Nat /\ k \in Nat
      /\ <<m, q>> \in {<<p + 1, p>>, <<p, p + 1>>, <<p + 1, p + 1>>}
      /\ m + k = Len(a) /\ q + k = Len(t)
      /\ SameAt(a, 0, t, 0, p) /\ SameAt(a, m, t, q, k)
  BY <1>4 DEF EditShape
<1>6. RowNear(D, p, F, p, 0, Len(b))
  <2>1. RowNear(D, 0, F, 0, 0, Len(b))
    <3> SUFFICES ASSUME NEW j \in 0 .. Len(b) PROVE D[0][j] <= F[0][j] + 0
      BY DEF RowNear
    <3>1. D[0][j] = j /\ F[0][j] = j
      BY <1>2, <1>3, TableEdges
    <3> QED  BY <3>1
  <2>2. 0 + p <= Len(a) /\ 0 + p <= Len(t) /\ 0 + p = p
    BY <1>0, <1>5
  <2>3. RowNear(D, 0 + p, F, 0 + p, 0, Len(b))
    BY <1>1, <1>2, <1>3, <1>5, <2>1, <2>2, RowsFollow
  <2> QED  BY <2>2, <2>3
<1>7. RowNear(D, m, F, q, 1, Len(b))
  <2> SUFFICES ASSUME NEW j \in 0 .. Len(b) PROVE D[m][j] <= F[q][j] + 1
    BY DEF RowNear
  <2>1. /\ p \in 0 .. Len(a) /\ p \in 0 .. Len(t) /\ m \in 0 .. Len(a) /\ q \in 0 .. Len(t)
        /\ m = p + 1 => p + 1 <= Len(a)
        /\ q = p + 1 => p + 1 <= Len(t)
    BY <1>0, <1>5
  <2>2. /\ D[p][j] \in Nat /\ D[m][j] \in Nat /\ F[p][j] \in Nat /\ F[q][j] \in Nat
    BY <1>2, <1>3, <2>1, TableTyped
  <2>3. D[p][j] <= F[p][j]
    <3>1. D[p][j] <= F[p][j] + 0
      BY <1>6 DEF RowNear
    <3> QED  BY <2>2, <3>1
  <2>4. CASE m = p + 1 /\ q = p
    <3>1. D[p + 1][j] <= D[p][j] + 1
      BY <1>1, <1>2, <1>5, <2>1, <2>4, RowAfter
    <3> DEFINE d == D[m][j]   e == D[p][j]   f == F[q][j]
    <3>2. d <= e + 1 /\ e <= f
      BY <2>3, <2>4, <3>1
    <3>3. d \in Nat /\ e \in Nat /\ f \in Nat
      BY <2>2
    <3> HIDE DEF d, e, f
    <3>4. d <= f + 1
      BY <3>2, <3>3
    <3> QED  BY <3>4 DEF d, f
  <2>5. CASE m = p /\ q = p + 1
    <3>1. RowNear(F, p, F, p + 1, 1, Len(b))
      BY <1>3, <1>5, <2>1, <2>5, RowBefore
    <3>2. F[p][j] <= F[p + 1][j] + 1
      BY <3>1 DEF RowNear
    <3> QED  BY <2>2, <2>3, <2>5, <3>2
  <2>6. CASE m = p + 1 /\ q = p + 1
    <3>1. RowNear(D, p + 1, F, p + 1, 1, Len(b))
      BY <1>1, <1>2, <1>3, <1>5, <1>6, <2>1, <2>6, RowReplaced
    <3> QED  BY <2>6, <3>1 DEF RowNear
  <2> QED  BY <1>5, <2>4, <2>5, <2>6
<1>8. RowNear(D, m + k, F, q + k, 1, Len(b))
  <2>1. m + k <= Len(a) /\ q + k <= Len(t) /\ 1 \in Nat
    BY <1>0, <1>5
  <2> QED  BY <1>1, <1>2, <1>3, <1>5, <1>7, <2>1, RowsFollow
<1>9. Len(b) \in 0 .. Len(b)
  BY <1>0
<1>10. D[Len(a)][Len(b)] <= F[Len(t)][Len(b)] + 1
  BY <1>5, <1>8, <1>9 DEF RowNear
<1> QED  BY <1>2, <1>3, <1>10

LEMMA LevenshteinSelf == \A b \in Seq(Char) : Levenshtein(b, b) <= 0
<1> SUFFICES ASSUME NEW b \in Seq(Char) PROVE Levenshtein(b, b) <= 0
  OBVIOUS
<1>0. Len(b) \in Nat
  BY LenProperties
<1>1. PICK D : IsTable(b, b, D) /\ Levenshtein(b, b) = D[Len(b)][Len(b)]
  BY LevenshteinTable
<1> DEFINE Bad == {i \in Nat : i <= Len(b) /\ ~(D[i][i] <= 0)}
<1>2. Bad = {}
  <2> SUFFICES ASSUME Bad # {} PROVE FALSE
    OBVIOUS
  <2>1. PICK i \in Bad : \A x \in Bad : i <= x
    <3>1. Bad \in SUBSET Nat
      OBVIOUS
    <3> HIDE DEF Bad
    <3> QED  BY <3>1, LeastOf
  <2>2. D[0][0] = 0
    <3>1. 0 \in 0 .. Len(b)
      BY <1>0
    <3> QED  BY <1>1, <3>1, TableEdges
  <2>3. i \in 1 .. Len(b) /\ i - 1 \in 0 .. Len(b) /\ i - 1 \notin Bad
    BY <1>0, <2>1, <2>2
  <2>4. D[i - 1][i - 1] <= 0
    BY <1>0, <2>3
  <2>5. D[i][i] <= D[i - 1][i - 1] + Cost(b, b, i, i) /\ Cost(b, b, i, i) = 0
    <3>1. Cost(b, b, i, i) = 0
      BY DEF Cost
    <3> QED  BY <1>1, <2>3, <3>1, TableStep
  <2>6. D[i][i] \in Nat /\ D[i - 1][i - 1] \in Nat
    <3>1. i \in 0 .. Len(b)
      BY <1>0, <2>3
    <3> QED  BY <1>1, <2>3, <3>1, TableTyped
  <2> QED  BY <2>1, <2>4, <2>5, <2>6
<1> QED  BY <1>0, <1>1, <1>2

LEMMA LevenshteinNat ==
  \A a \in Seq(Char), b \in Seq(Char) : Levenshtein(a, b) \in Nat
<1> SUFFICES ASSUME NEW a \in Seq(Char), NEW b \in Seq(Char) PROVE Levenshtein(a, b) \in Nat
  OBVIOUS
<1>1. Len(a) \in 0 .. Len(a) /\ Len(b) \in 0 .. Len(b)
  BY LenProperties
<1>2. PICK D : IsTable(a, b, D) /\ Levenshtein(a, b) = D[Len(a)][Len(b)]
  BY LevenshteinTable
<1> QED  BY <1>1, <1>2, TableTyped

\* Two edits away is a distance of two at most.
LEMMA TwoEditsNear ==
  ASSUME NEW b \in Seq(Char), NEW a \in TwoEdits(b)
  PROVE  Levenshtein(a, b) <= 2
<1>1. \A t \in OneEdit(b) : t \in Seq(Char) /\ Levenshtein(t, b) \in Nat /\ Levenshtein(t, b) <= 1
  <2> TAKE t \in OneEdit(b)
  <2>1. t \in Seq(Char)
    BY OneEditShape
  <2>2. Levenshtein(t, b) <= Levenshtein(b, b) + 1
    BY OneEditNear
  <2>3. Levenshtein(t, b) \in Nat /\ Levenshtein(b, b) \in Nat /\ Levenshtein(b, b) <= 0
    BY <2>1, LevenshteinNat, LevenshteinSelf
  <2> QED  BY <2>1, <2>2, <2>3
<1>2. CASE a = b
  BY <1>2, LevenshteinNat, LevenshteinSelf
<1>3. CASE a \in OneEdit(b)
  BY <1>1, <1>3
<1>4. ASSUME NEW t \in OneEdit(b), a \in OneEdit(t) PROVE Levenshtein(a, b) <= 2
  <2>1. a \in Seq(Char) /\ Levenshtein(a, b) <= Levenshtein(t, b) + 1
    BY <1>1, <1>4, OneEditShape, OneEditNear
  <2>2. Levenshtein(a, b) \in Nat
    BY <2>1, LevenshteinNat
  <2> QED  BY <1>1, <2>1, <2>2
<1> QED  BY <1>2, <1>3, <1>4 DEF TwoEdits

------------------------------------------------------------------------------
(* Near enough is an edit or two *)

\* A string with one character more, and the first i characters of a string.
Longer(s, c) == [x \in 1 .. Len(s) + 1 |-> IF x <= Len(s) THEN s[x] ELSE c]
Start(a, i) == [x \in 1 .. i |-> a[x]]

LEMMA LongerIs ==
  ASSUME NEW s \in Seq(Char), NEW c \in Char
  PROVE  /\ Longer(s, c) \in Seq(Char)
         /\ Len(Longer(s, c)) = Len(s) + 1
         /\ \A x \in 1 .. Len(s) : Longer(s, c)[x] = s[x]
         /\ Longer(s, c)[Len(s) + 1] = c
<1>1. Len(s) \in Nat /\ s \in [1 .. Len(s) -> Char]
  BY LenProperties
<1>2. \A x \in 1 .. Len(s) + 1 : x <= Len(s) => x \in 1 .. Len(s)
  BY <1>1
<1>3. Longer(s, c) \in [1 .. Len(s) + 1 -> Char]
  BY <1>1, <1>2 DEF Longer
<1>4. Len(s) + 1 \in Nat
  BY <1>1
<1>5. Longer(s, c) \in Seq(Char) /\ Len(Longer(s, c)) = Len(s) + 1
  BY <1>3, <1>4
<1>6. \A x \in 1 .. Len(s) : x \in 1 .. Len(s) + 1 /\ x <= Len(s)
  BY <1>1
<1>7. Len(s) + 1 \in 1 .. Len(s) + 1 /\ ~(Len(s) + 1 <= Len(s))
  BY <1>1
<1> QED  BY <1>5, <1>6, <1>7 DEF Longer

LEMMA StartIs ==
  ASSUME NEW a \in Seq(Char), NEW i \in 0 .. Len(a)
  PROVE  /\ Start(a, i) \in Seq(Char)
         /\ Len(Start(a, i)) = i
         /\ \A x \in 1 .. i : Start(a, i)[x] = a[x]
<1>1. Len(a) \in Nat /\ a \in [1 .. Len(a) -> Char]
  BY LenProperties
<1>2. i \in Nat /\ \A x \in 1 .. i : x \in 1 .. Len(a)
  BY <1>1
<1>3. Start(a, i) \in [1 .. i -> Char]
  BY <1>1, <1>2 DEF Start
<1> QED  BY <1>2, <1>3 DEF Start

LEMMA StartLonger ==
  ASSUME NEW a \in Seq(Char), NEW i \in 1 .. Len(a)
  PROVE  /\ Start(a, i) = Longer(Start(a, i - 1), a[i])
         /\ Start(a, i - 1) \in Seq(Char) /\ a[i] \in Char
<1>1. /\ Len(a) \in Nat /\ i - 1 \in 0 .. Len(a) /\ i \in 0 .. Len(a) /\ (i - 1) + 1 = i
      /\ a[i] \in Char
  BY LenProperties, ElementOfSeq
<1>2. PICK s : s = Start(a, i - 1)
  OBVIOUS
<1>3. s \in Seq(Char) /\ Len(s) = i - 1 /\ \A x \in 1 .. i - 1 : s[x] = a[x]
  BY <1>1, <1>2, StartIs
<1>4. Start(a, i) \in Seq(Char) /\ Len(Start(a, i)) = i /\ \A x \in 1 .. i : Start(a, i)[x] = a[x]
  BY <1>1, StartIs
<1>5. /\ Longer(s, a[i]) \in Seq(Char) /\ Len(Longer(s, a[i])) = i
      /\ \A x \in 1 .. i - 1 : Longer(s, a[i])[x] = s[x]
      /\ Longer(s, a[i])[i] = a[i]
  <2>1. PICK c \in Char : c = a[i]
    BY <1>1
  <2>2. /\ Longer(s, c) \in Seq(Char) /\ Len(Longer(s, c)) = Len(s) + 1
        /\ \A x \in 1 .. Len(s) : Longer(s, c)[x] = s[x]
        /\ Longer(s, c)[Len(s) + 1] = c
    BY <1>3, LongerIs
  <2>3. Len(s) + 1 = i /\ Len(s) = i - 1
    BY <1>1, <1>3
  <2> QED  BY <2>1, <2>2, <2>3
<1>6. \A x \in 1 .. i : x = i \/ x \in 1 .. i - 1
  OBVIOUS
<1>7. \A x \in 1 .. Len(Start(a, i)) : Start(a, i)[x] = Longer(s, a[i])[x]
  BY <1>3, <1>4, <1>5, <1>6
<1>8. Start(a, i) = Longer(s, a[i])
  BY <1>4, <1>5, <1>7, SeqEqual
<1> QED  BY <1>1, <1>2, <1>3, <1>8

\* Three edits at the end of a string.
LEMMA EditsAtTheEnd ==
  ASSUME NEW s \in Seq(Char), NEW c \in Char, NEW e \in Char
  PROVE  /\ Longer(s, c) \in OneEdit(s)
         /\ s \in OneEdit(Longer(s, c))
         /\ Longer(s, c) \in OneEdit(Longer(s, e))
<1>1. Len(s) \in Nat /\ s = [x \in 1 .. Len(s) |-> s[x]]
  BY LenProperties
<1>2. Longer(s, c) \in OneEdit(s)
  <2>1. Len(s) + 1 \in 1 .. Len(s) + 1
    BY <1>1
  <2>2. \A x \in 1 .. Len(s) + 1 : /\ x <= Len(s) <=> x < Len(s) + 1
                                   /\ ~(x < Len(s) + 1) => x = Len(s) + 1
    BY <1>1
  <2>3. Longer(s, c) = [i \in 1 .. Len(s) + 1 |->
                          IF i < Len(s) + 1 THEN s[i] ELSE IF i = Len(s) + 1 THEN c ELSE s[i - 1]]
    BY <2>2 DEF Longer
  <2> DEFINE Inserted(k, x) == [i \in 1 .. Len(s) + 1 |->
                                   IF i < k THEN s[i] ELSE IF i = k THEN x ELSE s[i - 1]]
  <2>4. Longer(s, c) = Inserted(Len(s) + 1, c)
    BY <2>3
  <2>5. {Inserted(k, x) : k \in 1 .. Len(s) + 1, x \in Char} \subseteq OneEdit(s)
    BY DEF OneEdit
  <2> HIDE DEF Inserted
  <2> QED  BY <2>1, <2>4, <2>5
<1>3. s \in OneEdit(Longer(s, c))
  <2>1. PICK l : l = Longer(s, c)
    OBVIOUS
  <2>2. /\ l \in Seq(Char) /\ Len(l) = Len(s) + 1
        /\ \A x \in 1 .. Len(s) : l[x] = s[x]
    BY <2>1, LongerIs
  <2>3. Len(l) - 1 = Len(s) /\ Len(l) \in 1 .. Len(l) /\ DOMAIN l = 1 .. Len(l)
    BY <1>1, <2>2, LenProperties
  <2>4. \A x \in 1 .. Len(s) : x < Len(l)
    BY <1>1, <2>2
  <2>5. s = [i \in 1 .. Len(l) - 1 |-> IF i < Len(l) THEN l[i] ELSE l[i + 1]]
    BY <1>1, <2>2, <2>3, <2>4
  <2>6. s \in {[i \in 1 .. Len(l) - 1 |-> IF i < k THEN l[i] ELSE l[i + 1]] : k \in DOMAIN l}
    BY <2>3, <2>5
  <2> QED  BY <2>1, <2>6 DEF OneEdit
<1>4. Longer(s, c) \in OneEdit(Longer(s, e))
  <2>1. PICK l : l = Longer(s, e)
    OBVIOUS
  <2>2. /\ l \in Seq(Char) /\ Len(l) = Len(s) + 1
        /\ \A x \in 1 .. Len(s) : l[x] = s[x]
    BY <2>1, LongerIs
  <2>3. Len(l) \in 1 .. Len(l) /\ DOMAIN l = 1 .. Len(l)
    BY <1>1, <2>2, LenProperties
  <2>4. PICK n : n = [l EXCEPT ![Len(l)] = c]
    OBVIOUS
  <2>5. /\ n \in Seq(Char) /\ Len(n) = Len(l)
        /\ \A j \in 1 .. Len(l) : n[j] = IF j = Len(l) THEN c ELSE l[j]
    BY <2>2, <2>3, <2>4, ExceptSeq
  <2>6. PICK m : m = Longer(s, c)
    OBVIOUS
  <2>7. /\ m \in Seq(Char) /\ Len(m) = Len(s) + 1
        /\ \A x \in 1 .. Len(s) : m[x] = s[x]
        /\ m[Len(s) + 1] = c
    BY <2>6, LongerIs
  <2>8. \A x \in 1 .. Len(s) + 1 : x = Len(s) + 1 \/ (x \in 1 .. Len(s) /\ x # Len(s) + 1)
    BY <1>1
  <2>9. \A x \in 1 .. Len(m) : m[x] = n[x]
    BY <2>2, <2>5, <2>7, <2>8
  <2>10. m = n
    BY <2>2, <2>5, <2>7, <2>9, SeqEqual
  <2> DEFINE Replaced(k, x) == [l EXCEPT ![k] = x]
  <2>11. {Replaced(k, x) : k \in DOMAIN l, x \in Char} \subseteq OneEdit(l)
    BY DEF OneEdit
  <2>12. n = Replaced(Len(l), c)
    BY <2>4
  <2> HIDE DEF Replaced
  <2> QED  BY <2>1, <2>3, <2>6, <2>10, <2>11, <2>12
<1> QED  BY <1>2, <1>3, <1>4

\* An edit is still one when both strings get the same character more.
LEMMA EditLonger ==
  ASSUME NEW t \in Seq(Char), NEW s \in OneEdit(t), NEW c \in Char
  PROVE  Longer(s, c) \in OneEdit(Longer(t, c))
<1>0. Len(t) \in Nat /\ DOMAIN t = 1 .. Len(t)
  BY LenProperties
<1>1. s \in Seq(Char)
  BY OneEditShape
<1>2. PICK l : l = Longer(t, c)
  OBVIOUS
<1>3. /\ l \in Seq(Char) /\ Len(l) = Len(t) + 1 /\ DOMAIN l = 1 .. Len(l)
      /\ \A x \in 1 .. Len(t) : l[x] = t[x]
      /\ l[Len(t) + 1] = c
  BY <1>2, LongerIs, LenProperties
<1>4. PICK m : m = Longer(s, c)
  OBVIOUS
<1>5. /\ m \in Seq(Char) /\ Len(m) = Len(s) + 1
      /\ \A x \in 1 .. Len(s) : m[x] = s[x]
      /\ m[Len(s) + 1] = c
  BY <1>1, <1>4, LongerIs
<1>6. Len(s) \in Nat /\ s = [x \in 1 .. Len(s) |-> s[x]] /\ m = [x \in 1 .. Len(m) |-> m[x]]
  BY <1>1, <1>5, LenProperties
<1>7. CASE \E e \in 1 .. Len(t) + 1, b \in Char :
             s = [i \in 1 .. Len(t) + 1 |-> IF i < e THEN t[i] ELSE IF i = e THEN b ELSE t[i - 1]]
  <2>1. PICK e \in 1 .. Len(t) + 1, b \in Char :
          s = [i \in 1 .. Len(t) + 1 |-> IF i < e THEN t[i] ELSE IF i = e THEN b ELSE t[i - 1]]
    BY <1>7
  <2> DEFINE w == [i \in 1 .. Len(l) + 1 |-> IF i < e THEN l[i] ELSE IF i = e THEN b ELSE l[i - 1]]
  <2>2. Len(s) = Len(t) + 1
    BY <1>0, <2>1
  <2>3. ASSUME NEW i \in 1 .. Len(t) + 2 PROVE m[i] = w[i]
    <3>1. i \in 1 .. Len(l) + 1
      BY <1>0, <1>3
    <3>2. w[i] = IF i < e THEN l[i] ELSE IF i = e THEN b ELSE l[i - 1]
      BY <3>1
    <3> HIDE DEF w
    <3>3. CASE i = Len(t) + 2
      <4>1. ~(i < e) /\ i # e /\ i - 1 = Len(t) + 1 /\ i = Len(s) + 1
        BY <1>0, <2>2, <3>3
      <4> QED  BY <1>3, <1>5, <3>2, <4>1
    <3>4. CASE i # Len(t) + 2
      <4>1. i \in 1 .. Len(t) + 1 /\ i \in 1 .. Len(s)
        BY <1>0, <2>2, <3>4
      <4>2. m[i] = IF i < e THEN t[i] ELSE IF i = e THEN b ELSE t[i - 1]
        BY <1>5, <2>1, <4>1
      <4>3. i < e => i \in 1 .. Len(t)
        BY <1>0, <4>1
      <4>4. ~(i < e) /\ i # e => i - 1 \in 1 .. Len(t)
        BY <1>0, <4>1
      <4> QED  BY <1>3, <3>2, <4>2, <4>3, <4>4
    <3> QED  BY <3>3, <3>4
  <2>4. Len(m) = Len(t) + 2 /\ Len(l) + 1 = Len(t) + 2
    BY <1>0, <1>3, <1>5, <2>2
  <2>5. m = w
    BY <1>6, <2>3, <2>4
  <2>6. e \in 1 .. Len(l) + 1
    BY <1>0, <1>3
  <2> QED  BY <1>2, <1>4, <2>5, <2>6 DEF OneEdit
<1>8. CASE \E e \in 1 .. Len(t) :
             s = [i \in 1 .. Len(t) - 1 |-> IF i < e THEN t[i] ELSE t[i + 1]]
  <2>1. PICK e \in 1 .. Len(t) :
          s = [i \in 1 .. Len(t) - 1 |-> IF i < e THEN t[i] ELSE t[i + 1]]
    BY <1>8
  <2> DEFINE w == [i \in 1 .. Len(l) - 1 |-> IF i < e THEN l[i] ELSE l[i + 1]]
  <2>2. Len(s) = Len(t) - 1
    <3>1. Len(t) - 1 \in Nat
      BY <1>0
    <3> QED  BY <2>1, <3>1
  <2> Len(t) \in Nat
    BY <1>0
  <2>3. ASSUME NEW i \in 1 .. Len(t) PROVE m[i] = w[i]
    <3>1. i \in 1 .. Len(l) - 1
      BY <1>0, <1>3
    <3>2. w[i] = IF i < e THEN l[i] ELSE l[i + 1]
      BY <3>1
    <3> HIDE DEF w
    <3>3. CASE ~(i < Len(t))
      <4> i = Len(t)
        BY <3>3
      <4>1. ~(i < e) /\ i + 1 = Len(t) + 1 /\ i = Len(s) + 1
        BY <2>2
      <4> QED  BY <1>3, <1>5, <3>2, <4>1
    <3>4. CASE i < Len(t)
      <4>1. i \in 1 .. Len(t) - 1 /\ i + 1 \in 1 .. Len(t)
        BY <1>0, <3>4
      <4> i \in 1 .. Len(s)
        BY <2>2, <4>1
      <4>2. m[i] = IF i < e THEN t[i] ELSE t[i + 1]
        BY <1>5, <2>1, <4>1
      <4> QED  BY <1>3, <3>2, <4>1, <4>2
    <3> QED  BY <3>3, <3>4
  <2>4. Len(m) = Len(t) /\ Len(l) - 1 = Len(t)
    BY <1>0, <1>3, <1>5, <2>2
  <2>5. m = w
    BY <1>6, <2>3, <2>4
  <2>6. e \in DOMAIN l
    BY <1>0, <1>3
  <2> QED  BY <1>2, <1>4, <2>5, <2>6 DEF OneEdit
<1>9. CASE \E e \in 1 .. Len(t), b \in Char : s = [t EXCEPT ![e] = b]
  <2>1. PICK e \in 1 .. Len(t), b \in Char : s = [t EXCEPT ![e] = b]
    BY <1>9
  <2>2. /\ Len(s) = Len(t) /\ \A j \in 1 .. Len(t) : s[j] = IF j = e THEN b ELSE t[j]
    BY <2>1, ExceptSeq
  <2>3. e \in 1 .. Len(l)
    BY <1>0, <1>3
  <2>4. PICK w : w = [l EXCEPT ![e] = b]
    OBVIOUS
  <2>5. /\ w \in Seq(Char) /\ Len(w) = Len(l)
        /\ \A j \in 1 .. Len(l) : w[j] = IF j = e THEN b ELSE l[j]
    BY <1>3, <2>3, <2>4, ExceptSeq
  <2>6. ASSUME NEW i \in 1 .. Len(t) + 1 PROVE m[i] = w[i]
    <3>1. CASE i = Len(t) + 1
      <4>1. i \in 1 .. Len(l) /\ i # e
        BY <1>0, <1>3, <3>1
      <4> QED  BY <1>3, <1>5, <2>2, <2>5, <3>1, <4>1
    <3>2. CASE i # Len(t) + 1
      <4>1. i \in 1 .. Len(t) /\ i \in 1 .. Len(l)
        BY <1>0, <1>3, <3>2
      <4> QED  BY <1>3, <1>5, <2>2, <2>5, <4>1
    <3> QED  BY <3>1, <3>2
  <2>7. m = w
    BY <1>3, <1>5, <2>2, <2>5, <2>6, SeqEqual
  <2> DEFINE Replaced(k, x) == [l EXCEPT ![k] = x]
  <2>8. {Replaced(k, x) : k \in DOMAIN l, x \in Char} \subseteq OneEdit(l)
    BY DEF OneEdit
  <2>9. w = Replaced(e, b)
    BY <2>4
  <2> HIDE DEF Replaced
  <2> QED  BY <1>2, <1>3, <1>4, <2>3, <2>7, <2>8, <2>9
<1> QED  BY <1>0, <1>7, <1>8, <1>9 DEF OneEdit

\* What lies within n edits of a string, n up to two.
Within(n, t) == CASE n = 0 -> {t} [] n = 1 -> {t} \cup OneEdit(t) [] n = 2 -> TwoEdits(t)

LEMMA WithinOneMore ==
  ASSUME NEW n \in 0 .. 1, NEW t, NEW u, NEW s
  PROVE  /\ u \in Within(n, t) /\ s \in OneEdit(u) => s \in Within(n + 1, t)
         /\ u \in OneEdit(t) /\ s \in Within(n, u) => s \in Within(n + 1, t)
<1>1. CASE n = 0
  BY <1>1 DEF Within
<1>2. CASE n = 1
  <2>1. Within(n, t) = {t} \cup OneEdit(t) /\ Within(n, u) = {u} \cup OneEdit(u)
        /\ Within(n + 1, t) = TwoEdits(t)
    BY <1>2 DEF Within
  <2> QED  BY <2>1 DEF TwoEdits
<1> QED  BY <1>1, <1>2

LEMMA WithinLonger ==
  ASSUME NEW n \in 0 .. 2, NEW t \in Seq(Char), NEW s \in Within(n, t), NEW c \in Char
  PROVE  Longer(s, c) \in Within(n, Longer(t, c))
<1>1. CASE s = t
  <2>1. Longer(t, c) \in Within(n, Longer(t, c))
    BY DEF Within, TwoEdits
  <2> QED  BY <1>1, <2>1
<1>2. CASE n \in {1, 2} /\ s \in OneEdit(t)
  <2>1. Longer(s, c) \in OneEdit(Longer(t, c))
    BY <1>2, EditLonger
  <2> QED  BY <1>2, <2>1 DEF Within, TwoEdits
<1>3. ASSUME n = 2, NEW u \in OneEdit(t), s \in OneEdit(u)
      PROVE  Longer(s, c) \in Within(n, Longer(t, c))
  <2>1. u \in Seq(Char)
    BY OneEditShape
  <2>2. Longer(u, c) \in OneEdit(Longer(t, c)) /\ Longer(s, c) \in OneEdit(Longer(u, c))
    BY <1>3, <2>1, EditLonger
  <2> QED  BY <1>3, <2>2 DEF Within, TwoEdits
<1>4. n = 0 \/ n = 1 \/ n = 2
  OBVIOUS
<1> QED  BY <1>1, <1>2, <1>3, <1>4 DEF Within, TwoEdits

\* What a table says of the starts of two strings is what edits make of them.
LEMMA StartsWithin ==
  ASSUME NEW a \in Seq(Char), NEW b \in Seq(Char), NEW D, IsTable(a, b, D)
  PROVE  \A i \in 0 .. Len(a), j \in 0 .. Len(b) :
           D[i][j] <= 2 => Start(a, i) \in Within(D[i][j], Start(b, j))
<1>0. Len(a) \in Nat /\ Len(b) \in Nat
  BY LenProperties
<1> DEFINE Good(i, j) == D[i][j] <= 2 => Start(a, i) \in Within(D[i][j], Start(b, j))
           Bad == {s \in Nat : \E i \in 0 .. Len(a), j \in 0 .. Len(b) : i + j = s /\ ~Good(i, j)}
\* down, across, or both
<1>1. ASSUME NEW i \in 1 .. Len(a), NEW j \in 0 .. Len(b), Good(i - 1, j),
             D[i][j] = D[i - 1][j] + 1
      PROVE  Good(i, j)
  <2>1. i - 1 \in 0 .. Len(a)
    BY <1>0
  <2>2. D[i - 1][j] \in Nat
    BY <2>1, TableTyped
  <2> SUFFICES ASSUME D[i][j] <= 2 PROVE Start(a, i) \in Within(D[i - 1][j] + 1, Start(b, j))
    BY <1>1
  <2>3. D[i - 1][j] \in 0 .. 1
    BY <1>1, <2>2
  <2>4. Start(a, i - 1) \in Within(D[i - 1][j], Start(b, j))
    BY <1>1, <2>3
  <2>5. Start(a, i) \in OneEdit(Start(a, i - 1))
    BY StartLonger, EditsAtTheEnd
  <2> QED  BY <2>3, <2>4, <2>5, WithinOneMore
<1>2. ASSUME NEW i \in 0 .. Len(a), NEW j \in 1 .. Len(b), Good(i, j - 1),
             D[i][j] = D[i][j - 1] + 1
      PROVE  Good(i, j)
  <2>1. j - 1 \in 0 .. Len(b)
    BY <1>0
  <2>2. D[i][j - 1] \in Nat
    BY <2>1, TableTyped
  <2> SUFFICES ASSUME D[i][j] <= 2 PROVE Start(a, i) \in Within(D[i][j - 1] + 1, Start(b, j))
    BY <1>2
  <2>3. D[i][j - 1] \in 0 .. 1
    BY <1>2, <2>2
  <2>4. Start(a, i) \in Within(D[i][j - 1], Start(b, j - 1))
    BY <1>2, <2>3
  <2>5. Start(b, j - 1) \in OneEdit(Start(b, j))
    BY StartLonger, EditsAtTheEnd
  <2> QED  BY <2>3, <2>4, <2>5, WithinOneMore
<1>3. ASSUME NEW i \in 1 .. Len(a), NEW j \in 1 .. Len(b), Good(i - 1, j - 1),
             D[i][j] = D[i - 1][j - 1] + Cost(a, b, i, j)
      PROVE  Good(i, j)
  <2>1. j - 1 \in 0 .. Len(b) /\ i - 1 \in 0 .. Len(a)
    BY <1>0
  <2>2. D[i - 1][j - 1] \in Nat
    BY <2>1, TableTyped
  <2> SUFFICES ASSUME D[i][j] <= 2 PROVE Start(a, i) \in Within(D[i][j], Start(b, j))
    OBVIOUS
  <2>3. D[i - 1][j - 1] \in 0 .. 2
    BY <1>3, <2>2 DEF Cost
  <2>4. Start(a, i - 1) \in Within(D[i - 1][j - 1], Start(b, j - 1))
    BY <1>3, <2>3
  <2>5. /\ Start(a, i) = Longer(Start(a, i - 1), a[i]) /\ Start(a, i - 1) \in Seq(Char)
        /\ Start(b, j) = Longer(Start(b, j - 1), b[j]) /\ Start(b, j - 1) \in Seq(Char)
        /\ a[i] \in Char /\ b[j] \in Char
    BY StartLonger
  <2>6. Longer(Start(a, i - 1), b[j]) \in Within(D[i - 1][j - 1], Start(b, j))
    BY <2>3, <2>4, <2>5, WithinLonger
  <2>7. CASE a[i] = b[j]
    <3>1. D[i][j] = D[i - 1][j - 1]
      BY <1>3, <2>2, <2>7 DEF Cost
    <3> QED  BY <2>5, <2>6, <2>7, <3>1
  <2>8. CASE a[i] # b[j]
    <3>1. D[i][j] = D[i - 1][j - 1] + 1
      BY <1>3, <2>8 DEF Cost
    <3>2. D[i - 1][j - 1] \in 0 .. 1
      BY <2>2, <3>1
    <3>3. Start(a, i) \in OneEdit(Longer(Start(a, i - 1), b[j]))
      BY <2>5, EditsAtTheEnd
    <3>4. Start(a, i) \in Within(D[i - 1][j - 1] + 1, Start(b, j))
      BY <2>6, <3>2, <3>3, WithinOneMore
    <3> QED  BY <3>1, <3>4
  <2> QED  BY <2>7, <2>8
<1>4. Good(0, 0)
  <2>1. D[0][0] = 0
    <3>1. 0 \in 0 .. Len(a)
      BY <1>0
    <3> QED  BY <3>1, TableEdges
  <2>2. Start(a, 0) = Start(b, 0)
    BY DEF Start
  <2> QED  BY <2>1, <2>2 DEF Within
<1> HIDE DEF Good
<1>5. ASSUME NEW i \in 0 .. Len(a), NEW j \in 0 .. Len(b), i + j # 0,
             \A k \in 0 .. Len(a), l \in 0 .. Len(b) : k + l < i + j => Good(k, l)
      PROVE  Good(i, j)
  <2>1. CASE j = 0
    <3>1. i \in 1 .. Len(a) /\ i - 1 \in 0 .. Len(a) /\ (i - 1) + j < i + j
      BY <1>0, <1>5, <2>1
    <3>2. D[i][0] = i /\ D[i - 1][0] = i - 1
      BY <3>1, TableEdges
    <3>3. D[i][j] = D[i - 1][j] + 1
      BY <2>1, <3>1, <3>2
    <3> QED  BY <1>1, <1>5, <3>1, <3>3
  <2>2. CASE i = 0
    <3>1. j \in 1 .. Len(b) /\ j - 1 \in 0 .. Len(b) /\ i + (j - 1) < i + j
      BY <1>0, <1>5, <2>2
    <3>2. D[0][j] = j /\ D[0][j - 1] = j - 1
      BY <3>1, TableEdges
    <3>3. D[i][j] = D[i][j - 1] + 1
      BY <2>2, <3>1, <3>2
    <3> QED  BY <1>2, <1>5, <3>1, <3>3
  <2>3. CASE i # 0 /\ j # 0
    <3>1. /\ i \in 1 .. Len(a) /\ j \in 1 .. Len(b) /\ i - 1 \in 0 .. Len(a) /\ j - 1 \in 0 .. Len(b)
          /\ (i - 1) + j < i + j /\ i + (j - 1) < i + j /\ (i - 1) + (j - 1) < i + j
      BY <1>0, <2>3
    <3>2. Good(i - 1, j) /\ Good(i, j - 1) /\ Good(i - 1, j - 1)
      BY <1>5, <3>1
    <3>3. \/ D[i][j] = D[i - 1][j] + 1
          \/ D[i][j] = D[i][j - 1] + 1
          \/ D[i][j] = D[i - 1][j - 1] + Cost(a, b, i, j)
      BY <3>1, TableStep
    <3> QED  BY <1>1, <1>2, <1>3, <3>1, <3>2, <3>3
  <2> QED  BY <2>1, <2>2, <2>3
<1>6. Bad = {}
  <2> SUFFICES ASSUME Bad # {} PROVE FALSE
    OBVIOUS
  <2>1. PICK s \in Bad : \A y \in Bad : s <= y
    <3>1. Bad \in SUBSET Nat
      OBVIOUS
    <3> HIDE DEF Bad
    <3> QED  BY <3>1, LeastOf
  <2>2. PICK i \in 0 .. Len(a), j \in 0 .. Len(b) : i + j = s /\ ~Good(i, j)
    BY <2>1
  <2>3. ASSUME NEW k \in 0 .. Len(a), NEW l \in 0 .. Len(b), k + l < i + j
        PROVE  Good(k, l)
    <3>1. k + l \in Nat /\ ~(s <= k + l)
      BY <1>0, <2>2, <2>3
    <3>2. k + l \notin Bad
      BY <2>1, <3>1
    <3> QED  BY <3>1, <3>2
  <2>4. i + j # 0
    <3>1. i + j = 0 => i = 0 /\ j = 0
      BY <1>0
    <3> QED  BY <1>4, <2>2, <3>1
  <2> QED  BY <1>5, <2>2, <2>3, <2>4
<1>7. ASSUME NEW i \in 0 .. Len(a), NEW j \in 0 .. Len(b) PROVE Good(i, j)
  <2>1. i + j \in Nat
    BY <1>0
  <2> QED  BY <1>6, <2>1
<1> QED  BY <1>7 DEF Good

\* The distance is two at most exactly for what two edits make.
LEMMA NearIsTwoEdits ==
  ASSUME NEW a \in Seq(Char), NEW b \in Seq(Char)
  PROVE  Levenshtein(a, b) <= FuzzyMaxDistance <=> a \in TwoEdits(b)
<1>0. Len(a) \in Nat /\ Len(b) \in Nat
  BY LenProperties
<1>1. PICK D : IsTable(a, b, D) /\ Levenshtein(a, b) = D[Len(a)][Len(b)]
  BY LevenshteinTable
<1>2. ASSUME Levenshtein(a, b) <= 2 PROVE a \in TwoEdits(b)
  <2>1. Start(a, Len(a)) = a /\ Start(b, Len(b)) = b
    BY LenProperties DEF Start
  <2>2. PICK n : n = Levenshtein(a, b)
    OBVIOUS
  <2>3. n \in 0 .. 2
    BY <1>2, <2>2, LevenshteinNat
  <2>4. Len(a) \in 0 .. Len(a) /\ Len(b) \in 0 .. Len(b)
    BY <1>0
  <2>5. a \in Within(n, b)
    BY <1>1, <1>2, <2>1, <2>2, <2>4, StartsWithin
  <2> QED  BY <2>3, <2>5 DEF Within, TwoEdits
<1> QED  BY <1>2, TwoEditsNear DEF FuzzyMaxDistance

------------------------------------------------------------------------------
(* The normaliser *)

\* What LlmAnswersBounded asks of one answer, with the span's place as the code
\* finds it.
Bounded(k, r) ==
  r.source = "llm" =>
    /\ r.cause \in Causes
    /\ r.confidence \in ConfidenceThreshold .. 100
    /\ r.span \in Seq(Char) /\ Occurs(r.span, k.raw)

LEMMA UncachedBounded ==
  ASSUME NEW k \in Keys, NEW r \in Uncached(k.raw)
  PROVE  Bounded(k, r)
<1>1. k.raw \in Remarks
  BY DEF Keys
<1>2. CASE r \in LlmResults(k.raw)
  <2>1. PICK y \in Completions(Payloads) :
          r = IF y # Unavailable /\ Accepts(k.raw, y)
              THEN Result(y.cause, y.confidence, y.span, "llm") ELSE UnknownResult
    BY <1>2 DEF LlmResults
  <2>2. CASE y # Unavailable /\ Accepts(k.raw, y)
    <3>1. y \in Payloads
      BY <2>2 DEF Completions
    <3>2. y.span \in Seq(Char)
      BY <3>1, TaxonomyAssumption
    <3> QED  BY <2>1, <2>2, <3>2 DEF Accepts, Result, Bounded
  <2>3. CASE ~(y # Unavailable /\ Accepts(k.raw, y))
    BY <2>1, <2>3 DEF UnknownResult, Result, Bounded
  <2> QED  BY <2>2, <2>3
<1>3. CASE r = Match[k.raw]
  <2>1. Match[k.raw].source \in {"dictionary", "fuzzy", "unknown"}
    BY <1>1 DEF Match, Result, UnknownResult
  <2> QED  BY <1>3, <2>1 DEF Bounded
<1> QED  BY <1>2, <1>3 DEF Uncached

\* Every result in the cache, or ever given, is one the cascade may return, and
\* what was given in this life is still in the cache.
ReadingInv ==
  /\ life \in Nat /\ 1 <= life
  /\ \A k \in DOMAIN cache : k \in Keys /\ cache[k] \in Uncached(k.raw)
  /\ \A g \in given :
       /\ g[1] \in Keys /\ g[2] \in Uncached(g[1].raw) /\ g[3] \in 1 .. life
       /\ g[3] = life => g[1] \in DOMAIN cache /\ cache[g[1]] = g[2]
  /\ \A g, h \in given : g[1] = h[1] /\ g[3] = h[3] => g[2] = h[2]

LEMMA NormalizerSteps ==
  ASSUME [Next]_vars
  PROVE  \/ UNCHANGED normalizerVars
         \/ \E k \in Keys : CacheHit(k) \/ CacheMiss(k)
         \/ Restart
BY DEF Next, vars, NormalizerNext

\* One more answer, the one the cache holds from now on.
LEMMA GivenAdds ==
  ASSUME ReadingInv, NEW k \in Keys, NEW r \in Uncached(k.raw),
         Give(k, r),
         k \in DOMAIN cache => cache[k] = r,
         DOMAIN cache' = DOMAIN cache \cup {k},
         \A x \in DOMAIN cache' : cache'[x] = IF x = k THEN r ELSE cache[x]
  PROVE  ReadingInv'
<1>1. life' = life /\ life \in Nat /\ 1 <= life /\ given' = given \cup {<<k, r, life>>}
  BY DEF Give, ReadingInv
<1>2. \A x \in DOMAIN cache' : x \in Keys /\ cache'[x] \in Uncached(x.raw)
  BY DEF ReadingInv
<1>3. ASSUME NEW g \in given'
      PROVE  /\ g[1] \in Keys /\ g[2] \in Uncached(g[1].raw) /\ g[3] \in 1 .. life
             /\ g[3] = life => g[1] \in DOMAIN cache' /\ cache'[g[1]] = g[2]
  <2>1. CASE g \in given
    BY <2>1 DEF ReadingInv
  <2>2. CASE g = <<k, r, life>>
    <3>1. life \in 1 .. life
      BY <1>1
    <3> QED  BY <2>2, <3>1
  <2> QED  BY <1>1, <2>1, <2>2
<1>4. ASSUME NEW g \in given', NEW h \in given', g[1] = h[1], g[3] = h[3]
      PROVE  g[2] = h[2]
  <2>1. CASE g \in given /\ h \in given
    BY <1>4, <2>1 DEF ReadingInv
  <2>2. CASE g = <<k, r, life>> \/ h = <<k, r, life>>
    <3>1. g[3] = life /\ h[3] = life
      BY <1>4, <2>2
    <3> QED  BY <1>3, <1>4, <3>1
  <2> QED  BY <1>1, <2>1, <2>2
<1> QED  BY <1>1, <1>2, <1>3, <1>4 DEF ReadingInv

\* The invariant holds in every reachable state.
THEOREM ReadingInvariant == Spec => []ReadingInv
<1>1. Init => ReadingInv
  BY DEF Init, NormalizerInit, ReadingInv
<1>2. ReadingInv /\ [Next]_vars => ReadingInv'
  <2> SUFFICES ASSUME ReadingInv, [Next]_vars PROVE ReadingInv'
    OBVIOUS
  <2>1. CASE UNCHANGED normalizerVars
    BY <2>1 DEF normalizerVars, ReadingInv
  <2>2. ASSUME NEW k \in Keys, CacheHit(k) PROVE ReadingInv'
    <3> DEFINE r == cache[k]
    <3>1. k \in DOMAIN cache /\ Give(k, r) /\ cache' = cache /\ r \in Uncached(k.raw)
      BY <2>2 DEF CacheHit, CacheKey, ReadingInv
    <3>2. /\ DOMAIN cache' = DOMAIN cache \cup {k}
          /\ \A x \in DOMAIN cache' : cache'[x] = IF x = k THEN r ELSE cache[x]
      BY <3>1
    <3>3. life' = life
      BY <3>1 DEF Give
    <3> HIDE DEF r
    <3>4. cache[k] = r
      BY DEF r
    <3> QED  BY <3>1, <3>2, <3>3, <3>4, GivenAdds
  <2>3. ASSUME NEW k \in Keys, CacheMiss(k) PROVE ReadingInv'
    <3>1. PICK r \in Uncached(k.raw) : Store(k, r) /\ Give(k, r)
      BY <2>3 DEF CacheMiss, CacheKey
    <3>2. /\ DOMAIN cache' = DOMAIN cache \cup {k}
          /\ \A x \in DOMAIN cache' : cache'[x] = IF x = k THEN r ELSE cache[x]
      BY <3>1 DEF Store
    <3>3. life' = life /\ k \notin DOMAIN cache
      BY <2>3, <3>1 DEF Give, CacheMiss, CacheKey
    <3> QED  BY <3>1, <3>2, <3>3, GivenAdds
  <2>4. CASE Restart
    <3>1. life' = life + 1 /\ cache' = <<>> /\ given' = given /\ life \in Nat
      BY <2>4 DEF Restart, ReadingInv
    <3>2. \A g \in given : g[3] \in 1 .. life' /\ g[3] # life'
      BY <3>1 DEF ReadingInv
    <3>3. DOMAIN cache' = {}
      BY <3>1
    <3> QED  BY <3>1, <3>2, <3>3 DEF ReadingInv
  <2> QED  BY <2>1, <2>2, <2>3, <2>4, NormalizerSteps
<1> QED  BY <1>1, <1>2, PTL DEF Spec

\* What the model says is a cause of the enumeration, confident and quoted from
\* the caller's own remark, also when it comes out of the cache.
THEOREM LlmAnswersBoundedHolds == Spec => []LlmAnswersBounded
<1>1. ReadingInv => LlmAnswersBounded
  <2> SUFFICES ASSUME ReadingInv, NEW g \in given, g[2].source = "llm"
               PROVE  /\ g[2].cause \in Causes
                      /\ g[2].confidence \in ConfidenceThreshold .. 100
                      /\ \E i, j \in 0 .. Len(g[1].raw) :
                           SubSeq(g[1].raw, i + 1, j) = g[2].span
    BY DEF LlmAnswersBounded
  <2> DEFINE raw == g[1].raw
             span == g[2].span
  <2>1. /\ g[2].cause \in Causes
        /\ g[2].confidence \in ConfidenceThreshold .. 100
        /\ span \in Seq(Char) /\ Occurs(span, raw)
    <3>1. g[1] \in Keys /\ g[2] \in Uncached(g[1].raw)
      BY DEF ReadingInv
    <3> QED  BY <3>1, UncachedBounded DEF Bounded
  <2>2. raw \in Seq(Char)
    BY TaxonomyAssumption DEF ReadingInv, Keys
  <2> HIDE DEF raw, span
  <2>3. PICK i \in 0 .. Len(raw) - Len(span) :
          \A j \in DOMAIN span : raw[i + j] = span[j]
    BY <2>1 DEF Occurs
  <2>4. Len(raw) \in Nat /\ Len(span) \in Nat /\ i \in Nat /\ i + Len(span) <= Len(raw)
    BY <2>1, <2>2, <2>3, LenProperties
  <2>5. i + 1 \in 1 .. Len(raw) + 1 /\ i + Len(span) \in 0 .. Len(raw) /\ i \in 0 .. Len(raw)
    BY <2>4
  <2>6. SubSeq(raw, i + 1, i + Len(span)) = span
    <3> DEFINE part == SubSeq(raw, i + 1, i + Len(span))
    <3>1. /\ part \in Seq(Char)
          /\ Len(part) = IF i + 1 <= i + Len(span) THEN i + Len(span) - (i + 1) + 1 ELSE 0
          /\ \A j \in 1 .. i + Len(span) - (i + 1) + 1 : part[j] = raw[i + 1 + j - 1]
      BY <2>2, <2>5, SubSeqProperties
    <3> HIDE DEF part
    <3>2. Len(part) = Len(span)
      BY <2>4, <3>1
    <3>3. \A j \in 1 .. Len(span) : part[j] = span[j]
      <4> TAKE j \in 1 .. Len(span)
      <4>1. part[j] = raw[i + 1 + j - 1] /\ i + 1 + j - 1 = i + j
        BY <2>4, <3>1
      <4>2. j \in DOMAIN span
        BY <2>1, LenProperties
      <4> QED  BY <4>1, <4>2, <2>3
    <3>4. part = span
      BY <2>1, <3>1, <3>2, <3>3, SeqEqual
    <3> QED  BY <3>4 DEF part
  <2>7. \E m, n \in 0 .. Len(raw) : SubSeq(raw, m + 1, n) = span
    BY <2>5, <2>6
  <2> QED  BY <2>1, <2>7 DEF raw, span
<1> QED  BY <1>1, ReadingInvariant, PTL

\* Spellings with one normalised text are read alike by the taxonomy.
LEMMA SpellingsAgree ==
  ASSUME NEW raw \in Remarks, NEW other \in Remarks, Normalized(raw) = Normalized(other),
         NEW r \in Uncached(raw), NEW s \in Uncached(other), r.cause # s.cause
  PROVE  r.source \in {"llm", "unknown"}
<1> DEFINE text == Normalized(raw)
           d == DictionaryLookup(text)
           f == FuzzyLookup(text)
           Matched(x) == IF d # "none" THEN Result(d, 100, x, "dictionary")
                         ELSE IF f # "none" THEN Result(f, 90, x, "fuzzy")
                         ELSE UnknownResult
<1>1. Match[raw] = Matched(raw) /\ Match[other] = Matched(other)
  BY DEF Match
<1> HIDE DEF text, d, f
<1>2. d = "none" /\ f = "none"
  <2> SUFFICES ASSUME d # "none" \/ f # "none" PROVE FALSE
    OBVIOUS
  <2>1. r = Matched(raw) /\ s = Matched(other)
    BY <1>1 DEF Uncached, Result, UnknownResult
  <2>2. r.cause = s.cause
    BY <2>1 DEF Result
  <2> QED  BY <2>2
<1>3. Uncached(raw) = LlmResults(raw)
  BY <1>1, <1>2 DEF Uncached
<1>4. PICK y \in Completions(Payloads) :
        r = IF y # Unavailable /\ Accepts(raw, y)
            THEN Result(y.cause, y.confidence, y.span, "llm") ELSE UnknownResult
  BY <1>3 DEF LlmResults
<1> QED  BY <1>4 DEF Result, UnknownResult

\* Only the model reads one decline in two ways, and it is not asked twice about
\* the same request between two restarts.
THEOREM ReadTwoWaysOnlyByModelHolds == Spec => []ReadTwoWaysOnlyByModel
<1>1. ReadingInv => ReadTwoWaysOnlyByModel
  <2> SUFFICES ASSUME ReadingInv, NEW g \in given, NEW h \in given,
                      Normalized(g[1].raw) = Normalized(h[1].raw), g[2].cause # h[2].cause
               PROVE  /\ {g[2].source, h[2].source} \subseteq {"llm", "unknown"}
                      /\ g[1] # h[1] \/ g[3] # h[3]
    BY DEF ReadTwoWaysOnlyByModel
  <2>1. /\ g[1].raw \in Remarks /\ g[2] \in Uncached(g[1].raw)
        /\ h[1].raw \in Remarks /\ h[2] \in Uncached(h[1].raw)
    BY DEF ReadingInv, Keys
  <2>2. g[2].source \in {"llm", "unknown"} /\ h[2].source \in {"llm", "unknown"}
    BY <2>1, SpellingsAgree
  <2>3. g[1] # h[1] \/ g[3] # h[3]
    BY DEF ReadingInv
  <2> QED  BY <2>2, <2>3
<1> QED  BY <1>1, ReadingInvariant, PTL

------------------------------------------------------------------------------
(* What a remark is told *)

LEMMA TaxonomyTyped ==
  \A i \in DOMAIN Taxonomy : /\ i \in Nat
                             /\ Taxonomy[i][1] \in Causes
                             /\ Taxonomy[i][2] \subseteq Seq(Char)
<1>1. /\ Len(Taxonomy) \in Nat /\ DOMAIN Taxonomy = 1 .. Len(Taxonomy)
      /\ \A i \in 1 .. Len(Taxonomy) : Taxonomy[i] \in Causes \X SUBSET Seq(Char)
  BY TaxonomyAssumption, LenProperties, ElementOfSeq
<1> QED  BY <1>1

LEMMA NormalizedText ==
  ASSUME NEW raw \in Seq(Char)
  PROVE  Normalized(raw) \in Seq(Char)
<1> DEFINE solid == {i \in DOMAIN raw : raw[i] # Space}
           first == CHOOSE i \in solid : \A j \in solid : i <= j
           last  == CHOOSE i \in solid : \A j \in solid : i >= j
<1>1. Len(raw) \in Nat /\ DOMAIN raw = 1 .. Len(raw) /\ raw \in [1 .. Len(raw) -> Char]
  BY LenProperties
<1>2. CASE solid = {}
  BY <1>2, EmptySeq DEF Normalized
<1>3. CASE solid # {}
  <2>1. solid \in SUBSET Nat /\ solid \subseteq 1 .. Len(raw)
    BY <1>1
  <2>2. first \in solid /\ \A j \in solid : first <= j
    <3> HIDE DEF solid
    <3>1. \E i \in solid : \A j \in solid : i <= j
      BY <1>3, <2>1, LeastOf
    <3> QED  BY <3>1
  <2>3. last \in solid
    <3> HIDE DEF solid
    <3> DEFINE before == {Len(raw) - i : i \in solid}
    <3>0. \A i \in solid : Len(raw) - i \in Nat
      BY <1>1, <2>1
    <3>1. before \in SUBSET Nat /\ before # {}
      BY <1>3, <3>0
    <3>2. PICK d \in before : \A e \in before : d <= e
      <4> HIDE DEF before
      <4> QED  BY <3>1, LeastOf
    <3>3. PICK i \in solid : d = Len(raw) - i
      BY <3>2
    <3>4. ASSUME NEW j \in solid PROVE i >= j
      <4>1. Len(raw) - i <= Len(raw) - j
        BY <3>2, <3>3
      <4> QED  BY <1>1, <2>1, <4>1
    <3>5. \E l \in solid : \A j \in solid : l >= j
      BY <3>4
    <3> QED  BY <3>5
  <2>4. Normalized(raw) = [i \in 1 .. last - first + 1 |-> UpperOf[raw[first + i - 1]]]
    BY <1>3 DEF Normalized
  <2>5. first \in 1 .. Len(raw) /\ last \in 1 .. Len(raw) /\ first <= last
    BY <2>1, <2>2, <2>3
  <2> HIDE DEF first, last
  <2>6. last - first + 1 \in Nat /\ \A i \in 1 .. last - first + 1 : first + i - 1 \in 1 .. Len(raw)
    BY <1>1, <2>5
  <2>7. Normalized(raw) \in [1 .. last - first + 1 -> Char]
    BY <1>1, <2>4, <2>6, TaxonomyAssumption
  <2> QED  BY <2>6, <2>7
<1> QED  BY <1>2, <1>3

LEMMA FirstCauseIs ==
  ASSUME NEW M \in SUBSET DOMAIN Taxonomy
  PROVE  /\ M = {} => FirstCause(M) = "none"
         /\ M # {} => /\ FirstCause(M) \in Causes /\ FirstCause(M) # "none"
                      /\ \E i \in M : FirstCause(M) = Taxonomy[i][1]
<1>1. M # {} => Least(M) \in M
  BY LeastIs, TaxonomyTyped
<1> QED  BY <1>1, TaxonomyTyped, TaxonomyAssumption DEF FirstCause

\* What TypoToleranceExact asks of one answer.
Exact(text, r) ==
  CASE text \in Known -> r.source = "dictionary" /\ text \in TemplatesOf(r.cause)
    [] text \in Mistyped \ Known -> r.source = "fuzzy" /\ text \in MistypedOf[r.cause]
    [] OTHER -> r.source \in {"llm", "unknown"}

LEMMA UncachedExact ==
  ASSUME NEW raw \in Remarks, NEW r \in Uncached(raw)
  PROVE  r.cause \in Causes /\ Exact(Normalized(raw), r)
<1> DEFINE text == Normalized(raw)
           D == {i \in DOMAIN Taxonomy : text \in Taxonomy[i][2]}
           F == {i \in DOMAIN Taxonomy : \E t \in Taxonomy[i][2] :
                   Levenshtein(text, t) <= FuzzyMaxDistance}
<1>1. text \in Seq(Char)
  BY NormalizedText, TaxonomyAssumption
<1>2. DictionaryLookup(text) = FirstCause(D) /\ FuzzyLookup(text) = FirstCause(F)
  BY DEF DictionaryLookup, FuzzyLookup
<1>3. Match[raw] = IF FirstCause(D) # "none" THEN Result(FirstCause(D), 100, raw, "dictionary")
                   ELSE IF FirstCause(F) # "none" THEN Result(FirstCause(F), 90, raw, "fuzzy")
                   ELSE UnknownResult
  BY <1>2 DEF Match
<1>4. text \in Known <=> D # {}
  BY DEF Known
<1>5. text \in Mistyped <=> F # {}
  <2>1. ASSUME NEW i \in DOMAIN Taxonomy, NEW t \in Taxonomy[i][2]
        PROVE  Levenshtein(text, t) <= FuzzyMaxDistance <=> text \in TwoEdits(t)
    <3>1. t \in Seq(Char)
      BY TaxonomyTyped
    <3> HIDE DEF text
    <3> QED  BY <1>1, <3>1, NearIsTwoEdits
  <2> HIDE DEF text
  <2>2. ASSUME NEW i \in F PROVE text \in Mistyped
    <3>1. PICK t \in Taxonomy[i][2] : text \in TwoEdits(t)
      BY <2>1
    <3> QED  BY <3>1 DEF Mistyped, Known
  <2>3. ASSUME text \in Mistyped PROVE F # {}
    <3>1. PICK i \in DOMAIN Taxonomy : \E t \in Taxonomy[i][2] : text \in TwoEdits(t)
      BY <2>3 DEF Mistyped, Known
    <3> QED  BY <2>1, <3>1
  <2> QED  BY <2>2, <2>3
<1>6. ASSUME NEW i \in F, Taxonomy[i][1] \in Causes
      PROVE  text \in MistypedOf[Taxonomy[i][1]]
  <2>1. PICK t \in Taxonomy[i][2] : Levenshtein(text, t) <= FuzzyMaxDistance
    OBVIOUS
  <2>2. t \in Seq(Char)
    BY TaxonomyTyped
  <2> HIDE DEF text
  <2>3. text \in TwoEdits(t)
    BY <1>1, <2>1, <2>2, NearIsTwoEdits
  <2>4. t \in TemplatesOf(Taxonomy[i][1])
    BY DEF TemplatesOf
  <2> QED  BY <1>6, <2>3, <2>4 DEF MistypedOf
<1>7. ASSUME NEW i \in D PROVE text \in TemplatesOf(Taxonomy[i][1])
  BY DEF TemplatesOf
<1>8. D \in SUBSET DOMAIN Taxonomy /\ F \in SUBSET DOMAIN Taxonomy
  OBVIOUS
<1> HIDE DEF D, F, text
<1>9. CASE D # {}
  <2>1. PICK i \in D : FirstCause(D) = Taxonomy[i][1] /\ FirstCause(D) \in Causes
                       /\ FirstCause(D) # "none"
    BY <1>8, <1>9, FirstCauseIs
  <2>2. Match[raw] = Result(FirstCause(D), 100, raw, "dictionary")
    BY <1>3, <2>1
  <2>3. r = Result(FirstCause(D), 100, raw, "dictionary")
    BY <2>2 DEF Uncached, Result, UnknownResult
  <2> QED  BY <1>4, <1>7, <1>9, <2>1, <2>3 DEF Exact, Result, text
<1>10. CASE D = {} /\ F # {}
  <2>1. PICK i \in F : FirstCause(F) = Taxonomy[i][1] /\ FirstCause(F) \in Causes
                       /\ FirstCause(F) # "none"
    BY <1>8, <1>10, FirstCauseIs
  <2>2. Match[raw] = Result(FirstCause(F), 90, raw, "fuzzy")
    BY <1>3, <1>8, <1>10, <2>1, FirstCauseIs
  <2>3. r = Result(FirstCause(F), 90, raw, "fuzzy")
    BY <2>2 DEF Uncached, Result, UnknownResult
  <2>4. text \in MistypedOf[FirstCause(F)]
    BY <1>6, <2>1
  <2>5. r.cause = FirstCause(F) /\ r.source = "fuzzy"
    BY <2>3 DEF Result
  <2>6. text \notin Known /\ text \in Mistyped \ Known
    BY <1>4, <1>5, <1>10
  <2>7. Exact(text, r)
    BY <2>4, <2>5, <2>6 DEF Exact
  <2> QED  BY <2>1, <2>5, <2>7 DEF text
<1>11. CASE D = {} /\ F = {}
  <2>1. Match[raw] = UnknownResult
    BY <1>3, <1>8, <1>11, FirstCauseIs
  <2>2. PICK y \in Completions(Payloads) :
          r = IF y # Unavailable /\ Accepts(raw, y)
              THEN Result(y.cause, y.confidence, y.span, "llm") ELSE UnknownResult
    BY <2>1 DEF Uncached, LlmResults
  <2>3. r.source \in {"llm", "unknown"} /\ r.cause \in Causes
    BY <2>2, TaxonomyAssumption DEF Accepts, Result, UnknownResult
  <2>4. text \notin Known /\ text \notin Mistyped \ Known
    BY <1>4, <1>5, <1>11
  <2> QED  BY <2>3, <2>4 DEF Exact, text
<1> QED  BY <1>9, <1>10, <1>11

\* The cache and the answers keep their types whatever the model returns.
THEOREM LanguageTyped == Spec => []LanguageTypeOK
<1> DEFINE NoticeOf == notice = NoNotice \/ notice.inputs \in NoticeInputs
<1>1. Init => NoticeOf
  BY DEF Init, NoticeInit
<1>2. NoticeOf /\ [Next]_vars => NoticeOf'
  <2>1. ASSUME NEW v \in NoticeInputs,
               NEW first \in Completions({Draft(v, s) : s \in Shapes}),
               NEW second \in Completions({Draft(v, s) : s \in Shapes}),
               notice' = GenerateNotice(v, first, second)
        PROVE  notice'.inputs \in NoticeInputs
    BY <2>1, GeneratedValid
  <2> QED  BY <2>1, NoticeNext
<1>3. ReadingInv /\ NoticeOf => LanguageTypeOK
  <2> SUFFICES ASSUME ReadingInv, NoticeOf PROVE LanguageTypeOK
    OBVIOUS
  <2>1. ASSUME NEW k \in DOMAIN cache PROVE k \in Keys /\ cache[k].cause \in Causes
    <3>1. k \in Keys /\ k.raw \in Remarks /\ cache[k] \in Uncached(k.raw)
      BY DEF ReadingInv, Keys
    <3> QED  BY <3>1, UncachedExact
  <2> QED  BY <2>1 DEF ReadingInv, LanguageTypeOK
<1> QED  BY <1>1, <1>2, <1>3, ReadingInvariant, PTL DEF Spec

\* A remark is matched with exactly two typos, whatever the taxonomy, and only
\* one farther from every template is left to the model.
THEOREM TyposTolerated == Spec => []TypoToleranceExact
<1>1. ReadingInv => TypoToleranceExact
  <2>1. ASSUME ReadingInv, NEW g \in given PROVE Exact(Normalized(g[1].raw), g[2])
    <3>1. g[1].raw \in Remarks /\ g[2] \in Uncached(g[1].raw)
      BY <2>1 DEF ReadingInv, Keys
    <3> QED  BY <3>1, UncachedExact
  <2> QED  BY <2>1 DEF TypoToleranceExact, Exact
<1> QED  BY <1>1, ReadingInvariant, PTL

==============================================================================
