-------------------------- MODULE LangExtractProofs --------------------------
(***************************************************************************)
(* The properties of the LangExtract editor, in every reachable state,     *)
(* whatever the schema, the saved configurations and the suggestions are,  *)
(* and without the bound on edits.                                         *)
(*                                                                         *)
(* FocusLands needs no more of the draft than that its examples, their     *)
(* extractions and the attributes of those really are sequences            *)
(* (FocusInv), so that the index an action computes before its update is   *)
(* one of the sequence after it.  The other theorems need their types      *)
(* (Typed); each then is a fact about the operators of langextract.ts,     *)
(* which are taken one after the other: values, attributes, extractions,   *)
(* examples.  PreviewAndBadgesAgree, GuidanceAlwaysNamesTheReason: which   *)
(* drafts can be saved, and run, and whether the editor says so.           *)
(* SavedSurvives: saving, opening and saving again.  PromotedRecognised:   *)
(* opening, saving and comparing a suggestion.                             *)
(***************************************************************************)
EXTENDS LangExtract, NatSets, FiniteSetTheorems, SequenceTheorems, TLAPS

IsSequence(s) == \E S : s \in Seq(S)

ShapedExtraction(x) == "attributes" \in DOMAIN x /\ IsSequence(x.attributes)

ShapedExample(e) ==
  /\ "extractions" \in DOMAIN e
  /\ IsSequence(e.extractions)
  /\ \A j \in DOMAIN e.extractions : ShapedExtraction(e.extractions[j])

Shaped(es) == IsSequence(es) /\ \A i \in DOMAIN es : ShapedExample(es[i])

FocusInv == FocusAlwaysLands /\ Shaped(examples)

-----------------------------------------------------------------------------
(* Sequences.                                                              *)

\* The indexes of a sequence are those from 1 to its length.
LEMMA SequenceDomain ==
  ASSUME NEW s, IsSequence(s)
  PROVE  Len(s) \in Nat /\ DOMAIN s = 1..Len(s)
BY DEF IsSequence

\* A function on an initial piece of the natural numbers is a sequence.
LEMMA SequenceOfFunction ==
  ASSUME NEW n \in Nat, NEW S, NEW s \in [1..n -> S]
  PROVE  IsSequence(s) /\ Len(s) = n
<1>1. s \in Seq(S)
  OBVIOUS
<1>2. Len(s) = n
  OBVIOUS
<1>. QED BY <1>1, <1>2 DEF IsSequence

\* Appending an element keeps the others and puts it at the end.
LEMMA AppendSequence ==
  ASSUME NEW s, IsSequence(s), NEW e
  PROVE  /\ IsSequence(Append(s, e))
         /\ DOMAIN Append(s, e) = 1..Len(s) + 1
         /\ \A i \in DOMAIN Append(s, e) :
              Append(s, e)[i] = IF i = Len(s) + 1 THEN e ELSE s[i]
         /\ Len(s) \in Nat
<1>1. PICK S : s \in Seq(S)
  BY DEF IsSequence
<1>2. s \in Seq(S \cup {e})
  BY <1>1
<1>3. Append(s, e) \in Seq(S \cup {e}) /\ Len(s) \in Nat
  BY <1>2
<1>4. DOMAIN Append(s, e) = 1..Len(s) + 1
  BY <1>2, <1>3
<1>5. \A i \in 1..Len(s) + 1 :
        Append(s, e)[i] = IF i = Len(s) + 1 THEN e ELSE s[i]
  BY <1>2
<1>. QED BY <1>3, <1>4, <1>5 DEF IsSequence

\* Removing an element makes the sequence shorter by one and leaves only
\* elements it had.
LEMMA RemoveSequence ==
  ASSUME NEW s, IsSequence(s), NEW i \in DOMAIN s
  PROVE  /\ IsSequence(Remove(s, i))
         /\ DOMAIN Remove(s, i) = 1..Len(s) - 1
         /\ \A k \in DOMAIN Remove(s, i) : \E j \in DOMAIN s : Remove(s, i)[k] = s[j]
<1>1. PICK S : s \in Seq(S)
  BY DEF IsSequence
<1>2. Len(s) \in Nat /\ DOMAIN s = 1..Len(s) /\ i \in 1..Len(s)
  BY <1>1
<1>. DEFINE a == SubSeq(s, 1, i - 1)
            b == SubSeq(s, i + 1, Len(s))
<1>3. a \in Seq(S) /\ Len(a) = i - 1
      /\ \A k \in 1..i - 1 : a[k] = s[k]
  BY <1>1, <1>2
<1>4. b \in Seq(S) /\ Len(b) = Len(s) - i
      /\ \A k \in 1..Len(s) - i : b[k] = s[i + k]
  BY <1>1, <1>2
<1>. HIDE DEF a, b
<1>5. a \o b \in Seq(S) /\ Len(a \o b) = Len(s) - 1
  <2>1. a \o b \in Seq(S) /\ Len(a \o b) = Len(a) + Len(b)
    <3>. HIDE DEF a, b
    <3>. QED BY <1>3, <1>4, ConcatProperties
  <2>2. (i - 1) + (Len(s) - i) = Len(s) - 1
    BY <1>2
  <2>. QED BY <2>1, <2>2, <1>3, <1>4
<1>6. \A k \in 1..Len(s) - 1 : (a \o b)[k] = IF k < i THEN s[k] ELSE s[k + 1]
  <2>. TAKE k \in 1..Len(s) - 1
  <2>1. CASE k < i
    BY <2>1, <1>2, <1>3, <1>4
  <2>2. CASE ~(k < i)
    <3>1. (a \o b)[k] = b[k - (i - 1)]
      BY <2>2, <1>2, <1>3, <1>4
    <3>2. k - (i - 1) \in 1..Len(s) - i /\ i + (k - (i - 1)) = k + 1
      BY <2>2, <1>2
    <3>. QED BY <3>1, <3>2, <2>2, <1>4
  <2>. QED BY <2>1, <2>2
<1>7. \A k \in 1..Len(s) - 1 : \E j \in 1..Len(s) : (a \o b)[k] = s[j]
  <2>. TAKE k \in 1..Len(s) - 1
  <2>1. k \in 1..Len(s) /\ k + 1 \in 1..Len(s)
    BY <1>2
  <2>. QED BY <2>1, <1>6
<1>8. Remove(s, i) = a \o b
  BY DEF Remove, a, b
<1>9. DOMAIN (a \o b) = 1..Len(s) - 1
  BY <1>5
<1>10. IsSequence(a \o b)
  BY <1>5 DEF IsSequence
<1>. QED BY <1>2, <1>7, <1>8, <1>9, <1>10

\* Replacing an element leaves the others alone.
LEMMA ReplaceInSequence ==
  ASSUME NEW s, IsSequence(s), NEW i \in DOMAIN s, NEW e
  PROVE  /\ IsSequence([s EXCEPT ![i] = e])
         /\ DOMAIN [s EXCEPT ![i] = e] = DOMAIN s
         /\ \A j \in DOMAIN s : [s EXCEPT ![i] = e][j] = IF j = i THEN e ELSE s[j]
<1>1. PICK S : s \in Seq(S)
  BY DEF IsSequence
<1>2. s \in Seq(S \cup {e}) /\ e \in S \cup {e}
  BY <1>1
<1>3. [s EXCEPT ![i] = e] \in Seq(S \cup {e})
  BY <1>2
<1>. QED BY <1>1, <1>3 DEF IsSequence

\* The neighbour of an element that is not the only one takes an index of what
\* is left.
LEMMA NeighbourStays ==
  ASSUME NEW s, IsSequence(s), NEW i \in DOMAIN s, Len(s) # 1
  PROVE  Neighbour(s, i) \in DOMAIN Remove(s, i)
<1>1. Len(s) \in Nat /\ DOMAIN s = 1..Len(s)
  BY SequenceDomain
<1>2. Neighbour(s, i) \in 1..Len(s) - 1
  BY <1>1 DEF Neighbour
<1>. QED BY <1>2, RemoveSequence

-----------------------------------------------------------------------------
(* Leaving elements out of a sequence, and joining sequences.  Both are    *)
(* recursions over the indexes; f has their value up to each index.        *)

WithoutUpTo(f, T, s, e) ==
  /\ f \in [0..Len(s) -> Seq(T)]
  /\ f[0] = << >>
  /\ \A k \in 1..Len(s) :
       f[k] = IF s[k] = e THEN f[k - 1] ELSE Append(f[k - 1], s[k])
  /\ Without(s, e) = f[Len(s)]

JoinUpTo(f, T, s) ==
  /\ f \in [0..Len(s) -> Seq(T)]
  /\ f[0] = << >>
  /\ \A k \in 1..Len(s) : f[k] = f[k - 1] \o s[k]
  /\ Join(s) = f[Len(s)]

\* The recursion of Without has a solution, whose values are sequences.
LEMMA WithoutRecursion ==
  ASSUME NEW T, NEW s \in Seq(T), NEW e
  PROVE  \E f : WithoutUpTo(f, T, s, e)
<1>. DEFINE n == Len(s)
            G == [k \in 1..n |-> [v \in Seq(T) |-> IF s[k] = e THEN v ELSE Append(v, s[k])]]
            Is(g) == g = [m \in 0..n |->
                            IF m = 0 THEN << >>
                            ELSE IF s[m] = e THEN g[m - 1] ELSE Append(g[m - 1], s[m])]
            f == CHOOSE g : Is(g)
<1>1. n \in Nat /\ << >> \in Seq(T) /\ \A k \in 1..n : s[k] \in T
  OBVIOUS
<1>2. Without(s, e) = f[n]
  BY DEF Without
<1>. HIDE DEF n, f
<1>3. G \in [1..n -> [Seq(T) -> Seq(T)]]
  <2>1. ASSUME NEW k \in 1..n, NEW v \in Seq(T) PROVE Append(v, s[k]) \in Seq(T)
    <3>1. s[k] \in T
      BY <1>1
    <3>. QED BY <3>1
  <2>. QED BY <2>1
<1>4. \E g : Is(g)
  <2>. HIDE DEF G
  <2>1. PICK g \in [0..n -> Seq(T)] :
          g[0] = << >> /\ \A k \in 1..n : g[k] = G[k][g[k - 1]]
    <3>. DEFINE X == Seq(T)
                b == << >>
    <3>1. n \in Nat /\ b \in X /\ G \in [1..n -> [X -> X]]
      BY <1>1, <1>3
    <3>. HIDE DEF Is, X, b
    <3>2. PICK g : Recursive(g, n, X, b, G)
      BY <3>1, Recursion
    <3>3. g \in [0..n -> X] /\ g[0] = b /\ \A k \in 1..n : g[k] = G[k][g[k - 1]]
      BY <3>2 DEF Recursive
    <3>. QED BY <3>3 DEF X, b
  <2>2. ASSUME NEW m \in 0..n
        PROVE  g[m] = IF m = 0 THEN << >>
                      ELSE IF s[m] = e THEN g[m - 1] ELSE Append(g[m - 1], s[m])
    <3>1. CASE m = 0
      BY <3>1, <2>1
    <3>2. CASE m # 0
      <4>1. m \in 1..n /\ m - 1 \in 0..n
        BY <1>1, <3>2
      <4>2. g[m - 1] \in Seq(T)
        BY <2>1, <4>1
      <4>3. g[m] = G[m][g[m - 1]]
        BY <2>1, <4>1
      <4>4. G[m][g[m - 1]] = IF s[m] = e THEN g[m - 1] ELSE Append(g[m - 1], s[m])
        BY <4>1, <4>2 DEF G
      <4>. QED BY <3>2, <4>3, <4>4
    <3>. QED BY <3>1, <3>2
  <2>3. Is(g)
    BY <2>1, <2>2
  <2>. HIDE DEF Is
  <2>. QED BY <2>3
<1>5. Is(f)
  <2>. HIDE DEF Is
  <2>. QED BY <1>4 DEF f
<1>6. ASSUME NEW m \in 0..n
      PROVE  f[m] = IF m = 0 THEN << >>
                    ELSE IF s[m] = e THEN f[m - 1] ELSE Append(f[m - 1], s[m])
  BY <1>5
<1>. DEFINE S == {k \in 0..n : f[k] \in Seq(T)}
<1>7. \A k \in 0..n : k \in S
  <2>1. 0 \in S
    <3>1. 0 \in 0..n
      BY <1>1
    <3>2. f[0] = << >>
      BY <3>1, <1>6
    <3>. QED BY <1>1, <3>1, <3>2
  <2>2. ASSUME NEW k \in 1..n, k - 1 \in S PROVE k \in S
    <3>1. f[k - 1] \in Seq(T) /\ s[k] \in T /\ k \in 0..n /\ k # 0
      BY <2>2, <1>1
    <3>2. Append(f[k - 1], s[k]) \in Seq(T)
      BY <3>1
    <3>3. f[k] \in Seq(T)
      BY <3>1, <3>2, <1>6
    <3>. QED BY <3>1, <3>3
  <2>. HIDE DEF S
  <2>. QED BY <1>1, <2>1, <2>2, Induction
<1>8. f \in [0..n -> Seq(T)]
  BY <1>5, <1>7
<1>9. f[0] = << >> /\ \A k \in 1..n :
        f[k] = IF s[k] = e THEN f[k - 1] ELSE Append(f[k - 1], s[k])
  <2>1. 0 \in 0..n /\ \A k \in 1..n : k \in 0..n /\ k # 0
    BY <1>1
  <2>. QED BY <2>1, <1>6
<1>10. WithoutUpTo(f, T, s, e)
  BY <1>2, <1>8, <1>9 DEF WithoutUpTo, n
<1>. QED BY <1>10

\* One step of it.
LEMMA WithoutStep ==
  ASSUME NEW T, NEW s \in Seq(T), NEW e, NEW f, WithoutUpTo(f, T, s, e),
         NEW k \in 1..Len(s)
  PROVE  /\ f[k - 1] \in Seq(T) /\ s[k] \in T /\ k \in 0..Len(s)
         /\ s[k] = e => f[k] = f[k - 1]
         /\ s[k] # e => f[k] = Append(f[k - 1], s[k])
<1>1. k - 1 \in 0..Len(s) /\ k \in 0..Len(s)
  OBVIOUS
<1>2. s[k] \in T
  OBVIOUS
<1>3. f[k - 1] \in Seq(T)
  BY <1>1 DEF WithoutUpTo
<1>4. f[k] = IF s[k] = e THEN f[k - 1] ELSE Append(f[k - 1], s[k])
  BY DEF WithoutUpTo
<1>. QED BY <1>1, <1>2, <1>3, <1>4

\* It leaves nothing exactly if there is nothing else than e.
LEMMA WithoutEmpty ==
  ASSUME NEW T, NEW s \in Seq(T), NEW e
  PROVE  Without(s, e) = << >> <=> \A i \in 1..Len(s) : s[i] = e
<1>. DEFINE n == Len(s)
<1>1. PICK f : WithoutUpTo(f, T, s, e)
  BY WithoutRecursion
<1>. DEFINE S == {k \in 0..n : f[k] = << >> <=> \A i \in 1..k : s[i] = e}
<1>2. n \in Nat /\ f[0] = << >> /\ f[n] = Without(s, e)
  BY <1>1 DEF WithoutUpTo
<1>3. 0 \in S
  BY <1>2
<1>4. ASSUME NEW k \in 1..n, k - 1 \in S PROVE k \in S
  <2>1. f[k - 1] = << >> <=> \A i \in 1..k - 1 : s[i] = e
    BY <1>4
  <2>2. k \in 0..n
    BY <1>2
  <2>3. CASE s[k] = e
    <3>1. f[k] = f[k - 1]
      BY <1>1, <2>3, WithoutStep
    <3>2. (\A i \in 1..k : s[i] = e) <=> \A i \in 1..k - 1 : s[i] = e
      BY <2>3
    <3>. QED BY <2>1, <2>2, <3>1, <3>2
  <2>4. CASE s[k] # e
    <3>1. f[k] = Append(f[k - 1], s[k]) /\ f[k - 1] \in Seq(T) /\ s[k] \in T
      BY <1>1, <2>4, WithoutStep
    <3>2. f[k] # << >>
      <4>1. Len(f[k]) = Len(f[k - 1]) + 1 /\ Len(f[k - 1]) \in Nat
        BY <3>1
      <4>2. Len(<< >>) = 0
        OBVIOUS
      <4>. QED BY <4>1, <4>2
    <3>3. ~ \A i \in 1..k : s[i] = e
      BY <2>4
    <3>. QED BY <2>2, <3>2, <3>3
  <2>. QED BY <2>3, <2>4
<1>5. \A k \in 0..n : k \in S
  <2>. HIDE DEF S
  <2>. QED BY <1>2, <1>3, <1>4, Induction
<1>6. f[n] = << >> <=> \A i \in 1..n : s[i] = e
  BY <1>2, <1>5
<1>. QED BY <1>2, <1>6

\* It leaves only elements of s that are not e.
LEMMA WithoutType ==
  ASSUME NEW T, NEW s \in Seq(T), NEW e
  PROVE  Without(s, e) \in Seq(T \ {e})
<1>. DEFINE n == Len(s)
            R == T \ {e}
<1>1. PICK f : WithoutUpTo(f, T, s, e)
  BY WithoutRecursion
<1>. DEFINE S == {k \in 0..n : f[k] \in Seq(R)}
<1>2. n \in Nat /\ f[0] = << >> /\ f[n] = Without(s, e)
  BY <1>1 DEF WithoutUpTo
<1>3. 0 \in S
  <2>1. << >> \in Seq(R) /\ 0 \in 0..n
    BY <1>2
  <2>. HIDE DEF R
  <2>. QED BY <1>2, <2>1
<1>4. ASSUME NEW k \in 1..n, k - 1 \in S PROVE k \in S
  <2>1. f[k - 1] \in Seq(R) /\ k \in 0..n
    BY <1>2, <1>4
  <2>2. CASE s[k] = e
    <3>1. f[k] = f[k - 1]
      BY <1>1, <2>2, WithoutStep
    <3>. QED BY <2>1, <3>1
  <2>3. CASE s[k] # e
    <3>1. f[k] = Append(f[k - 1], s[k]) /\ s[k] \in T
      BY <1>1, <2>3, WithoutStep
    <3>2. s[k] \in R
      BY <2>3, <3>1
    <3>3. Append(f[k - 1], s[k]) \in Seq(R)
      <4>. HIDE DEF R
      <4>. QED BY <2>1, <3>2
    <3>. QED BY <2>1, <3>1, <3>3
  <2>. QED BY <2>2, <2>3
<1>5. \A k \in 0..n : k \in S
  <2>. HIDE DEF S
  <2>. QED BY <1>2, <1>3, <1>4, Induction
<1>6. f[n] \in Seq(R)
  BY <1>2, <1>5
<1>. QED BY <1>2, <1>6

\* What has no e stays as it is.
LEMMA WithoutSame ==
  ASSUME NEW T, NEW s \in Seq(T), NEW e, \A i \in 1..Len(s) : s[i] # e
  PROVE  Without(s, e) = s
<1>. DEFINE n == Len(s)
<1>1. PICK f : WithoutUpTo(f, T, s, e)
  BY WithoutRecursion
<1>. DEFINE S == {k \in 0..n : Len(f[k]) = k /\ \A i \in 1..k : f[k][i] = s[i]}
<1>2. n \in Nat /\ f[0] = << >> /\ f[n] = Without(s, e) /\ f[n] \in Seq(T)
  <2>1. n \in Nat
    OBVIOUS
  <2>. QED BY <1>1, <2>1 DEF WithoutUpTo
<1>3. 0 \in S
  BY <1>2
<1>4. ASSUME NEW k \in 1..n, k - 1 \in S PROVE k \in S
  <2>1. /\ f[k - 1] \in Seq(T) /\ s[k] \in T /\ k \in 0..n
        /\ f[k] = Append(f[k - 1], s[k])
    BY <1>1, WithoutStep
  <2>2. Len(f[k - 1]) = k - 1 /\ \A i \in 1..k - 1 : f[k - 1][i] = s[i]
    BY <1>4
  <2>3. Len(f[k]) = k
    BY <2>1, <2>2
  <2>4. \A i \in 1..k : f[k][i] = s[i]
    BY <2>1, <2>2
  <2>. QED BY <2>1, <2>3, <2>4
<1>5. \A k \in 0..n : k \in S
  <2>. HIDE DEF S
  <2>. QED BY <1>2, <1>3, <1>4, Induction
<1>6. Len(f[n]) = n /\ \A i \in 1..n : f[n][i] = s[i]
  BY <1>2, <1>5
<1>7. f[n] = s
  BY <1>2, <1>6, SeqEqual
<1>. QED BY <1>2, <1>7

\* The recursion of Join has a solution too.
LEMMA JoinRecursion ==
  ASSUME NEW T, NEW s \in Seq(Seq(T))
  PROVE  \E f : JoinUpTo(f, T, s)
<1>. DEFINE n == Len(s)
            G == [k \in 1..n |-> [v \in Seq(T) |-> v \o s[k]]]
            Is(g) == g = [m \in 0..n |-> IF m = 0 THEN << >> ELSE g[m - 1] \o s[m]]
            f == CHOOSE g : Is(g)
<1>1. n \in Nat /\ << >> \in Seq(T) /\ \A k \in 1..n : s[k] \in Seq(T)
  OBVIOUS
<1>2. Join(s) = f[n]
  BY DEF Join
<1>. HIDE DEF n, f
<1>3. G \in [1..n -> [Seq(T) -> Seq(T)]]
  <2>1. ASSUME NEW k \in 1..n, NEW v \in Seq(T) PROVE v \o s[k] \in Seq(T)
    <3>1. s[k] \in Seq(T)
      BY <1>1
    <3>. QED BY <3>1, ConcatProperties
  <2>. QED BY <2>1
<1>4. \E g : Is(g)
  <2>. HIDE DEF G
  <2>1. PICK g \in [0..n -> Seq(T)] :
          g[0] = << >> /\ \A k \in 1..n : g[k] = G[k][g[k - 1]]
    <3>. DEFINE X == Seq(T)
                b == << >>
    <3>1. n \in Nat /\ b \in X /\ G \in [1..n -> [X -> X]]
      BY <1>1, <1>3
    <3>. HIDE DEF Is, X, b
    <3>2. PICK g : Recursive(g, n, X, b, G)
      BY <3>1, Recursion
    <3>3. g \in [0..n -> X] /\ g[0] = b /\ \A k \in 1..n : g[k] = G[k][g[k - 1]]
      BY <3>2 DEF Recursive
    <3>. QED BY <3>3 DEF X, b
  <2>2. ASSUME NEW m \in 0..n
        PROVE  g[m] = IF m = 0 THEN << >> ELSE g[m - 1] \o s[m]
    <3>1. CASE m = 0
      BY <3>1, <2>1
    <3>2. CASE m # 0
      <4>1. m \in 1..n /\ m - 1 \in 0..n
        BY <1>1, <3>2
      <4>2. g[m - 1] \in Seq(T)
        BY <2>1, <4>1
      <4>3. g[m] = G[m][g[m - 1]]
        BY <2>1, <4>1
      <4>4. G[m][g[m - 1]] = g[m - 1] \o s[m]
        BY <4>1, <4>2 DEF G
      <4>. QED BY <3>2, <4>3, <4>4
    <3>. QED BY <3>1, <3>2
  <2>3. Is(g)
    BY <2>1, <2>2
  <2>. HIDE DEF Is
  <2>. QED BY <2>3
<1>5. Is(f)
  <2>. HIDE DEF Is
  <2>. QED BY <1>4 DEF f
<1>6. ASSUME NEW m \in 0..n
      PROVE  f[m] = IF m = 0 THEN << >> ELSE f[m - 1] \o s[m]
  BY <1>5
<1>. DEFINE S == {k \in 0..n : f[k] \in Seq(T)}
<1>7. \A k \in 0..n : k \in S
  <2>1. 0 \in S
    <3>1. 0 \in 0..n
      BY <1>1
    <3>2. f[0] = << >>
      BY <3>1, <1>6
    <3>. QED BY <1>1, <3>1, <3>2
  <2>2. ASSUME NEW k \in 1..n, k - 1 \in S PROVE k \in S
    <3>1. f[k - 1] \in Seq(T) /\ s[k] \in Seq(T) /\ k \in 0..n /\ k # 0
      BY <2>2, <1>1
    <3>2. f[k - 1] \o s[k] \in Seq(T)
      BY <3>1, ConcatProperties
    <3>3. f[k] \in Seq(T)
      BY <3>1, <3>2, <1>6
    <3>. QED BY <3>1, <3>3
  <2>. HIDE DEF S
  <2>. QED BY <1>1, <2>1, <2>2, Induction
<1>8. f \in [0..n -> Seq(T)]
  BY <1>5, <1>7
<1>9. f[0] = << >> /\ \A k \in 1..n : f[k] = f[k - 1] \o s[k]
  <2>1. 0 \in 0..n /\ \A k \in 1..n : k \in 0..n /\ k # 0
    BY <1>1
  <2>. QED BY <2>1, <1>6
<1>10. JoinUpTo(f, T, s)
  BY <1>2, <1>8, <1>9 DEF JoinUpTo, n
<1>. QED BY <1>10

\* Joined sequences are a sequence of the same elements.
LEMMA JoinType ==
  ASSUME NEW T, NEW s \in Seq(Seq(T))
  PROVE  Join(s) \in Seq(T)
<1>1. Len(s) \in 0..Len(s)
  OBVIOUS
<1>2. PICK f : JoinUpTo(f, T, s)
  BY JoinRecursion
<1>. QED BY <1>1, <1>2 DEF JoinUpTo

\* Joining single elements puts them in a row.
LEMMA JoinSingles ==
  ASSUME NEW T, NEW w \in Seq(T), NEW s, s = [i \in 1..Len(w) |-> <<w[i]>>]
  PROVE  Join(s) = w
<1>. DEFINE n == Len(w)
<1>1. n \in Nat /\ \A i \in 1..n : w[i] \in T
  OBVIOUS
<1>2. s \in Seq(Seq(T)) /\ Len(s) = n /\ \A i \in 1..n : s[i] = <<w[i]>>
  <2>1. \A i \in 1..n : <<w[i]>> \in Seq(T)
    BY <1>1
  <2>2. s = [i \in 1..n |-> <<w[i]>>]
    OBVIOUS
  <2>. HIDE DEF n
  <2>3. s \in [1..n -> Seq(T)]
    BY <2>1, <2>2
  <2>4. Len(s) = n /\ \A i \in 1..n : s[i] = <<w[i]>>
    BY <1>1, <2>2, <2>3
  <2>. QED BY <1>1, <2>3, <2>4
<1>3. PICK f : JoinUpTo(f, T, s)
  BY <1>2, JoinRecursion
<1>4. /\ f \in [0..n -> Seq(T)] /\ f[0] = << >> /\ Join(s) = f[n]
      /\ \A k \in 1..n : f[k] = f[k - 1] \o <<w[k]>>
  BY <1>2, <1>3 DEF JoinUpTo
<1>. DEFINE S == {k \in 0..n : Len(f[k]) = k /\ \A i \in 1..k : f[k][i] = w[i]}
<1>5. 0 \in S
  BY <1>1, <1>4
<1>6. ASSUME NEW k \in 1..n, k - 1 \in S PROVE k \in S
  <2>1. k - 1 \in 0..n /\ k \in 0..n
    BY <1>1
  <2>2. f[k - 1] \in Seq(T) /\ f[k] = f[k - 1] \o <<w[k]>> /\ <<w[k]>> \in Seq(T)
    <3>1. w[k] \in T
      BY <1>1
    <3>2. <<w[k]>> \in Seq(T)
      BY <3>1
    <3>3. f[k - 1] \in Seq(T)
      BY <1>4, <2>1
    <3>. QED BY <1>4, <3>2, <3>3
  <2>3. Len(f[k - 1]) = k - 1 /\ \A i \in 1..k - 1 : f[k - 1][i] = w[i]
    BY <1>6
  <2>4. Len(<<w[k]>>) = 1 /\ <<w[k]>>[1] = w[k]
    OBVIOUS
  <2>. DEFINE a == f[k - 1]
              b == <<w[k]>>
  <2>5. /\ Len(a \o b) = Len(a) + Len(b)
        /\ \A i \in 1..Len(a) + Len(b) :
             (a \o b)[i] = IF i <= Len(a) THEN a[i] ELSE b[i - Len(a)]
    <3>. HIDE DEF a, b
    <3>. QED BY <2>2, ConcatProperties DEF a, b
  <2>6. Len(f[k]) = k
    BY <2>2, <2>3, <2>4, <2>5
  <2>7. \A i \in 1..k : f[k][i] = w[i]
    BY <2>2, <2>3, <2>4, <2>5
  <2>. QED BY <2>1, <2>6, <2>7
<1>7. \A k \in 0..n : k \in S
  <2>. HIDE DEF S
  <2>. QED BY <1>1, <1>5, <1>6, Induction
<1>8. Len(f[n]) = n /\ \A i \in 1..n : f[n][i] = w[i]
  BY <1>1, <1>7
<1>9. f[n] \in Seq(T)
  BY <1>1, <1>4
<1>10. f[n] = w
  BY <1>8, <1>9, SeqEqual
<1>. QED BY <1>4, <1>10

-----------------------------------------------------------------------------
(* The white space around texts and values.                                *)

\* A value that has written lines has a first and a last one.
LEMMA WrittenEnds ==
  ASSUME NEW l \in Seq(Line), NEW full,
         full = {i \in 1..Len(l) : l[i] # Blank}, full # {}
  PROVE  /\ \E i \in full : \A j \in full : i <= j
         /\ \E i \in full : \A j \in full : j <= i
<1>1. full \in SUBSET Nat /\ Len(l) \in Nat /\ \A j \in full : j <= Len(l)
  OBVIOUS
<1>. QED BY <1>1, SmallestExists, LargestExists

\* trim leaves a value alone whose ends are written.
LEMMA TrimmedSame ==
  ASSUME NEW l \in Seq(Line), Len(l) # 0, l[1] # Blank, l[Len(l)] # Blank
  PROVE  TrimLines(l) = l
<1>. DEFINE full == {i \in 1..Len(l) : l[i] # Blank}
            lo == CHOOSE i \in full : \A j \in full : i <= j
            hi == CHOOSE i \in full : \A j \in full : j <= i
<1>1. Len(l) \in Nat /\ 1 \in full /\ Len(l) \in full
  OBVIOUS
<1>2. full # {} /\ \A j \in full : j \in 1..Len(l)
  BY <1>1
<1>3. TrimLines(l) = SubSeq(l, lo, hi)
  BY <1>2 DEF TrimLines
<1>4. /\ lo \in full /\ \A j \in full : lo <= j
      /\ hi \in full /\ \A j \in full : j <= hi
  <2>1. /\ \E i \in full : \A j \in full : i <= j
        /\ \E i \in full : \A j \in full : j <= i
    <3>1. full = {i \in 1..Len(l) : l[i] # Blank}
      OBVIOUS
    <3>. HIDE DEF full
    <3>. QED BY <1>2, <3>1, WrittenEnds
  <2>. HIDE DEF full
  <2>. QED BY <2>1
<1>. HIDE DEF full, lo, hi
<1>5. lo = 1 /\ hi = Len(l)
  BY <1>1, <1>2, <1>4
<1>6. SubSeq(l, 1, Len(l)) = l
  OBVIOUS
<1>. QED BY <1>3, <1>5, <1>6

\* trim leaves nothing of a value without written lines, and otherwise a value
\* whose ends are written.
LEMMA TrimLinesFacts ==
  ASSUME NEW l \in Seq(Line)
  PROVE  /\ TrimLines(l) \in Seq(Line)
         /\ TrimLines(l) = << >> <=> \A i \in 1..Len(l) : l[i] = Blank
         /\ TrimLines(TrimLines(l)) = TrimLines(l)
<1>. DEFINE full == {i \in 1..Len(l) : l[i] # Blank}
            lo == CHOOSE i \in full : \A j \in full : i <= j
            hi == CHOOSE i \in full : \A j \in full : j <= i
<1>1. full = {} <=> \A i \in 1..Len(l) : l[i] = Blank
  OBVIOUS
<1>2. CASE full = {}
  <2>1. TrimLines(l) = << >>
    BY <1>2 DEF TrimLines
  <2>2. << >> \in Seq(Line)
    OBVIOUS
  <2>3. TrimLines(<< >>) = << >>
    <3>1. {i \in 1..Len(<< >>) : << >>[i] # Blank} = {}
      OBVIOUS
    <3>. QED BY <3>1 DEF TrimLines
  <2>. QED BY <1>1, <1>2, <2>1, <2>2, <2>3
<1>3. CASE full # {}
  <2>1. TrimLines(l) = SubSeq(l, lo, hi)
    BY <1>3 DEF TrimLines
  <2>2. /\ lo \in full /\ \A j \in full : lo <= j
        /\ hi \in full /\ \A j \in full : j <= hi
    <3>1. /\ \E i \in full : \A j \in full : i <= j
          /\ \E i \in full : \A j \in full : j <= i
      <4>1. full = {i \in 1..Len(l) : l[i] # Blank}
        OBVIOUS
      <4>. HIDE DEF full
      <4>. QED BY <1>3, <4>1, WrittenEnds
    <3>. HIDE DEF full
    <3>. QED BY <3>1
  <2>. HIDE DEF lo, hi
  <2>3. lo \in 1..Len(l) /\ hi \in 1..Len(l) /\ lo <= hi /\ l[lo] # Blank /\ l[hi] # Blank
    BY <2>2
  <2>. DEFINE r == SubSeq(l, lo, hi)
  <2>4. Len(l) \in Nat
    OBVIOUS
  <2>5. r \in Seq(Line) /\ Len(r) = hi - lo + 1
        /\ \A i \in 1..hi - lo + 1 : r[i] = l[lo + i - 1]
    BY <2>3, <2>4
  <2>. HIDE DEF r, full
  <2>6. Len(r) # 0 /\ r[1] = l[lo] /\ r[Len(r)] = l[hi]
    <3>1. 1 \in 1..hi - lo + 1 /\ hi - lo + 1 \in 1..hi - lo + 1
      BY <2>3, <2>4
    <3>2. lo + 1 - 1 = lo /\ lo + (hi - lo + 1) - 1 = hi
      BY <2>3, <2>4
    <3>. QED BY <2>3, <2>4, <2>5, <3>1, <3>2
  <2>7. TrimLines(r) = r
    BY <2>3, <2>5, <2>6, TrimmedSame
  <2>8. r # << >>
    BY <2>5, <2>6
  <2>. QED BY <1>1, <1>3, <2>1, <2>5, <2>7, <2>8 DEF r
<1>. QED BY <1>2, <1>3

\* So does the trim of a text.
LEMMA TrimFacts ==
  ASSUME NEW t \in Text
  PROVE  /\ Trim(t) \in Text /\ Trim(Trim(t)) = Trim(t)
         /\ IsBlank(Trim(t)) <=> IsBlank(t)
<1>1. Trim(t) \in Text /\ Trim(t).word = t.word
  BY DEF Trim, Text
<1>2. Trim(Trim(t)) = Trim(t)
  BY DEF Trim, Text
<1>. QED BY <1>1, <1>2 DEF IsBlank

-----------------------------------------------------------------------------
(* What is saved of an attribute.                                          *)

\* A list is saved as one item for each written line, and a single value as its
\* trimmed lines; either is empty exactly if no line is written.
LEMMA SavedValueFacts ==
  ASSUME NEW a, a.kind \in Kind, a.value \in Seq(Line)
  PROVE  /\ SavedValue(a).kind = a.kind
         /\ a.kind = "string" =>
              SavedValue(a) = [kind |-> "string", lines |-> TrimLines(a.value)]
         /\ a.kind = "string_array" =>
              SavedValue(a) =
                [kind |-> "string_array",
                 items |-> [i \in 1..Len(Written(a.value)) |-> <<Written(a.value)[i]>>]]
         /\ EmptyValue(SavedValue(a)) <=> \A i \in 1..Len(a.value) : a.value[i] = Blank
<1>. DEFINE w == Written(a.value)
            items == [i \in 1..Len(w) |-> <<w[i]>>]
<1>1. w \in Seq(Line) /\ (w = << >> <=> \A i \in 1..Len(a.value) : a.value[i] = Blank)
  <2>1. Without(a.value, Blank) \in Seq(Line \ {Blank})
    BY WithoutType
  <2>2. Without(a.value, Blank) = << >> <=> \A i \in 1..Len(a.value) : a.value[i] = Blank
    BY WithoutEmpty
  <2>3. Without(a.value, Blank) \in Seq(Line)
    BY <2>1
  <2>. QED BY <2>2, <2>3 DEF Written
<1>2. CASE a.kind = "string"
  <2>1. SavedValue(a) = [kind |-> "string", lines |-> TrimLines(a.value)]
    BY <1>2 DEF SavedValue
  <2>2. EmptyValue(SavedValue(a)) <=> TrimLines(a.value) = << >>
    BY <2>1 DEF EmptyValue
  <2>. QED BY <1>2, <2>1, <2>2, TrimLinesFacts
<1>3. CASE a.kind = "string_array"
  <2>1. SavedValue(a) = [kind |-> "string_array", items |-> items]
    BY <1>3 DEF SavedValue
  <2>. HIDE DEF w
  <2>2. Len(w) \in Nat /\ (items = << >> <=> w = << >>)
    <3>1. Len(w) \in Nat /\ (Len(w) = 0 <=> w = << >>)
      BY <1>1
    <3>2. items = << >> <=> Len(w) = 0
      <4>1. DOMAIN items = 1..Len(w)
        OBVIOUS
      <4>2. Len(w) = 0 => items = << >>
        BY <3>1
      <4>3. DOMAIN << >> = {}
        OBVIOUS
      <4>. HIDE DEF items
      <4>4. 1..Len(w) = {} => Len(w) = 0
        <5>1. \A n \in Nat : n # 0 => 1 \in 1..n
          OBVIOUS
        <5>. QED BY <3>1, <5>1
      <4>5. items = << >> => Len(w) = 0
        BY <4>1, <4>3, <4>4
      <4>. QED BY <4>2, <4>5
    <3>. QED BY <3>1, <3>2
  <2>3. EmptyValue(SavedValue(a)) <=> items = << >>
    BY <2>1 DEF EmptyValue
  <2>. QED BY <1>1, <1>3, <2>1, <2>2, <2>3 DEF w
<1>. QED BY <1>2, <1>3 DEF Kind

-----------------------------------------------------------------------------
(* Opening and building examples.                                          *)

\* A finite set can be listed.
LEMMA EntriesList ==
  ASSUME NEW S, IsFiniteSet(S)
  PROVE  /\ Cardinality(S) \in Nat /\ Len(Entries(S)) = Cardinality(S)
         /\ Entries(S) \in [1..Cardinality(S) -> S]
         /\ \A k \in S : \E i \in 1..Cardinality(S) : Entries(S)[i] = k
<1>1. Cardinality(S) \in Nat /\ ExistsBijection(1..Cardinality(S), S)
  BY FS_CardinalityType
<1>2. \E s \in [1..Cardinality(S) -> S] : \A k \in S : \E i \in DOMAIN s : s[i] = k
  BY <1>1 DEF ExistsBijection, Bijection, Injection, Surjection
<1>3. /\ Entries(S) \in [1..Cardinality(S) -> S]
      /\ \A k \in S : \E i \in DOMAIN Entries(S) : Entries(S)[i] = k
  BY <1>2 DEF Entries
<1>4. DOMAIN Entries(S) = 1..Cardinality(S)
  BY <1>3
<1>. QED BY <1>1, <1>3, <1>4, SequenceOfFunction

\* OpenedAttributes turns a record of finitely many attributes into a sequence.
LEMMA OpenedAttributesSequence ==
  ASSUME NEW attributes, IsFiniteSet(DOMAIN attributes)
  PROVE  IsSequence(OpenedAttributes(attributes))
<1>. DEFINE keys == Entries(DOMAIN attributes)
            opened == OpenedAttributes(attributes)
<1>1. Len(keys) \in Nat
  BY EntriesList
<1>2. opened \in [1..Len(keys) -> {opened[i] : i \in 1..Len(keys)}]
  BY DEF OpenedAttributes
<1>. QED BY <1>1, <1>2, SequenceOfFunction

\* OpenedExample turns a saved example into one of the draft.
LEMMA OpenedExampleShaped ==
  ASSUME NEW e, IsSequence(e.extractions),
         \A j \in DOMAIN e.extractions :
           /\ "attributes" \in DOMAIN e.extractions[j]
           /\ IsFiniteSet(DOMAIN e.extractions[j].attributes)
  PROVE  ShapedExample(OpenedExample(e))
<1>. DEFINE n == Len(e.extractions)
            xs == OpenedExample(e).extractions
<1>1. n \in Nat /\ DOMAIN e.extractions = 1..n
  BY SequenceDomain
<1>2. "extractions" \in DOMAIN OpenedExample(e)
  BY DEF OpenedExample
<1>3. xs = [j \in 1..n |-> [e.extractions[j] EXCEPT
                              !.attributes = OpenedAttributes(e.extractions[j].attributes)]]
  BY DEF OpenedExample
<1>. HIDE DEF n, xs
<1>4. xs \in [1..n -> {xs[j] : j \in 1..n}]
  BY <1>3
<1>5. ASSUME NEW j \in 1..n
      PROVE  ShapedExtraction(xs[j])
  <2>1. /\ "attributes" \in DOMAIN e.extractions[j]
        /\ IsFiniteSet(DOMAIN e.extractions[j].attributes)
    BY <1>1
  <2>2. IsSequence(OpenedAttributes(e.extractions[j].attributes))
    BY <2>1, OpenedAttributesSequence
  <2>3. xs[j] = [e.extractions[j] EXCEPT
                   !.attributes = OpenedAttributes(e.extractions[j].attributes)]
    BY <1>3
  <2>4. /\ "attributes" \in DOMAIN xs[j]
        /\ xs[j].attributes = OpenedAttributes(e.extractions[j].attributes)
    BY <2>1, <2>3
  <2>. QED BY <2>2, <2>4 DEF ShapedExtraction
<1>6. IsSequence(xs) /\ DOMAIN xs = 1..n
  BY <1>1, <1>4, SequenceOfFunction
<1>. QED BY <1>2, <1>5, <1>6 DEF ShapedExample, xs

\* So does buildDraftLangExtractExamples with a sequence of them.
LEMMA OpenedShaped ==
  ASSUME NEW config,
         config # None =>
           /\ IsSequence(config.examples)
           /\ \A i \in DOMAIN config.examples : ShapedExample(OpenedExample(config.examples[i]))
  PROVE  Shaped(buildDraftLangExtractExamples(config))
<1>1. CASE config = None
  <2>1. buildDraftLangExtractExamples(config) = << >>
    BY <1>1 DEF buildDraftLangExtractExamples
  <2>2. << >> \in Seq({}) /\ DOMAIN << >> = {}
    OBVIOUS
  <2>. QED BY <2>1, <2>2 DEF Shaped, IsSequence
<1>2. CASE config # None
  <2>. DEFINE n == Len(config.examples)
              es == buildDraftLangExtractExamples(config)
  <2>1. n \in Nat /\ DOMAIN config.examples = 1..n
    BY <1>2, SequenceDomain
  <2>2. es = [i \in 1..n |-> OpenedExample(config.examples[i])]
    BY <1>2 DEF buildDraftLangExtractExamples
  <2>. HIDE DEF n, es
  <2>3. es \in [1..n -> {es[i] : i \in 1..n}]
    BY <2>2
  <2>4. IsSequence(es) /\ DOMAIN es = 1..n
    BY <2>1, <2>3, SequenceOfFunction
  <2>5. \A i \in 1..n : ShapedExample(es[i])
    BY <2>1, <2>2, <1>2
  <2>. QED BY <2>4, <2>5 DEF Shaped, es
<1>. QED BY <1>1, <1>2

\* A sequence of its elements is a sequence.
LEMMA SavedIsSequence ==
  ASSUME NEW s, s \in Seq({s[i] : i \in DOMAIN s})
  PROVE  IsSequence(s)
BY DEF IsSequence

\* A saved example or a suggestion is opened as an example of the draft.
LEMMA SavedShaped ==
  ASSUME NEW e, SavedExample(e)
  PROVE  ShapedExample(OpenedExample(e))
<1>1. e.extractions \in Seq({e.extractions[j] : j \in DOMAIN e.extractions})
  BY DEF SavedExample
<1>2. \A j \in DOMAIN e.extractions :
        /\ "attributes" \in DOMAIN e.extractions[j]
        /\ IsFiniteSet(DOMAIN e.extractions[j].attributes)
  BY DEF SavedExample, SavedExtraction
<1>. QED BY <1>1, <1>2, SavedIsSequence, OpenedExampleShaped

\* The attributes that are saved are finitely many.
LEMMA SavedAttributesFinite ==
  ASSUME NEW attributes, IsSequence(attributes)
  PROVE  IsFiniteSet(DOMAIN SavedAttributes(attributes))
<1>. DEFINE I == 1..Len(attributes)
            T == {attributes[i].key.word : i \in I}
            f == [i \in I |-> attributes[i].key.word]
<1>1. DOMAIN SavedAttributes(attributes) = T
  BY DEF SavedAttributes
<1>2. Len(attributes) \in Nat
  BY SequenceDomain
<1>3. IsFiniteSet(I)
  BY <1>2, FS_Interval
<1>4. f \in Surjection(I, T)
  BY DEF Surjection
<1>. QED BY <1>1, <1>3, <1>4, FS_Surjection

\* What is saved of an example can be opened again.
LEMMA BuiltShaped ==
  ASSUME NEW e, ShapedExample(e)
  PROVE  ShapedExample(OpenedExample(BuiltExample(e)))
<1>. DEFINE n == Len(e.extractions)
            b == BuiltExample(e)
            xs == b.extractions
<1>1. n \in Nat /\ DOMAIN e.extractions = 1..n
  BY SequenceDomain DEF ShapedExample
<1>2. xs = [j \in 1..n |-> [class |-> e.extractions[j].class,
                            span |-> Trim(e.extractions[j].span),
                            attributes |-> SavedAttributes(e.extractions[j].attributes)]]
  BY DEF BuiltExample
<1>. HIDE DEF b, n
<1>3. xs \in [1..n -> {xs[j] : j \in 1..n}]
  BY <1>2
<1>4. IsSequence(xs) /\ DOMAIN xs = 1..n
  BY <1>1, <1>3, SequenceOfFunction
<1>5. ASSUME NEW j \in 1..n
      PROVE  "attributes" \in DOMAIN xs[j] /\ IsFiniteSet(DOMAIN xs[j].attributes)
  <2>1. IsSequence(e.extractions[j].attributes)
    BY <1>1 DEF ShapedExample, ShapedExtraction
  <2>2. /\ "attributes" \in DOMAIN xs[j]
        /\ xs[j].attributes = SavedAttributes(e.extractions[j].attributes)
    BY <1>2
  <2>. QED BY <2>1, <2>2, SavedAttributesFinite
<1>6. ShapedExample(OpenedExample(b))
  BY <1>4, <1>5, OpenedExampleShaped
<1>. QED BY <1>6 DEF b

-----------------------------------------------------------------------------
(* Saving and opening the attributes of an extraction.                     *)

\* The saved records of attributes.
SavedRecord(r) ==
  /\ IsFiniteSet(DOMAIN r) /\ DOMAIN r \subseteq Line
  /\ \A k \in DOMAIN r : r[k] \in SavedValues

\* The attribute of the draft that stands for one of a saved record.
OpenedAs(k, v) ==
  [key |-> [word |-> k, pad |-> FALSE], kind |-> v.kind,
   value |-> IF v.kind = "string" THEN v.lines ELSE Join(v.items)]

LEMMA OpenedAsType ==
  ASSUME NEW k \in Line, NEW v \in SavedValues
  PROVE  /\ OpenedAs(k, v) \in DraftAttribute
         /\ OpenedAs(k, v).key.word = k
<1>1. v.kind \in Kind
  BY DEF SavedValues, Kind
<1>2. (IF v.kind = "string" THEN v.lines ELSE Join(v.items)) \in Seq(Line)
  <2>1. CASE v.kind = "string"
    <3>1. v.lines \in Seq(Line)
      BY <2>1 DEF SavedValues
    <3>. QED BY <2>1, <3>1
  <2>2. CASE v.kind # "string"
    <3>1. v.items \in Seq(Seq(Line))
      BY <2>2 DEF SavedValues
    <3>. QED BY <2>2, <3>1, JoinType
  <2>. QED BY <2>1, <2>2
<1>. DEFINE key == [word |-> k, pad |-> FALSE]
            value == IF v.kind = "string" THEN v.lines ELSE Join(v.items)
<1>3. key \in Text /\ key.word = k
  BY DEF Text, Line
<1>4. OpenedAs(k, v) = [key |-> key, kind |-> v.kind, value |-> value]
  BY DEF OpenedAs
<1>. HIDE DEF key, value
<1>5. value \in Seq(Line)
  BY <1>2 DEF value
<1>. QED BY <1>1, <1>3, <1>4, <1>5 DEF DraftAttribute

\* OpenedAttributes has one attribute for each of the record, and no other.
LEMMA OpenedAttributesFacts ==
  ASSUME NEW r, SavedRecord(r), NEW o, o = OpenedAttributes(r)
  PROVE  /\ o \in Seq(DraftAttribute)
         /\ \A i \in 1..Len(o) : \E k \in DOMAIN r : o[i] = OpenedAs(k, r[k])
         /\ \A k \in DOMAIN r : \E i \in 1..Len(o) : o[i] = OpenedAs(k, r[k])
<1>. DEFINE S == DOMAIN r
            keys == Entries(S)
            n == Cardinality(S)
<1>1. /\ n \in Nat /\ Len(keys) = n /\ keys \in [1..n -> S]
      /\ \A k \in S : \E i \in 1..n : keys[i] = k
  <2>1. IsFiniteSet(S)
    BY DEF SavedRecord
  <2>. HIDE DEF S
  <2>. QED BY <2>1, EntriesList
<1>2. o = [i \in 1..Len(keys) |-> OpenedAs(keys[i], r[keys[i]])]
  BY DEF OpenedAttributes, OpenedAs
<1>. HIDE DEF n, keys
<1>3. o = [i \in 1..n |-> OpenedAs(keys[i], r[keys[i]])]
  BY <1>1, <1>2
<1>4. \A i \in 1..n : keys[i] \in S /\ o[i] = OpenedAs(keys[i], r[keys[i]])
  BY <1>1, <1>3
<1>5. \A i \in 1..n : o[i] \in DraftAttribute
  BY <1>4, OpenedAsType DEF SavedRecord
<1>6. o \in [1..n -> DraftAttribute]
  BY <1>3, <1>5
<1>7. o \in Seq(DraftAttribute) /\ Len(o) = n
  BY <1>1, <1>6
<1>8. \A k \in S : \E i \in 1..n : o[i] = OpenedAs(k, r[k])
  BY <1>1, <1>4
<1>. QED BY <1>4, <1>7, <1>8

\* The members of a sequence.
LEMMA Members ==
  ASSUME NEW S, NEW s \in Seq(S)
  PROVE  Len(s) \in Nat /\ \A i \in 1..Len(s) : s[i] \in S
OBVIOUS

\* Of some indexes there is a last one.
LEMMA LastIndex ==
  ASSUME NEW n \in Nat, NEW N \in SUBSET (1..n), N # {}
  PROVE  \E m \in N : \A j \in m + 1..n : j \in 1..n /\ j \notin N
<1>1. PICK m \in N : \A i \in N : i <= m
  <2>1. N \in SUBSET Nat /\ \A i \in N : i <= n
    OBVIOUS
  <2>. QED BY <2>1, LargestExists
<1>. QED BY <1>1

\* A value for each name, that of an attribute of this name.
ValueForName(r, as) ==
  /\ r = [k \in DOMAIN r |-> r[k]]
  /\ DOMAIN r = {as[i].key.word : i \in 1..Len(as)}
  /\ \A k \in DOMAIN r : \E i \in 1..Len(as) :
       as[i].key.word = k /\ r[k] = SavedValue(as[i])

\* SavedAttributes has a value for each name, that of an attribute of this name.
LEMMA SavedAttributesFacts ==
  ASSUME NEW as \in Seq(DraftAttribute)
  PROVE  ValueForName(SavedAttributes(as), as)
<1>. DEFINE names == {as[i].key.word : i \in 1..Len(as)}
            r == SavedAttributes(as)
            last(k) == CHOOSE i \in 1..Len(as) :
                         /\ as[i].key.word = k
                         /\ \A j \in i + 1..Len(as) : as[j].key.word # k
<1>1. r = [k \in names |-> SavedValue(as[last(k)])]
  BY DEF SavedAttributes
<1>2. ASSUME NEW k \in names
      PROVE  last(k) \in 1..Len(as) /\ as[last(k)].key.word = k
  <2>. DEFINE N == {i \in 1..Len(as) : as[i].key.word = k}
  <2>1. N \in SUBSET (1..Len(as)) /\ N # {} /\ Len(as) \in Nat
    <3>1. \E i \in 1..Len(as) : as[i].key.word = k
      OBVIOUS
    <3>2. N # {}
      BY <3>1
    <3>. QED BY <3>2, Members
  <2>2. PICK m \in N : \A j \in m + 1..Len(as) : j \in 1..Len(as) /\ j \notin N
    <3>. HIDE DEF N
    <3>. QED BY <2>1, LastIndex
  <2>3. m \in 1..Len(as) /\ as[m].key.word = k
    BY <2>2
  <2>4. \A j \in m + 1..Len(as) : as[j].key.word # k
    BY <2>2
  <2>. QED BY <2>3, <2>4
<1>. HIDE DEF names, last, r
<1>3. DOMAIN r = names
  BY <1>1
<1>4. \A k \in names : r[k] = SavedValue(as[last(k)])
  BY <1>1
<1>5. r = [k \in names |-> r[k]]
  BY <1>1
<1>. QED BY <1>2, <1>3, <1>4, <1>5 DEF ValueForName, names, r

\* A saved value has the type of one.
LEMMA SavedValueType ==
  ASSUME NEW a \in DraftAttribute
  PROVE  SavedValue(a) \in SavedValues
<1>1. a.kind \in Kind /\ a.value \in Seq(Line)
  BY DEF DraftAttribute
<1>2. CASE a.kind = "string"
  <2>1. SavedValue(a) = [kind |-> "string", lines |-> TrimLines(a.value)]
    BY <1>1, <1>2, SavedValueFacts
  <2>2. TrimLines(a.value) \in Seq(Line)
    BY <1>1, TrimLinesFacts
  <2>. QED BY <2>1, <2>2 DEF SavedValues
<1>3. CASE a.kind = "string_array"
  <2>. DEFINE w == Written(a.value)
              items == [i \in 1..Len(w) |-> <<w[i]>>]
  <2>1. SavedValue(a) = [kind |-> "string_array", items |-> items]
    BY <1>1, <1>3, SavedValueFacts
  <2>2. w \in Seq(Line)
    <3>1. Without(a.value, Blank) \in Seq(Line \ {Blank})
      BY <1>1, WithoutType
    <3>. QED BY <3>1 DEF Written
  <2>. HIDE DEF w
  <2>3. items \in Seq(Seq(Line))
    <3>1. Len(w) \in Nat /\ \A i \in 1..Len(w) : w[i] \in Line
      BY <2>2
    <3>2. \A i \in 1..Len(w) : <<w[i]>> \in Seq(Line)
      BY <3>1
    <3>3. items \in [1..Len(w) -> Seq(Line)]
      BY <3>2
    <3>. HIDE DEF items
    <3>. QED BY <3>1, <3>3
  <2>. HIDE DEF items
  <2>. QED BY <2>1, <2>3 DEF SavedValues
<1>. QED BY <1>1, <1>2, <1>3 DEF Kind

\* What is saved of the attributes of the draft is a saved record.
LEMMA SavedAttributesRecord ==
  ASSUME NEW as \in Seq(DraftAttribute)
  PROVE  SavedRecord(SavedAttributes(as))
<1>. DEFINE r == SavedAttributes(as)
<1>1. IsFiniteSet(DOMAIN r)
  <2>1. IsSequence(as)
    BY DEF IsSequence
  <2>. QED BY <2>1, SavedAttributesFinite
<1>2. /\ DOMAIN r = {as[i].key.word : i \in 1..Len(as)}
      /\ \A k \in DOMAIN r : \E i \in 1..Len(as) : r[k] = SavedValue(as[i])
  <2>1. ValueForName(r, as)
    BY SavedAttributesFacts
  <2>. HIDE DEF r
  <2>. QED BY <2>1 DEF ValueForName
<1>. HIDE DEF r
<1>3. \A i \in 1..Len(as) : as[i] \in DraftAttribute /\ as[i].key.word \in Line
  <2>1. \A i \in 1..Len(as) : as[i] \in DraftAttribute
    BY Members
  <2>2. \A a \in DraftAttribute : a.key.word \in Line
    BY DEF DraftAttribute, Text, Line
  <2>. QED BY <2>1, <2>2
<1>4. DOMAIN r \subseteq Line
  BY <1>2, <1>3
<1>5. \A k \in DOMAIN r : r[k] \in SavedValues
  BY <1>2, <1>3, SavedValueType
<1>. QED BY <1>1, <1>4, <1>5 DEF SavedRecord, r

\* Opening a record and saving it again saves each value as it was opened.
LEMMA OpenedSaved ==
  ASSUME NEW r, SavedRecord(r)
  PROVE  SavedAttributes(OpenedAttributes(r)) =
           [k \in DOMAIN r |-> SavedValue(OpenedAs(k, r[k]))]
<1>. DEFINE o == OpenedAttributes(r)
            q == SavedAttributes(o)
<1>1. /\ o \in Seq(DraftAttribute)
      /\ \A i \in 1..Len(o) : \E k \in DOMAIN r : o[i] = OpenedAs(k, r[k])
      /\ \A k \in DOMAIN r : \E i \in 1..Len(o) : o[i] = OpenedAs(k, r[k])
  <2>1. o = OpenedAttributes(r)
    OBVIOUS
  <2>. HIDE DEF o
  <2>. QED BY <2>1, OpenedAttributesFacts
<1>. HIDE DEF o
<1>2. /\ q = [k \in DOMAIN q |-> q[k]]
      /\ DOMAIN q = {o[i].key.word : i \in 1..Len(o)}
      /\ \A k \in DOMAIN q : \E i \in 1..Len(o) :
           o[i].key.word = k /\ q[k] = SavedValue(o[i])
  <2>1. ValueForName(q, o)
    BY <1>1, SavedAttributesFacts
  <2>. HIDE DEF q
  <2>. QED BY <2>1 DEF ValueForName
<1>. HIDE DEF q
<1>3. \A k \in DOMAIN r : OpenedAs(k, r[k]).key.word = k
  BY OpenedAsType DEF SavedRecord
<1>4. DOMAIN q = DOMAIN r
  <2>1. \A k \in DOMAIN q : k \in DOMAIN r
    BY <1>1, <1>2, <1>3
  <2>2. \A k \in DOMAIN r : k \in DOMAIN q
    BY <1>1, <1>2, <1>3
  <2>. QED BY <2>1, <2>2
<1>5. \A k \in DOMAIN r : q[k] = SavedValue(OpenedAs(k, r[k]))
  <2>. TAKE k \in DOMAIN r
  <2>1. PICK i \in 1..Len(o) : o[i].key.word = k /\ q[k] = SavedValue(o[i])
    BY <1>2, <1>4
  <2>2. PICK l \in DOMAIN r : o[i] = OpenedAs(l, r[l])
    BY <1>1
  <2>3. l = k
    BY <1>3, <2>1, <2>2
  <2>. QED BY <2>1, <2>2, <2>3
<1>. QED BY <1>2, <1>4, <1>5 DEF o, q

\* A value that was saved is saved as it is when it has been opened.
LEMMA ReopenedValue ==
  ASSUME NEW a \in DraftAttribute, NEW k \in Line
  PROVE  SavedValue(OpenedAs(k, SavedValue(a))) = SavedValue(a)
<1>. DEFINE v == SavedValue(a)
            b == OpenedAs(k, v)
<1>1. a.kind \in Kind /\ a.value \in Seq(Line)
  BY DEF DraftAttribute
<1>2. v \in SavedValues /\ b \in DraftAttribute
  BY SavedValueType, OpenedAsType
<1>3. b.kind \in Kind /\ b.value \in Seq(Line)
  BY <1>2 DEF DraftAttribute
<1>4. /\ b.kind = v.kind
      /\ b.value = IF v.kind = "string" THEN v.lines ELSE Join(v.items)
  BY DEF OpenedAs
<1>5. CASE a.kind = "string"
  <2>1. v = [kind |-> "string", lines |-> TrimLines(a.value)]
    BY <1>1, <1>5, SavedValueFacts
  <2>. HIDE DEF v, b
  <2>2. b.kind = "string" /\ b.value = TrimLines(a.value)
    BY <1>4, <2>1
  <2>3. SavedValue(b) = [kind |-> "string", lines |-> TrimLines(b.value)]
    BY <1>3, <2>2, SavedValueFacts
  <2>4. TrimLines(b.value) = TrimLines(a.value)
    BY <1>1, <2>2, TrimLinesFacts
  <2>. QED BY <2>1, <2>3, <2>4 DEF v, b
<1>6. CASE a.kind = "string_array"
  <2>. DEFINE w == Written(a.value)
              items == [i \in 1..Len(w) |-> <<w[i]>>]
  <2>1. v = [kind |-> "string_array", items |-> items]
    BY <1>1, <1>6, SavedValueFacts
  <2>2. w \in Seq(Line \ {Blank})
    BY <1>1, WithoutType DEF Written
  <2>. HIDE DEF v, b, w
  <2>3. w \in Seq(Line) /\ \A i \in 1..Len(w) : w[i] # Blank
    BY <2>2
  <2>4. Join(items) = w
    <3>1. items = [i \in 1..Len(w) |-> <<w[i]>>]
      OBVIOUS
    <3>. HIDE DEF items
    <3>. QED BY <2>3, <3>1, JoinSingles
  <2>5. b.kind = "string_array" /\ b.value = w
    <3>. HIDE DEF items
    <3>. QED BY <1>4, <2>1, <2>4
  <2>6. Written(w) = w
    BY <2>3, WithoutSame DEF Written
  <2>7. SavedValue(b) =
          [kind |-> "string_array",
           items |-> [i \in 1..Len(Written(b.value)) |-> <<Written(b.value)[i]>>]]
    BY <1>3, <2>5, SavedValueFacts
  <2>. QED BY <2>1, <2>5, <2>6, <2>7 DEF v, b
<1>. QED BY <1>1, <1>5, <1>6 DEF Kind

\* So saving, opening and saving attributes again saves the same.
LEMMA ReopenedAttributes ==
  ASSUME NEW as \in Seq(DraftAttribute)
  PROVE  SavedAttributes(OpenedAttributes(SavedAttributes(as))) = SavedAttributes(as)
<1>. DEFINE r == SavedAttributes(as)
<1>1. SavedRecord(r)
  BY SavedAttributesRecord
<1>2. /\ r = [k \in DOMAIN r |-> r[k]]
      /\ \A k \in DOMAIN r : \E i \in 1..Len(as) :
           as[i].key.word = k /\ r[k] = SavedValue(as[i])
  <2>1. ValueForName(r, as)
    BY SavedAttributesFacts
  <2>. HIDE DEF r
  <2>. QED BY <2>1 DEF ValueForName
<1>. HIDE DEF r
<1>3. SavedAttributes(OpenedAttributes(r)) =
        [k \in DOMAIN r |-> SavedValue(OpenedAs(k, r[k]))]
  BY <1>1, OpenedSaved
<1>4. \A k \in DOMAIN r : SavedValue(OpenedAs(k, r[k])) = r[k]
  <2>. TAKE k \in DOMAIN r
  <2>1. PICK i \in 1..Len(as) : r[k] = SavedValue(as[i])
    BY <1>2
  <2>2. as[i] \in DraftAttribute
    BY Members
  <2>3. k \in Line
    BY <1>1 DEF SavedRecord
  <2>. QED BY <2>1, <2>2, <2>3, ReopenedValue
<1>5. SavedAttributes(OpenedAttributes(r)) = r
  BY <1>2, <1>3, <1>4
<1>. QED BY <1>5 DEF r

-----------------------------------------------------------------------------
(* Saving and opening examples.                                            *)

\* An extraction is opened with its class and its span, and its attributes.
LEMMA OpenedExtraction ==
  ASSUME NEW x, SavedExtraction(x),
         NEW y, y = [x EXCEPT !.attributes = OpenedAttributes(x.attributes)]
  PROVE  /\ y \in DraftExtraction /\ SavedRecord(x.attributes)
         /\ y.class = x.class /\ y.span = x.span
         /\ y.attributes = OpenedAttributes(x.attributes)
<1>. DEFINE r == x.attributes
            o == OpenedAttributes(r)
<1>1. x \in [class: Class, span: Text, attributes: [DOMAIN r -> SavedValues]]
      /\ DOMAIN r \subseteq Line /\ IsFiniteSet(DOMAIN r)
  BY DEF SavedExtraction
<1>2. SavedRecord(r)
  <2>1. r \in [DOMAIN r -> SavedValues]
    BY <1>1
  <2>2. \A k \in DOMAIN r : r[k] \in SavedValues
    <3>. HIDE DEF r
    <3>. QED BY <2>1
  <2>. QED BY <1>1, <2>2 DEF SavedRecord
<1>3. o \in Seq(DraftAttribute)
  <2>. HIDE DEF r
  <2>. QED BY <1>2, OpenedAttributesFacts
<1>4. y = [x EXCEPT !.attributes = o]
  OBVIOUS
<1>5. x.class \in Class /\ x.span \in Text
  BY <1>1
<1>. HIDE DEF o
<1>6. y = [class |-> x.class, span |-> x.span, attributes |-> o]
  BY <1>1, <1>4
<1>7. y \in DraftExtraction
  <2>1. ASSUME NEW c \in Class, NEW t \in Text, NEW s \in Seq(DraftAttribute)
        PROVE  [class |-> c, span |-> t, attributes |-> s] \in DraftExtraction
    BY DEF DraftExtraction
  <2>. QED BY <1>3, <1>5, <1>6, <2>1
<1>. QED BY <1>2, <1>6, <1>7 DEF o

\* So is an example with its text and all of its extractions.
Opened(o, e) ==
  /\ o \in DraftExample
  /\ o.text = e.text /\ Len(o.extractions) = Len(e.extractions)
  /\ \A j \in 1..Len(e.extractions) :
       LET x == e.extractions[j]
           y == o.extractions[j]
       IN /\ y \in DraftExtraction /\ SavedRecord(x.attributes)
          /\ y.class = x.class /\ y.span = x.span
          /\ y.attributes = OpenedAttributes(x.attributes)

LEMMA OpenedExampleFacts ==
  ASSUME NEW e, SavedExample(e)
  PROVE  Opened(OpenedExample(e), e)
<1>. DEFINE xs == e.extractions
            n == Len(xs)
            ys == [j \in 1..n |->
                     [xs[j] EXCEPT !.attributes = OpenedAttributes(xs[j].attributes)]]
<1>1. /\ e.text \in Text
      /\ xs \in Seq({xs[j] : j \in DOMAIN xs})
      /\ \A j \in DOMAIN xs : SavedExtraction(xs[j])
  BY DEF SavedExample
<1>2. OpenedExample(e) = [text |-> e.text, extractions |-> ys]
  BY DEF OpenedExample
<1>. HIDE DEF xs
<1>3. n \in Nat /\ DOMAIN xs = 1..n
  BY <1>1
<1>4. ASSUME NEW j \in 1..n
      PROVE  /\ ys[j] \in DraftExtraction /\ SavedRecord(xs[j].attributes)
             /\ ys[j].class = xs[j].class /\ ys[j].span = xs[j].span
             /\ ys[j].attributes = OpenedAttributes(xs[j].attributes)
  <2>1. SavedExtraction(xs[j])
    BY <1>1, <1>3
  <2>2. ys[j] = [xs[j] EXCEPT !.attributes = OpenedAttributes(xs[j].attributes)]
    OBVIOUS
  <2>. HIDE DEF ys
  <2>. QED BY <2>1, <2>2, OpenedExtraction
<1>5. ys \in [1..n -> DraftExtraction]
  BY <1>4
<1>. HIDE DEF ys, n
<1>6. ys \in Seq(DraftExtraction) /\ Len(ys) = n
  BY <1>3, <1>5
<1>7. OpenedExample(e) \in DraftExample
  BY <1>1, <1>2, <1>6 DEF DraftExample
<1>. QED BY <1>2, <1>4, <1>6, <1>7 DEF Opened, n, xs

\* What is saved of an example.
Saved(b, e) ==
  /\ SavedExample(b)
  /\ b.text = Trim(e.text)
  /\ b.extractions =
       [j \in 1..Len(e.extractions) |->
          [class |-> e.extractions[j].class, span |-> Trim(e.extractions[j].span),
           attributes |-> SavedAttributes(e.extractions[j].attributes)]]
  /\ Len(b.extractions) = Len(e.extractions)

LEMMA BuiltExampleFacts ==
  ASSUME NEW e \in DraftExample
  PROVE  Saved(BuiltExample(e), e)
<1>. DEFINE xs == e.extractions
            n == Len(xs)
            ys == [j \in 1..n |->
                     [class |-> xs[j].class, span |-> Trim(xs[j].span),
                      attributes |-> SavedAttributes(xs[j].attributes)]]
<1>1. e.text \in Text /\ xs \in Seq(DraftExtraction)
  BY DEF DraftExample
<1>2. BuiltExample(e) = [text |-> Trim(e.text), extractions |-> ys]
  BY DEF BuiltExample
<1>. HIDE DEF xs
<1>3. n \in Nat /\ \A j \in 1..n : xs[j] \in DraftExtraction
  BY <1>1, Members
<1>4. ASSUME NEW j \in 1..n PROVE SavedExtraction(ys[j])
  <2>. DEFINE r == SavedAttributes(xs[j].attributes)
  <2>1. /\ xs[j].class \in Class /\ xs[j].span \in Text
        /\ xs[j].attributes \in Seq(DraftAttribute)
    BY <1>3 DEF DraftExtraction
  <2>2. SavedRecord(r)
    BY <2>1, SavedAttributesRecord
  <2>3. r = [k \in DOMAIN r |-> r[k]]
    <3>1. ValueForName(r, xs[j].attributes)
      BY <2>1, SavedAttributesFacts
    <3>. HIDE DEF r
    <3>. QED BY <3>1 DEF ValueForName
  <2>4. Trim(xs[j].span) \in Text
    BY <2>1, TrimFacts
  <2>5. ys[j] = [class |-> xs[j].class, span |-> Trim(xs[j].span), attributes |-> r]
    OBVIOUS
  <2>. HIDE DEF r, ys
  <2>6. r \in [DOMAIN r -> SavedValues]
    BY <2>2, <2>3 DEF SavedRecord
  <2>7. ys[j].attributes = r
    BY <2>5
  <2>8. ys[j] \in [class: Class, span: Text, attributes: [DOMAIN r -> SavedValues]]
    BY <2>1, <2>4, <2>5, <2>6
  <2>. QED BY <2>2, <2>7, <2>8 DEF SavedExtraction, SavedRecord
<1>5. DOMAIN ys = 1..n
  OBVIOUS
<1>6. ys \in [1..n -> {ys[j] : j \in 1..n}]
  OBVIOUS
<1>. HIDE DEF ys, n
<1>7. ys \in Seq({ys[j] : j \in DOMAIN ys}) /\ Len(ys) = n
  <2>. DEFINE S == {ys[j] : j \in 1..n}
  <2>1. n \in Nat /\ ys \in [1..n -> S]
    BY <1>3, <1>6
  <2>2. S = {ys[j] : j \in DOMAIN ys}
    BY <1>5
  <2>. HIDE DEF S
  <2>3. ys \in Seq(S) /\ Len(ys) = n
    BY <2>1
  <2>. QED BY <2>2, <2>3
<1>8. Trim(e.text) \in Text
  BY <1>1, TrimFacts
<1>. DEFINE b == BuiltExample(e)
<1>9. b.text = Trim(e.text) /\ b.extractions = ys
  BY <1>2
<1>10. b \in [text: Text, extractions: Seq({ys[j] : j \in DOMAIN ys})]
  BY <1>2, <1>7, <1>8
<1>. HIDE DEF b
<1>11. SavedExample(b)
  BY <1>4, <1>5, <1>9, <1>10 DEF SavedExample
<1>. QED BY <1>7, <1>9, <1>11 DEF Saved, b, ys, n, xs

\* An example is saved the same again when it has been opened.
LEMMA ReopenedExample ==
  ASSUME NEW e \in DraftExample
  PROVE  BuiltExample(OpenedExample(BuiltExample(e))) = BuiltExample(e)
<1>. DEFINE b == BuiltExample(e)
            o == OpenedExample(b)
            c == BuiltExample(o)
            n == Len(e.extractions)
<1>1. Saved(b, e) /\ b = [text |-> b.text, extractions |-> b.extractions]
  <2>1. Saved(b, e)
    BY BuiltExampleFacts
  <2>. QED BY <2>1 DEF BuiltExample
<1>2. Opened(o, b)
  <2>1. SavedExample(b)
    BY <1>1 DEF Saved
  <2>. HIDE DEF b
  <2>. QED BY <2>1, OpenedExampleFacts
<1>3. Saved(c, o) /\ c = [text |-> c.text, extractions |-> c.extractions]
  <2>1. o \in DraftExample
    BY <1>2 DEF Opened
  <2>. HIDE DEF o
  <2>2. Saved(c, o)
    BY <2>1, BuiltExampleFacts
  <2>. QED BY <2>2 DEF BuiltExample
<1>. HIDE DEF b, o, c
<1>4. e.text \in Text /\ e.extractions \in Seq(DraftExtraction)
  BY DEF DraftExample
<1>5. c.text = b.text
  <2>1. c.text = Trim(o.text) /\ o.text = b.text /\ b.text = Trim(e.text)
    BY <1>1, <1>2, <1>3 DEF Saved, Opened
  <2>. QED BY <1>4, <2>1, TrimFacts
<1>6. Len(b.extractions) = n /\ Len(o.extractions) = n
  BY <1>1, <1>2 DEF Saved, Opened
<1>7. b.extractions =
        [j \in 1..n |->
          [class |-> e.extractions[j].class, span |-> Trim(e.extractions[j].span),
           attributes |-> SavedAttributes(e.extractions[j].attributes)]]
  BY <1>1 DEF Saved
<1>8. c.extractions =
        [j \in 1..n |->
          [class |-> o.extractions[j].class, span |-> Trim(o.extractions[j].span),
           attributes |-> SavedAttributes(o.extractions[j].attributes)]]
  BY <1>3, <1>6 DEF Saved
<1>. HIDE DEF n
<1>9. ASSUME NEW j \in 1..n
      PROVE  [class |-> o.extractions[j].class, span |-> Trim(o.extractions[j].span),
              attributes |-> SavedAttributes(o.extractions[j].attributes)]
           = [class |-> e.extractions[j].class, span |-> Trim(e.extractions[j].span),
              attributes |-> SavedAttributes(e.extractions[j].attributes)]
  <2>. DEFINE x == e.extractions[j]
              y == b.extractions[j]
              z == o.extractions[j]
  <2>1. x \in DraftExtraction
    BY <1>4, Members DEF n
  <2>2. x.span \in Text /\ x.attributes \in Seq(DraftAttribute)
    BY <2>1 DEF DraftExtraction
  <2>3. /\ y.class = x.class /\ y.span = Trim(x.span)
        /\ y.attributes = SavedAttributes(x.attributes)
    BY <1>7
  <2>4. /\ z.class = y.class /\ z.span = y.span
        /\ z.attributes = OpenedAttributes(y.attributes)
    BY <1>2, <1>6 DEF Opened
  <2>. HIDE DEF x, y, z
  <2>5. Trim(z.span) = Trim(x.span)
    BY <2>2, <2>3, <2>4, TrimFacts
  <2>6. SavedAttributes(z.attributes) = SavedAttributes(x.attributes)
    BY <2>2, <2>3, <2>4, ReopenedAttributes
  <2>7. z.class = x.class
    BY <2>3, <2>4
  <2>. QED BY <2>5, <2>6, <2>7 DEF x, z
<1>10. c.extractions = b.extractions
  BY <1>7, <1>8, <1>9
<1>. QED BY <1>1, <1>3, <1>5, <1>10 DEF b, o, c

\* Attributes that can be saved can be saved again when they have been opened.
LEMMA ReopenedAttributesComplete ==
  ASSUME NEW as \in Seq(DraftAttribute),
         \A i \in 1..Len(as) :
           ~IsBlank(as[i].key) /\ ~EmptyValue(SavedValue(as[i])),
         NEW o, o = OpenedAttributes(SavedAttributes(as))
  PROVE  \A i \in 1..Len(o) : ~IsBlank(o[i].key) /\ ~EmptyValue(SavedValue(o[i]))
<1>. DEFINE r == SavedAttributes(as)
<1>1. SavedRecord(r)
  BY SavedAttributesRecord
<1>2. \A k \in DOMAIN r : \E i \in 1..Len(as) :
        as[i].key.word = k /\ r[k] = SavedValue(as[i])
  <2>1. ValueForName(r, as)
    BY SavedAttributesFacts
  <2>. HIDE DEF r
  <2>. QED BY <2>1 DEF ValueForName
<1>3. o = OpenedAttributes(r)
  OBVIOUS
<1>. HIDE DEF r
<1>4. \A i \in 1..Len(o) : \E k \in DOMAIN r : o[i] = OpenedAs(k, r[k])
  BY <1>1, <1>3, OpenedAttributesFacts
<1>. TAKE i \in 1..Len(o)
<1>5. PICK k \in DOMAIN r : o[i] = OpenedAs(k, r[k])
  BY <1>4
<1>6. PICK m \in 1..Len(as) : as[m].key.word = k /\ r[k] = SavedValue(as[m])
  BY <1>2
<1>7. as[m] \in DraftAttribute /\ k \in Line /\ r[k] \in SavedValues
  BY <1>1, Members DEF SavedRecord
<1>8. o[i].key.word = k
  BY <1>5, <1>7, OpenedAsType
<1>9. SavedValue(o[i]) = SavedValue(as[m])
  <2>1. o[i] = OpenedAs(k, SavedValue(as[m]))
    BY <1>5, <1>6
  <2>. QED BY <1>7, <2>1, ReopenedValue
<1>10. ~IsBlank(as[m].key) /\ ~EmptyValue(SavedValue(as[m]))
  OBVIOUS
<1>. QED BY <1>6, <1>8, <1>9, <1>10 DEF IsBlank

\* So can examples.
LEMMA ReopenedExampleSaves ==
  ASSUME NEW e \in DraftExample, ~Throws(e)
  PROVE  ~Throws(OpenedExample(BuiltExample(e)))
<1>. DEFINE b == BuiltExample(e)
            o == OpenedExample(b)
            n == Len(e.extractions)
<1>1. Saved(b, e)
  BY BuiltExampleFacts
<1>2. Opened(o, b)
  <2>1. SavedExample(b)
    BY <1>1 DEF Saved
  <2>. HIDE DEF b
  <2>. QED BY <2>1, OpenedExampleFacts
<1>. HIDE DEF b, o
<1>3. e.text \in Text /\ e.extractions \in Seq(DraftExtraction) /\ n \in Nat
  BY DEF DraftExample
<1>4. /\ Len(b.extractions) = n /\ Len(o.extractions) = n
      /\ o.extractions \in Seq(DraftExtraction)
  BY <1>1, <1>2 DEF Saved, Opened, DraftExample
<1>5. ~IsBlank(o.text)
  <2>1. o.text = Trim(e.text) /\ ~IsBlank(e.text)
    BY <1>1, <1>2 DEF Saved, Opened, Throws
  <2>. QED BY <1>3, <2>1, TrimFacts
<1>6. o.extractions # << >>
  <2>1. e.extractions # << >>
    BY DEF Throws
  <2>2. n # 0
    BY <1>3, <2>1
  <2>. QED BY <1>4, <2>2
<1>7. b.extractions =
        [j \in 1..n |->
          [class |-> e.extractions[j].class, span |-> Trim(e.extractions[j].span),
           attributes |-> SavedAttributes(e.extractions[j].attributes)]]
  BY <1>1 DEF Saved
<1>8. DOMAIN o.extractions = 1..n /\ DOMAIN e.extractions = 1..n
  BY <1>3, <1>4
<1>9. ASSUME NEW j \in 1..n
      PROVE  LET z == o.extractions[j]
             IN /\ z.class \in Fields /\ ~IsBlank(z.span)
                /\ \A k \in DOMAIN z.attributes :
                     /\ ~IsBlank(z.attributes[k].key)
                     /\ ~EmptyValue(SavedValue(z.attributes[k]))
  <2>. DEFINE x == e.extractions[j]
              y == b.extractions[j]
              z == o.extractions[j]
  <2>1. x \in DraftExtraction
    BY <1>3, Members
  <2>2. x.span \in Text /\ x.attributes \in Seq(DraftAttribute)
    BY <2>1 DEF DraftExtraction
  <2>3. /\ y.class = x.class /\ y.span = Trim(x.span)
        /\ y.attributes = SavedAttributes(x.attributes)
    BY <1>7
  <2>4. /\ z \in DraftExtraction
        /\ z.class = y.class /\ z.span = y.span
        /\ z.attributes = OpenedAttributes(y.attributes)
    BY <1>2, <1>4 DEF Opened
  <2>5. /\ x.class \in Fields /\ ~IsBlank(x.span)
        /\ \A k \in DOMAIN x.attributes :
             ~IsBlank(x.attributes[k].key) /\ ~EmptyValue(SavedValue(x.attributes[k]))
    BY <1>8 DEF Throws
  <2>. HIDE DEF x, y, z
  <2>6. DOMAIN x.attributes = 1..Len(x.attributes)
    BY <2>2
  <2>7. z.attributes \in Seq(DraftAttribute)
    BY <2>4 DEF DraftExtraction
  <2>8. DOMAIN z.attributes = 1..Len(z.attributes)
    BY <2>7
  <2>9. \A k \in 1..Len(z.attributes) :
          ~IsBlank(z.attributes[k].key) /\ ~EmptyValue(SavedValue(z.attributes[k]))
    BY <2>2, <2>3, <2>4, <2>5, <2>6, ReopenedAttributesComplete
  <2>10. z.class \in Fields /\ ~IsBlank(z.span)
    BY <2>2, <2>3, <2>4, <2>5, TrimFacts
  <2>. QED BY <2>8, <2>9, <2>10 DEF z
<1>10. ~Throws(o)
  BY <1>5, <1>6, <1>8, <1>9 DEF Throws
<1>. QED BY <1>10 DEF o, b

-----------------------------------------------------------------------------
(* One step.                                                               *)

\* A request that finds its control is served, and one that was allowed to wait
\* may go on waiting.
LEMMA FocusServed ==
  ASSUME NEW f, NEW es, NEW shown,
         Lands(f, es, shown) \/ (f # None => f.kind = "dismiss")
  PROVE  FocusEffect(f, es, shown) # None =>
           FocusEffect(f, es, shown).kind = "dismiss"
BY DEF FocusEffect

\* SetExamples keeps the invariant if the new examples are shaped and the request
\* finds its control among them.
LEMMA SetExamplesStep ==
  ASSUME FocusInv, NEW es, NEW f, SetExamples(es, f), Shaped(es),
         Lands(f, es, suggestions) \/ f = pendingFocus
  PROVE  FocusInv'
<1>1. examples' = es /\ pendingFocus' = FocusEffect(f, es, suggestions)
  BY DEF SetExamples
<1>2. Lands(f, es, suggestions) \/ (f # None => f.kind = "dismiss")
  BY DEF FocusInv, FocusAlwaysLands
<1>3. FocusAlwaysLands'
  BY <1>1, <1>2, FocusServed DEF FocusAlwaysLands
<1>. QED BY <1>1, <1>3 DEF FocusInv, Shaped, ShapedExample, ShapedExtraction, IsSequence

\* One example of the draft is replaced by another.
LEMMA ReplacedExample ==
  ASSUME Shaped(examples), NEW i \in DOMAIN examples, NEW e, ShapedExample(e)
  PROVE  LET es == [examples EXCEPT ![i] = e]
         IN Shaped(es) /\ i \in DOMAIN es /\ es[i] = e
<1>. DEFINE es == [examples EXCEPT ![i] = e]
<1>1. /\ IsSequence(es) /\ DOMAIN es = DOMAIN examples
      /\ \A j \in DOMAIN examples : es[j] = IF j = i THEN e ELSE examples[j]
  BY ReplaceInSequence DEF Shaped
<1>. QED BY <1>1 DEF Shaped

\* The extractions of one example are replaced.
LEMMA ReplacedExtractions ==
  ASSUME NEW e, ShapedExample(e), NEW xs, IsSequence(xs),
         \A j \in DOMAIN xs : ShapedExtraction(xs[j])
  PROVE  LET r == [e EXCEPT !.extractions = xs]
         IN ShapedExample(r) /\ r.extractions = xs
BY DEF ShapedExample

\* UpdateExtraction keeps the invariant if the new extraction is shaped and the
\* request finds its control in it.
LEMMA UpdateExtractionStep ==
  ASSUME FocusInv, NEW i \in DOMAIN examples,
         NEW j \in DOMAIN examples[i].extractions,
         NEW x, ShapedExtraction(x), NEW f, UpdateExtraction(i, j, x, f),
         \/ f = pendingFocus
         \/ /\ f.kind = "attribute" /\ f.example = i /\ f.extraction = j
            /\ f.attribute \in DOMAIN x.attributes
         \/ f.kind = "add attribute" /\ f.example = i /\ f.extraction = j
  PROVE  FocusInv'
<1>. DEFINE xs == [examples[i].extractions EXCEPT ![j] = x]
            e == [examples[i] EXCEPT !.extractions = xs]
            es == [examples EXCEPT ![i] = e]
<1>1. ShapedExample(examples[i])
  BY DEF FocusInv, Shaped
<1>2. /\ IsSequence(xs) /\ DOMAIN xs = DOMAIN examples[i].extractions
      /\ \A k \in DOMAIN xs : xs[k] = IF k = j THEN x ELSE examples[i].extractions[k]
  BY <1>1, ReplaceInSequence DEF ShapedExample
<1>3. \A k \in DOMAIN xs : ShapedExtraction(xs[k])
  BY <1>1, <1>2 DEF ShapedExample
<1>4. ShapedExample(e) /\ e.extractions = xs
  BY <1>1, <1>2, <1>3, ReplacedExtractions
<1>5. SetExamples(es, f)
  BY DEF UpdateExtraction, UpdateExample
<1>6. j \in DOMAIN xs /\ xs[j] = x
  BY <1>2
<1>. HIDE DEF xs, e
<1>7. Shaped(es) /\ i \in DOMAIN es /\ es[i] = e
  BY <1>4, ReplacedExample DEF FocusInv
<1>. HIDE DEF es
<1>8. Lands(f, es, suggestions) \/ f = pendingFocus
  BY <1>4, <1>6, <1>7 DEF Lands
<1>. QED BY <1>5, <1>7, <1>8, SetExamplesStep

-----------------------------------------------------------------------------
(* The theorem.                                                            *)

\* What a new extraction, a new example and an opened suggestion look like.
LEMMA NewShaped ==
  /\ ShapedExtraction(NewExtraction)
  /\ ShapedExample(NewExample)
<1>1. ShapedExtraction(NewExtraction)
  <2>1. << >> \in Seq({})
    OBVIOUS
  <2>. QED BY <2>1 DEF ShapedExtraction, NewExtraction, IsSequence
<1>2. <<NewExtraction>> \in Seq({NewExtraction})
      /\ \A j \in DOMAIN <<NewExtraction>> : <<NewExtraction>>[j] = NewExtraction
  OBVIOUS
<1>3. NewExample.extractions = <<NewExtraction>> /\ "extractions" \in DOMAIN NewExample
  BY DEF NewExample
<1>. QED BY <1>1, <1>2, <1>3 DEF ShapedExample, IsSequence

\* Nothing is requested at first, and a saved configuration opens as sequences.
LEMMA InitFocus == Init => FocusInv
<1>. SUFFICES ASSUME Init PROVE FocusInv
  OBVIOUS
<1>1. FocusAlwaysLands
  BY DEF Init, FocusAlwaysLands
<1>2. saved # None =>
        /\ IsSequence(saved.examples)
        /\ \A i \in DOMAIN saved.examples : ShapedExample(OpenedExample(saved.examples[i]))
  <2>1. saved # None => SavedConfig(saved)
    BY ConfigsAssumption DEF Init
  <2>. QED BY <2>1, SavedIsSequence, SavedShaped DEF SavedConfig
<1>3. Shaped(examples)
  BY <1>2, OpenedShaped DEF Init
<1>. QED BY <1>1, <1>3 DEF FocusInv

\* An example is appended, blank or from a suggestion.
LEMMA AppendExampleStep ==
  ASSUME FocusInv, NEW e, ShapedExample(e),
         SetExamples(Append(examples, e), Focus("example", Len(examples) + 1, 0, 0))
  PROVE  FocusInv'
<1>. DEFINE es == Append(examples, e)
            f == Focus("example", Len(examples) + 1, 0, 0)
<1>1. /\ IsSequence(es) /\ DOMAIN es = 1..Len(examples) + 1 /\ Len(examples) \in Nat
      /\ \A i \in DOMAIN es : es[i] = IF i = Len(examples) + 1 THEN e ELSE examples[i]
  BY AppendSequence DEF FocusInv, Shaped
<1>2. DOMAIN examples = 1..Len(examples)
  BY SequenceDomain DEF FocusInv, Shaped
<1>3. Shaped(es)
  BY <1>1, <1>2 DEF FocusInv, Shaped
<1>4. f.kind = "example" /\ f.example \in DOMAIN es
  BY <1>1 DEF Focus
<1>. HIDE DEF es, f
<1>5. Lands(f, es, suggestions)
  BY <1>4 DEF Lands
<1>. QED BY <1>3, <1>5, SetExamplesStep DEF es, f

\* The removal of an example requests its neighbour.
LEMMA RemoveExampleStep ==
  ASSUME FocusInv, NEW i \in DOMAIN examples, RemoveExample(i)
  PROVE  FocusInv'
<1>. DEFINE es == Remove(examples, i)
            f == Focus("example", Neighbour(examples, i), 0, 0)
<1>1. /\ IsSequence(es)
      /\ \A k \in DOMAIN es : \E j \in DOMAIN examples : es[k] = examples[j]
  BY RemoveSequence DEF FocusInv, Shaped
<1>2. Shaped(es)
  BY <1>1 DEF FocusInv, Shaped
<1>3. Neighbour(examples, i) \in DOMAIN es
  BY NeighbourStays DEF FocusInv, Shaped, RemoveExample
<1>4. f.kind = "example" /\ f.example \in DOMAIN es
  BY <1>3 DEF Focus
<1>5. SetExamples(es, f)
  BY DEF RemoveExample
<1>. HIDE DEF es, f
<1>6. Lands(f, es, suggestions)
  BY <1>4 DEF Lands
<1>. QED BY <1>2, <1>5, <1>6, SetExamplesStep

\* So does the removal of an extraction; a new one is requested itself.
LEMMA ExtractionsStep ==
  ASSUME FocusInv, NEW i \in DOMAIN examples, NEW xs, IsSequence(xs),
         \A j \in DOMAIN xs : ShapedExtraction(xs[j]),
         NEW j \in DOMAIN xs,
         UpdateExample(i, [examples[i] EXCEPT !.extractions = xs],
                       Focus("extraction", i, j, 0))
  PROVE  FocusInv'
<1>. DEFINE e == [examples[i] EXCEPT !.extractions = xs]
            es == [examples EXCEPT ![i] = e]
            f == Focus("extraction", i, j, 0)
<1>1. ShapedExample(e) /\ e.extractions = xs
  BY ReplacedExtractions DEF FocusInv, Shaped
<1>2. SetExamples(es, f)
  BY DEF UpdateExample
<1>. HIDE DEF e
<1>3. Shaped(es) /\ i \in DOMAIN es /\ es[i] = e
  BY <1>1, ReplacedExample DEF FocusInv
<1>4. f.kind = "extraction" /\ f.example = i /\ f.extraction = j
  BY DEF Focus
<1>. HIDE DEF es, f
<1>5. Lands(f, es, suggestions)
  BY <1>1, <1>3, <1>4 DEF Lands
<1>. QED BY <1>2, <1>3, <1>5, SetExamplesStep

\* Every action on one extraction keeps the invariant.
LEMMA EditExtractionStep ==
  ASSUME FocusInv, NEW i \in DOMAIN examples,
         NEW j \in DOMAIN examples[i].extractions, EditExtraction(i, j)
  PROVE  FocusInv'
<1>. DEFINE xs == examples[i].extractions
            x == xs[j]
            as == x.attributes
<1>1. IsSequence(xs) /\ \A k \in DOMAIN xs : ShapedExtraction(xs[k])
  BY DEF FocusInv, Shaped, ShapedExample
<1>2. "attributes" \in DOMAIN x /\ IsSequence(as)
  BY <1>1 DEF ShapedExtraction
<1>3. CASE RemoveExtraction(i, j)
  <2>1. /\ IsSequence(Remove(xs, j))
        /\ \A k \in DOMAIN Remove(xs, j) : \E l \in DOMAIN xs : Remove(xs, j)[k] = xs[l]
    BY <1>1, RemoveSequence
  <2>2. \A k \in DOMAIN Remove(xs, j) : ShapedExtraction(Remove(xs, j)[k])
    BY <1>1, <2>1
  <2>3. Neighbour(xs, j) \in DOMAIN Remove(xs, j)
    BY <1>1, <1>3, NeighbourStays DEF RemoveExtraction
  <2>4. UpdateExample(i, [examples[i] EXCEPT !.extractions = Remove(xs, j)],
                      Focus("extraction", i, Neighbour(xs, j), 0))
    BY <1>3 DEF RemoveExtraction
  <2>. QED BY <2>1, <2>2, <2>3, <2>4, ExtractionsStep
<1>4. ASSUME NEW c, SelectField(i, j, c)
      PROVE  FocusInv'
  <2>1. ShapedExtraction([x EXCEPT !.class = c])
    BY <1>2 DEF ShapedExtraction
  <2>2. UpdateExtraction(i, j, [x EXCEPT !.class = c], pendingFocus)
    BY <1>4 DEF SelectField
  <2>. QED BY <2>1, <2>2, UpdateExtractionStep
<1>5. ASSUME NEW t, TypeSpan(i, j, t)
      PROVE  FocusInv'
  <2>1. ShapedExtraction([x EXCEPT !.span = t])
    BY <1>2 DEF ShapedExtraction
  <2>2. UpdateExtraction(i, j, [x EXCEPT !.span = t], pendingFocus)
    BY <1>5 DEF TypeSpan
  <2>. QED BY <2>1, <2>2, UpdateExtractionStep
<1>6. CASE AddAttribute(i, j)
  <2>. DEFINE more == Append(as, NewAttribute)
              y == [x EXCEPT !.attributes = more]
              f == Focus("attribute", i, j, Len(as) + 1)
  <2>1. IsSequence(more) /\ Len(as) + 1 \in DOMAIN more
    BY <1>2, AppendSequence
  <2>2. ShapedExtraction(y) /\ y.attributes = more
    BY <1>2, <2>1 DEF ShapedExtraction
  <2>3. UpdateExtraction(i, j, y, f)
    BY <1>6 DEF AddAttribute
  <2>4. /\ f.kind = "attribute" /\ f.example = i /\ f.extraction = j
        /\ f.attribute \in DOMAIN y.attributes
    BY <2>1, <2>2 DEF Focus
  <2>. HIDE DEF y, f
  <2>. QED BY <2>2, <2>3, <2>4, UpdateExtractionStep
<1>7. ASSUME NEW k \in DOMAIN as, RemoveAttribute(i, j, k)
      PROVE  FocusInv'
  <2>. DEFINE fewer == Remove(as, k)
              y == [x EXCEPT !.attributes = fewer]
              f == Focus("attribute", i, j, Neighbour(as, k))
              g == Focus("add attribute", i, j, 0)
  <2>1. IsSequence(fewer)
    BY <1>2, RemoveSequence
  <2>2. ShapedExtraction(y) /\ y.attributes = fewer
    BY <1>2, <2>1 DEF ShapedExtraction
  <2>3. UpdateExtraction(i, j, y, IF Len(as) > 1 THEN f ELSE g)
    BY <1>7 DEF RemoveAttribute
  <2>4. Len(as) \in Nat
    BY <1>2, SequenceDomain
  <2>5. Len(as) > 1 => Neighbour(as, k) \in DOMAIN fewer
    <3>. HIDE DEF as
    <3>1. \A n \in Nat : n > 1 => n # 1
      OBVIOUS
    <3>. QED BY <3>1, <2>4, <1>2, NeighbourStays
  <2>6. /\ f.kind = "attribute" /\ f.example = i /\ f.extraction = j
        /\ f.attribute = Neighbour(as, k)
        /\ g.kind = "add attribute" /\ g.example = i /\ g.extraction = j
    BY DEF Focus
  <2>. HIDE DEF fewer, y, f, g
  <2>7. CASE Len(as) > 1
    <3>1. UpdateExtraction(i, j, y, f)
      BY <2>3, <2>7
    <3>. QED BY <3>1, <2>2, <2>5, <2>6, <2>7, UpdateExtractionStep
  <2>8. CASE ~(Len(as) > 1)
    <3>1. UpdateExtraction(i, j, y, g)
      BY <2>3, <2>8
    <3>. QED BY <3>1, <2>2, <2>6, UpdateExtractionStep
  <2>. QED BY <2>7, <2>8
<1>8. ASSUME NEW k \in DOMAIN as, EditAttribute(i, j, k)
      PROVE  FocusInv'
  <2>1. PICK a : UpdateAttribute(i, j, k, a)
    BY <1>8 DEF EditAttribute
  <2>2. IsSequence([as EXCEPT ![k] = a])
    BY <1>2, ReplaceInSequence
  <2>3. ShapedExtraction([x EXCEPT !.attributes[k] = a])
    BY <1>2, <2>2 DEF ShapedExtraction
  <2>4. UpdateExtraction(i, j, [x EXCEPT !.attributes[k] = a], pendingFocus)
    BY <2>1 DEF UpdateAttribute
  <2>. QED BY <2>3, <2>4, UpdateExtractionStep
<1>. QED BY <1>3, <1>4, <1>5, <1>6, <1>7, <1>8 DEF EditExtraction

\* Every action on one example keeps the invariant.
LEMMA EditExampleStep ==
  ASSUME FocusInv, NEW i \in DOMAIN examples, EditExample(i)
  PROVE  FocusInv'
<1>. DEFINE xs == examples[i].extractions
<1>1. ShapedExample(examples[i])
  BY DEF FocusInv, Shaped
<1>2. CASE RemoveExample(i)
  BY <1>2, RemoveExampleStep
<1>3. ASSUME NEW t, TypeExampleText(i, t)
      PROVE  FocusInv'
  <2>. DEFINE e == [examples[i] EXCEPT !.text = t]
  <2>1. ShapedExample(e)
    BY <1>1 DEF ShapedExample
  <2>. HIDE DEF e
  <2>2. Shaped([examples EXCEPT ![i] = e])
    BY <2>1, ReplacedExample DEF FocusInv
  <2>3. SetExamples([examples EXCEPT ![i] = e], pendingFocus)
    BY <1>3 DEF TypeExampleText, UpdateExample, e
  <2>. QED BY <2>2, <2>3, SetExamplesStep
<1>4. CASE AddExtraction(i)
  <2>. DEFINE more == Append(xs, NewExtraction)
  <2>1. /\ IsSequence(more) /\ DOMAIN more = 1..Len(xs) + 1 /\ Len(xs) \in Nat
        /\ \A k \in DOMAIN more :
             more[k] = IF k = Len(xs) + 1 THEN NewExtraction ELSE xs[k]
    BY <1>1, AppendSequence DEF ShapedExample
  <2>2. DOMAIN xs = 1..Len(xs)
    BY <1>1, SequenceDomain DEF ShapedExample
  <2>3. \A k \in DOMAIN more : ShapedExtraction(more[k])
    BY <1>1, <2>1, <2>2, NewShaped DEF ShapedExample
  <2>4. UpdateExample(i, [examples[i] EXCEPT !.extractions = more],
                      Focus("extraction", i, Len(xs) + 1, 0))
    BY <1>4 DEF AddExtraction
  <2>5. Len(xs) + 1 \in DOMAIN more
    BY <2>1
  <2>. HIDE DEF more
  <2>. QED BY <2>1, <2>3, <2>4, <2>5, ExtractionsStep
<1>5. ASSUME NEW j \in DOMAIN xs, EditExtraction(i, j)
      PROVE  FocusInv'
  BY <1>5, EditExtractionStep
<1>. QED BY <1>2, <1>3, <1>4, <1>5 DEF EditExample

\* Steps that leave the examples and their shape alone.
LEMMA SameExamples ==
  ASSUME FocusInv, UNCHANGED examples, FocusAlwaysLands'
  PROVE  FocusInv'
BY DEF FocusInv, Shaped, ShapedExample, ShapedExtraction, IsSequence

\* Promotion, dismissal and its answers keep the invariant.
LEMMA SuggestionStep ==
  ASSUME FocusInv, NEW s \in Keys,
         PromoteSuggestion(s) \/ DismissSuggestion(s) \/ DismissAnswered(s) \/ DismissFails(s)
  PROVE  FocusInv'
<1>1. CASE PromoteSuggestion(s)
  <2>1. ShapedExample(OpenedExample(SuggestionOf[s]))
    BY SuggestionsAssumption, SavedShaped DEF Suggestion
  <2>. QED BY <1>1, <2>1, AppendExampleStep DEF PromoteSuggestion
<1>2. CASE DismissSuggestion(s)
  <2>. DEFINE f == [kind |-> "dismiss", expected |-> Cardinality(suggestions) - 1]
  <2>1. f.kind = "dismiss"
    OBVIOUS
  <2>2. UNCHANGED examples /\ pendingFocus' = FocusEffect(f, examples, suggestions)
    BY <1>2 DEF DismissSuggestion
  <2>. HIDE DEF f
  <2>. QED BY <2>1, <2>2, FocusServed, SameExamples DEF FocusAlwaysLands
<1>3. CASE DismissAnswered(s)
  <2>1. UNCHANGED examples
        /\ pendingFocus' = FocusEffect(pendingFocus, examples, suggestions')
    BY <1>3 DEF DismissAnswered
  <2>2. pendingFocus # None => pendingFocus.kind = "dismiss"
    BY DEF FocusInv, FocusAlwaysLands
  <2>. QED BY <2>1, <2>2, FocusServed, SameExamples DEF FocusAlwaysLands
<1>4. CASE DismissFails(s)
  BY <1>4, SameExamples DEF DismissFails, FocusInv, FocusAlwaysLands
<1>. QED BY <1>1, <1>2, <1>3, <1>4

\* What is saved opens as sequences again.
LEMMA SaveStep ==
  ASSUME FocusInv, SaveSchema
  PROVE  FocusInv'
<1>. DEFINE n == Len(examples)
            config == Built(prompt, examples)
<1>1. n \in Nat /\ DOMAIN examples = 1..n
  BY SequenceDomain DEF FocusInv, Shaped
<1>2. config # None => config.examples = [i \in 1..n |-> BuiltExample(examples[i])]
  BY DEF Built
<1>. HIDE DEF n, config
<1>3. config # None =>
        config.examples \in [1..n -> {config.examples[i] : i \in 1..n}]
  BY <1>2
<1>4. config # None => IsSequence(config.examples) /\ DOMAIN config.examples = 1..n
  BY <1>1, <1>3, SequenceOfFunction
<1>5. config # None => \A i \in 1..n : ShapedExample(OpenedExample(config.examples[i]))
  BY <1>1, <1>2, BuiltShaped DEF FocusInv, Shaped
<1>6. Shaped(buildDraftLangExtractExamples(config))
  BY <1>4, <1>5, OpenedShaped
<1>7. /\ examples' = buildDraftLangExtractExamples(config)
      /\ pendingFocus' = FocusEffect(pendingFocus, examples', suggestions)
  BY DEF SaveSchema, config
<1>8. pendingFocus # None => pendingFocus.kind = "dismiss"
  BY DEF FocusInv, FocusAlwaysLands
<1>9. FocusAlwaysLands'
  BY <1>7, <1>8, FocusServed DEF FocusAlwaysLands
<1>10. Shaped(examples)'
  BY <1>6, <1>7 DEF Shaped, ShapedExample, ShapedExtraction, IsSequence
<1>. QED BY <1>9, <1>10 DEF FocusInv

\* Every step keeps the invariant.
LEMMA NextFocus == FocusInv /\ [Next]_vars => FocusInv'
<1>. SUFFICES ASSUME FocusInv, [Next]_vars PROVE FocusInv'
  OBVIOUS
<1>1. ASSUME NEW t, TypePrompt(t)
      PROVE  FocusInv'
  BY <1>1, SameExamples DEF TypePrompt, FocusInv, FocusAlwaysLands
<1>2. CASE AddExample
  BY <1>2, NewShaped, AppendExampleStep DEF AddExample
<1>3. ASSUME NEW i \in DOMAIN examples, EditExample(i)
      PROVE  FocusInv'
  BY <1>3, EditExampleStep
<1>4. ASSUME NEW s \in Keys,
             PromoteSuggestion(s) \/ DismissSuggestion(s) \/ DismissAnswered(s) \/ DismissFails(s)
      PROVE  FocusInv'
  BY <1>4, SuggestionStep
<1>5. CASE SaveSchema
  BY <1>5, SaveStep
<1>6. CASE UNCHANGED vars
  BY <1>6, SameExamples DEF vars, FocusInv, FocusAlwaysLands
<1>. QED BY <1>1, <1>2, <1>3, <1>4, <1>5, <1>6 DEF Next

\* After every edit of the examples, the focus the edit asked for finds its
\* control at once: LangExtractEditor.tsx computes the index before setDraft and
\* looks it up after it, and no sequence of additions, removals, promotions and
\* saves leaves a stale one pending.  Only the focus after a dismissal waits.
THEOREM FocusLands == Spec => []FocusAlwaysLands
<1>1. FocusInv => FocusAlwaysLands
  BY DEF FocusInv
<1>. QED BY InitFocus, NextFocus, <1>1, PTL DEF Spec

-----------------------------------------------------------------------------
(* The types of the draft.                                                 *)

Typed == prompt \in Text /\ examples \in Seq(DraftExample)

\* Sequences of typed elements stay so when one is appended, replaced or
\* removed.
LEMMA TypedUpdates ==
  ASSUME NEW S, NEW s \in Seq(S)
  PROVE  /\ \A e \in S : Append(s, e) \in Seq(S)
         /\ \A e \in S, i \in DOMAIN s : [s EXCEPT ![i] = e] \in Seq(S)
         /\ \A i \in DOMAIN s : Remove(s, i) \in Seq(S)
<1>1. ASSUME NEW i \in DOMAIN s PROVE Remove(s, i) \in Seq(S)
  <2>1. Len(s) \in Nat /\ i \in 1..Len(s)
    OBVIOUS
  <2>. DEFINE a == SubSeq(s, 1, i - 1)
              b == SubSeq(s, i + 1, Len(s))
  <2>2. a \in Seq(S)
    BY <2>1
  <2>3. b \in Seq(S)
    BY <2>1
  <2>4. Remove(s, i) = a \o b
    BY DEF Remove
  <2>. HIDE DEF a, b
  <2>. QED BY <2>2, <2>3, <2>4, ConcatProperties
<1>2. \A e \in S : Append(s, e) \in Seq(S)
  OBVIOUS
<1>3. \A e \in S, i \in DOMAIN s : [s EXCEPT ![i] = e] \in Seq(S)
  OBVIOUS
<1>. QED BY <1>1, <1>2, <1>3

\* So do examples whose extractions, and extractions whose attributes are
\* replaced.
LEMMA TypedParts ==
  /\ \A e \in DraftExample : \A xs \in Seq(DraftExtraction) :
       [e EXCEPT !.extractions = xs] \in DraftExample
  /\ \A e \in DraftExample : \A t \in Text : [e EXCEPT !.text = t] \in DraftExample
  /\ \A x \in DraftExtraction : \A as \in Seq(DraftAttribute) :
       [x EXCEPT !.attributes = as] \in DraftExtraction
  /\ \A x \in DraftExtraction : \A c \in Class : [x EXCEPT !.class = c] \in DraftExtraction
  /\ \A x \in DraftExtraction : \A t \in Text : [x EXCEPT !.span = t] \in DraftExtraction
  /\ \A a \in DraftAttribute : \A t \in Text : [a EXCEPT !.key = t] \in DraftAttribute
  /\ \A a \in DraftAttribute : \A k \in Kind : [a EXCEPT !.kind = k] \in DraftAttribute
  /\ \A a \in DraftAttribute : \A v \in Seq(Line) : [a EXCEPT !.value = v] \in DraftAttribute
<1>1. \A e \in DraftExample : \A xs \in Seq(DraftExtraction) :
        [e EXCEPT !.extractions = xs] \in DraftExample
  BY DEF DraftExample
<1>2. \A e \in DraftExample : \A t \in Text : [e EXCEPT !.text = t] \in DraftExample
  BY DEF DraftExample
<1>3. \A x \in DraftExtraction : \A as \in Seq(DraftAttribute) :
        [x EXCEPT !.attributes = as] \in DraftExtraction
  BY DEF DraftExtraction
<1>4. \A x \in DraftExtraction : \A c \in Class : [x EXCEPT !.class = c] \in DraftExtraction
  BY DEF DraftExtraction
<1>5. \A x \in DraftExtraction : \A t \in Text : [x EXCEPT !.span = t] \in DraftExtraction
  BY DEF DraftExtraction
<1>6. \A a \in DraftAttribute : \A t \in Text : [a EXCEPT !.key = t] \in DraftAttribute
  BY DEF DraftAttribute
<1>7. \A a \in DraftAttribute : \A k \in Kind : [a EXCEPT !.kind = k] \in DraftAttribute
  BY DEF DraftAttribute
<1>8. \A a \in DraftAttribute : \A v \in Seq(Line) : [a EXCEPT !.value = v] \in DraftAttribute
  BY DEF DraftAttribute
<1>. QED BY <1>1, <1>2, <1>3, <1>4, <1>5, <1>6, <1>7, <1>8

\* The new example, extraction and attribute have the types of one.
LEMMA TypedNew ==
  /\ NewText \in Text /\ NewAttribute \in DraftAttribute
  /\ NewExtraction \in DraftExtraction /\ NewExample \in DraftExample
<1>1. NewText \in Text
  BY DEF NewText, Text
<1>2. << >> \in Seq(Line) /\ << >> \in Seq(DraftAttribute)
  OBVIOUS
<1>3. NewAttribute \in DraftAttribute
  BY <1>1, <1>2 DEF NewAttribute, DraftAttribute, Kind
<1>4. NewExtraction \in DraftExtraction
  BY <1>1, <1>2 DEF NewExtraction, DraftExtraction, Class
<1>5. <<NewExtraction>> \in Seq(DraftExtraction)
  BY <1>4
<1>6. NewExample \in DraftExample
  BY <1>1, <1>5 DEF NewExample, DraftExample
<1>. QED BY <1>1, <1>3, <1>4, <1>6

\* A saved configuration is opened as a typed draft.
LEMMA TypedOpened ==
  ASSUME NEW config, config # None => SavedConfig(config)
  PROVE  buildDraftLangExtractExamples(config) \in Seq(DraftExample)
<1>1. CASE config = None
  <2>1. << >> \in Seq(DraftExample)
    OBVIOUS
  <2>. QED BY <1>1, <2>1 DEF buildDraftLangExtractExamples
<1>2. CASE config # None
  <2>. DEFINE cs == config.examples
              n == Len(cs)
              es == [i \in 1..n |-> OpenedExample(cs[i])]
  <2>1. /\ cs \in Seq({cs[i] : i \in DOMAIN cs})
        /\ \A i \in DOMAIN cs : SavedExample(cs[i])
    BY <1>2 DEF SavedConfig
  <2>2. buildDraftLangExtractExamples(config) = es
    BY <1>2 DEF buildDraftLangExtractExamples
  <2>. HIDE DEF cs
  <2>3. n \in Nat /\ DOMAIN cs = 1..n
    BY <2>1
  <2>4. \A i \in 1..n : OpenedExample(cs[i]) \in DraftExample
    BY <2>1, <2>3, OpenedExampleFacts DEF Opened
  <2>5. es \in [1..n -> DraftExample]
    BY <2>4
  <2>. HIDE DEF es, n
  <2>6. es \in Seq(DraftExample)
    BY <2>3, <2>5
  <2>. QED BY <2>2, <2>6
<1>. QED BY <1>1, <1>2

\* The draft is saved as a configuration.
LEMMA TypedBuilt ==
  ASSUME NEW p \in Text, NEW es \in Seq(DraftExample), ~(IsBlank(p) /\ es = << >>)
  PROVE  LET c == Built(p, es)
         IN /\ SavedConfig(c)
            /\ c.prompt = Trim(p) /\ Len(c.examples) = Len(es)
            /\ c.examples = [i \in 1..Len(es) |-> BuiltExample(es[i])]
<1>. DEFINE c == Built(p, es)
            n == Len(es)
            bs == [i \in 1..n |-> BuiltExample(es[i])]
<1>1. c = [prompt |-> Trim(p), examples |-> bs]
  BY DEF Built
<1>2. n \in Nat /\ \A i \in 1..n : es[i] \in DraftExample
  BY Members
<1>3. \A i \in 1..n : SavedExample(bs[i])
  BY <1>2, BuiltExampleFacts DEF Saved
<1>4. bs \in [1..n -> {bs[i] : i \in 1..n}] /\ DOMAIN bs = 1..n
  OBVIOUS
<1>. HIDE DEF bs, n, c
<1>5. bs \in Seq({bs[i] : i \in DOMAIN bs}) /\ Len(bs) = n
  BY <1>2, <1>4
<1>6. c.prompt = Trim(p) /\ c.examples = bs /\ Trim(p) \in Text
  BY <1>1, TrimFacts
<1>7. c \in [prompt: Text, examples: Seq({bs[i] : i \in DOMAIN bs})]
  BY <1>1, <1>5, <1>6
<1>8. SavedConfig(c)
  BY <1>3, <1>4, <1>6, <1>7 DEF SavedConfig
<1>. QED BY <1>5, <1>6, <1>8 DEF c, bs, n

LEMMA InitTyped == Init => Typed
<1>. SUFFICES ASSUME Init PROVE Typed
  OBVIOUS
<1>1. saved # None => SavedConfig(saved)
  BY ConfigsAssumption DEF Init
<1>2. examples \in Seq(DraftExample)
  BY <1>1, TypedOpened DEF Init
<1>3. prompt \in Text
  BY <1>1, TypedNew DEF Init, SavedConfig
<1>. QED BY <1>2, <1>3 DEF Typed

\* An example is replaced.
LEMMA TypedExample ==
  ASSUME Typed, NEW i \in DOMAIN examples, NEW e \in DraftExample, NEW f,
         UpdateExample(i, e, f)
  PROVE  Typed'
<1>1. [examples EXCEPT ![i] = e] \in Seq(DraftExample)
  BY TypedUpdates DEF Typed
<1>. QED BY <1>1 DEF UpdateExample, SetExamples, Typed

\* So is an extraction.
LEMMA TypedExtraction ==
  ASSUME Typed, NEW i \in DOMAIN examples, NEW j \in DOMAIN examples[i].extractions,
         NEW x \in DraftExtraction, NEW f, UpdateExtraction(i, j, x, f)
  PROVE  Typed'
<1>. DEFINE e == examples[i]
            xs == [e.extractions EXCEPT ![j] = x]
<1>1. e \in DraftExample
  BY DEF Typed
<1>2. e.extractions \in Seq(DraftExtraction)
  BY <1>1 DEF DraftExample
<1>3. xs \in Seq(DraftExtraction)
  BY <1>2, TypedUpdates
<1>4. UpdateExample(i, [e EXCEPT !.extractions = xs], f)
  BY DEF UpdateExtraction
<1>. HIDE DEF e, xs
<1>5. [e EXCEPT !.extractions = xs] \in DraftExample
  BY <1>1, <1>3, TypedParts
<1>. QED BY <1>4, <1>5, TypedExample

LEMMA TypedEditExtraction ==
  ASSUME Typed, NEW i \in DOMAIN examples, NEW j \in DOMAIN examples[i].extractions,
         EditExtraction(i, j)
  PROVE  Typed'
<1>. DEFINE e == examples[i]
            x == e.extractions[j]
            as == x.attributes
<1>1. e \in DraftExample
  BY DEF Typed
<1>2. e.extractions \in Seq(DraftExtraction)
  BY <1>1 DEF DraftExample
<1>3. x \in DraftExtraction
  BY <1>2
<1>4. as \in Seq(DraftAttribute)
  BY <1>3 DEF DraftExtraction
<1>5. CASE RemoveExtraction(i, j)
  <2>1. Remove(e.extractions, j) \in Seq(DraftExtraction)
    BY <1>2, TypedUpdates
  <2>2. [e EXCEPT !.extractions = Remove(e.extractions, j)] \in DraftExample
    BY <1>1, <2>1, TypedParts
  <2>3. PICK f : UpdateExample(i, [e EXCEPT !.extractions = Remove(e.extractions, j)], f)
    BY <1>5 DEF RemoveExtraction
  <2>. QED BY <2>2, <2>3, TypedExample
<1>6. ASSUME NEW c \in Fields \cup {Blank}, SelectField(i, j, c)
      PROVE  Typed'
  <2>1. [x EXCEPT !.class = c] \in DraftExtraction
    BY <1>3, TypedParts DEF Class
  <2>2. UpdateExtraction(i, j, [x EXCEPT !.class = c], pendingFocus)
    BY <1>6 DEF SelectField
  <2>. QED BY <2>1, <2>2, TypedExtraction
<1>7. ASSUME NEW t \in Text, TypeSpan(i, j, t)
      PROVE  Typed'
  <2>1. [x EXCEPT !.span = t] \in DraftExtraction
    BY <1>3, TypedParts
  <2>2. UpdateExtraction(i, j, [x EXCEPT !.span = t], pendingFocus)
    BY <1>7 DEF TypeSpan
  <2>. QED BY <2>1, <2>2, TypedExtraction
<1>8. ASSUME NEW bs \in Seq(DraftAttribute), NEW f,
             UpdateExtraction(i, j, [x EXCEPT !.attributes = bs], f)
      PROVE  Typed'
  <2>1. [x EXCEPT !.attributes = bs] \in DraftExtraction
    BY <1>3, TypedParts
  <2>. QED BY <1>8, <2>1, TypedExtraction
<1>9. CASE AddAttribute(i, j)
  <2>1. Append(as, NewAttribute) \in Seq(DraftAttribute)
    BY <1>4, TypedUpdates, TypedNew
  <2>2. PICK f : UpdateExtraction(i, j, [x EXCEPT !.attributes = Append(as, NewAttribute)], f)
    BY <1>9 DEF AddAttribute
  <2>. QED BY <1>8, <2>1, <2>2
<1>10. ASSUME NEW k \in DOMAIN as, RemoveAttribute(i, j, k)
       PROVE  Typed'
  <2>1. Remove(as, k) \in Seq(DraftAttribute)
    BY <1>4, TypedUpdates
  <2>2. PICK f : UpdateExtraction(i, j, [x EXCEPT !.attributes = Remove(as, k)], f)
    BY <1>10 DEF RemoveAttribute
  <2>. QED BY <1>8, <2>1, <2>2
<1>11. ASSUME NEW k \in DOMAIN as, EditAttribute(i, j, k)
       PROVE  Typed'
  <2>1. as[k] \in DraftAttribute
    BY <1>4
  <2>2. PICK a \in DraftAttribute : UpdateAttribute(i, j, k, a)
    <3>1. \A v \in Values : v \in Seq(Line)
      BY BoundsAssumption
    <3>. QED BY <1>11, <2>1, <3>1, TypedParts DEF EditAttribute
  <2>3. [as EXCEPT ![k] = a] \in Seq(DraftAttribute)
    BY <1>4, <2>2, TypedUpdates
  <2>4. UpdateExtraction(i, j, [x EXCEPT !.attributes = [as EXCEPT ![k] = a]], pendingFocus)
    BY <2>2 DEF UpdateAttribute
  <2>. QED BY <1>8, <2>3, <2>4
<1>. QED BY <1>5, <1>6, <1>7, <1>9, <1>10, <1>11 DEF EditExtraction

\* No step changes the types of the draft.
LEMMA NextTyped == Typed /\ [Next]_vars => Typed'
<1>. SUFFICES ASSUME Typed, [Next]_vars PROVE Typed'
  OBVIOUS
<1>1. ASSUME NEW t \in Text, TypePrompt(t)
      PROVE  Typed'
  BY <1>1 DEF TypePrompt, Typed
<1>2. ASSUME NEW e \in DraftExample, NEW f, SetExamples(Append(examples, e), f)
      PROVE  Typed'
  <2>1. Append(examples, e) \in Seq(DraftExample)
    BY TypedUpdates DEF Typed
  <2>. QED BY <1>2, <2>1 DEF SetExamples, Typed
<1>3. CASE AddExample
  BY <1>2, <1>3, TypedNew DEF AddExample
<1>4. ASSUME NEW i \in DOMAIN examples, EditExample(i)
      PROVE  Typed'
  <2>. DEFINE e == examples[i]
  <2>1. e \in DraftExample
    BY DEF Typed
  <2>2. e.extractions \in Seq(DraftExtraction)
    BY <2>1 DEF DraftExample
  <2>3. CASE RemoveExample(i)
    <3>1. Remove(examples, i) \in Seq(DraftExample)
      BY TypedUpdates DEF Typed
    <3>. QED BY <2>3, <3>1 DEF RemoveExample, SetExamples, Typed
  <2>4. ASSUME NEW t \in Text, TypeExampleText(i, t)
        PROVE  Typed'
    <3>1. [e EXCEPT !.text = t] \in DraftExample
      BY <2>1, TypedParts
    <3>. QED BY <2>4, <3>1, TypedExample DEF TypeExampleText
  <2>5. CASE AddExtraction(i)
    <3>. DEFINE xs == Append(e.extractions, NewExtraction)
    <3>1. xs \in Seq(DraftExtraction)
      BY <2>2, TypedUpdates, TypedNew
    <3>2. PICK f : UpdateExample(i, [e EXCEPT !.extractions = xs], f)
      BY <2>5 DEF AddExtraction
    <3>. HIDE DEF xs
    <3>3. [e EXCEPT !.extractions = xs] \in DraftExample
      BY <2>1, <3>1, TypedParts
    <3>. QED BY <3>2, <3>3, TypedExample
  <2>6. ASSUME NEW j \in DOMAIN e.extractions, EditExtraction(i, j)
        PROVE  Typed'
    BY <2>6, TypedEditExtraction
  <2>. QED BY <1>4, <2>3, <2>4, <2>5, <2>6 DEF EditExample
<1>5. ASSUME NEW s \in Keys,
             PromoteSuggestion(s) \/ DismissSuggestion(s) \/ DismissAnswered(s) \/ DismissFails(s)
      PROVE  Typed'
  <2>1. CASE PromoteSuggestion(s)
    <3>1. OpenedExample(SuggestionOf[s]) \in DraftExample
      BY SuggestionsAssumption, OpenedExampleFacts DEF Suggestion, Opened
    <3>. QED BY <1>2, <2>1, <3>1 DEF PromoteSuggestion
  <2>2. CASE DismissSuggestion(s) \/ DismissAnswered(s) \/ DismissFails(s)
    BY <2>2 DEF DismissSuggestion, DismissAnswered, DismissFails, Typed
  <2>. QED BY <1>5, <2>1, <2>2
<1>6. CASE SaveSchema
  <2>1. Trim(prompt) \in Text
    BY TrimFacts DEF Typed
  <2>. DEFINE c == Built(prompt, examples)
  <2>2. c # None => SavedConfig(c)
    <3>1. CASE IsBlank(prompt) /\ examples = << >>
      BY <3>1 DEF Built
    <3>2. CASE ~(IsBlank(prompt) /\ examples = << >>)
      BY <3>2, TypedBuilt DEF Typed
    <3>. QED BY <3>1, <3>2
  <2>3. buildDraftLangExtractExamples(c) \in Seq(DraftExample)
    <3>. HIDE DEF c
    <3>. QED BY <2>2, TypedOpened
  <2>. QED BY <1>6, <2>1, <2>3 DEF SaveSchema, Typed
<1>7. CASE UNCHANGED vars
  BY <1>7 DEF vars, Typed
<1>. QED BY <1>1, <1>3, <1>4, <1>5, <1>6, <1>7 DEF Next

LEMMA AlwaysTyped == Spec => []Typed
BY InitTyped, NextTyped, PTL DEF Spec

-----------------------------------------------------------------------------
(* The preview and the badges.                                             *)

\* An attribute is complete exactly if it can be saved.
LEMMA CompleteAttributeSaves ==
  ASSUME NEW a \in DraftAttribute
  PROVE  CompleteAttribute(a) <=> ~IsBlank(a.key) /\ ~EmptyValue(SavedValue(a))
<1>1. a.kind \in Kind /\ a.value \in Seq(Line)
  BY DEF DraftAttribute
<1>2. EmptyValue(SavedValue(a)) <=> \A i \in 1..Len(a.value) : a.value[i] = Blank
  BY <1>1, SavedValueFacts
<1>3. DOMAIN a.value = 1..Len(a.value)
  BY <1>1
<1>. QED BY <1>2, <1>3 DEF CompleteAttribute

\* An example can be saved exactly if it is complete and names no foreign field.
LEMMA CompleteSaves ==
  ASSUME NEW e \in DraftExample
  PROVE  ~Throws(e) <=>
           /\ Complete(e)
           /\ \A j \in DOMAIN e.extractions : e.extractions[j].class # Foreign
<1>1. e.extractions \in Seq(DraftExtraction)
  BY DEF DraftExample
<1>2. ASSUME NEW j \in DOMAIN e.extractions
      PROVE  /\ e.extractions[j].class \in Class
             /\ \A k \in DOMAIN e.extractions[j].attributes :
                  LET a == e.extractions[j].attributes[k]
                  IN CompleteAttribute(a) <=> ~IsBlank(a.key) /\ ~EmptyValue(SavedValue(a))
  <2>. DEFINE x == e.extractions[j]
  <2>1. x \in DraftExtraction
    BY <1>1
  <2>. HIDE DEF x
  <2>2. x.class \in Class /\ x.attributes \in Seq(DraftAttribute)
    BY <2>1 DEF DraftExtraction
  <2>3. \A k \in DOMAIN x.attributes : x.attributes[k] \in DraftAttribute
    BY <2>2
  <2>. QED BY <2>2, <2>3, CompleteAttributeSaves DEF x
<1>3. \A c \in Class : c \in Fields <=> c # Blank /\ c # Foreign
  BY FieldsAssumption DEF Class
<1>. QED BY <1>2, <1>3 DEF Throws, Complete

\* buildLangExtractPreview judges a draft as the badges of its examples do.
LEMMA PreviewJudges == Typed => PreviewAgreesWithBadges
<1>. SUFFICES ASSUME Typed PROVE PreviewAgreesWithBadges
  OBVIOUS
<1>1. \A i \in DOMAIN examples : examples[i] \in DraftExample
  BY DEF Typed
<1>2. MissingRequired(examples) # {} <=> ~(Required \subseteq Covered(examples))
  BY DEF MissingRequired
<1>. QED BY <1>1, <1>2, CompleteSaves DEF PreviewAgreesWithBadges, PreviewError

\* buildLangExtractPreview reports no error, so that a draft can be saved,
\* exactly if all of its examples bear the badge of LangExtractEditor.tsx, name
\* fields of the schema and cover those required: for every schema and in every
\* draft that can be reached by edits, promotions and saves.
THEOREM PreviewAndBadgesAgree == Spec => []PreviewAgreesWithBadges
BY AlwaysTyped, PreviewJudges, PTL

-----------------------------------------------------------------------------
(* Saving and reopening the draft.                                         *)

\* A configuration is not null.
LEMMA ConfigNotNone ==
  ASSUME NEW c, SavedConfig(c)
  PROVE  c # None
<1>. DEFINE attributes == UNION {[names -> SavedValues] : names \in SUBSET Line}
            extraction == [class: Class, span: Text, attributes: attributes]
            example == [text: Text, extractions: Seq(extraction)]
<1>1. ASSUME NEW x, SavedExtraction(x) PROVE x \in extraction
  <2>. DEFINE names == DOMAIN x.attributes
  <2>1. x \in [class: Class, span: Text, attributes: [names -> SavedValues]]
        /\ names \in SUBSET Line
    BY <1>1 DEF SavedExtraction
  <2>. HIDE DEF names
  <2>2. x.attributes \in [names -> SavedValues]
    BY <2>1
  <2>3. x.attributes \in attributes
    BY <2>1, <2>2
  <2>. HIDE DEF attributes
  <2>. QED BY <2>1, <2>3
<1>. HIDE DEF extraction
<1>2. ASSUME NEW e, SavedExample(e) PROVE e \in example
  <2>. DEFINE xs == e.extractions
  <2>1. /\ e \in [text: Text, extractions: Seq({xs[j] : j \in DOMAIN xs})]
        /\ \A j \in DOMAIN xs : xs[j] \in extraction
    BY <1>1, <1>2 DEF SavedExample
  <2>. HIDE DEF xs
  <2>2. xs \in Seq({xs[j] : j \in DOMAIN xs})
    BY <2>1 DEF xs
  <2>3. xs \in Seq(extraction)
    BY <2>1, <2>2
  <2>. QED BY <2>1, <2>3 DEF xs
<1>. HIDE DEF example
<1>3. c \in [prompt: Text, examples: Seq(example)]
  <2>. DEFINE es == c.examples
  <2>1. /\ c \in [prompt: Text, examples: Seq({es[j] : j \in DOMAIN es})]
        /\ \A j \in DOMAIN es : es[j] \in example
    BY <1>2 DEF SavedConfig
  <2>. HIDE DEF es
  <2>2. es \in Seq({es[j] : j \in DOMAIN es})
    BY <2>1 DEF es
  <2>3. es \in Seq(example)
    BY <2>1, <2>2
  <2>. QED BY <2>1, <2>3 DEF es
<1>4. None \notin [prompt: Text, examples: Seq(example)]
  BY NoneAssumption DEF example, extraction
<1>. QED BY <1>3, <1>4

\* Examples whose extractions have the same classes cover the same fields.
LEMMA SameCoverage ==
  ASSUME NEW es, NEW fs, DOMAIN es = DOMAIN fs,
         \A i \in DOMAIN es :
           /\ DOMAIN es[i].extractions = DOMAIN fs[i].extractions
           /\ \A j \in DOMAIN es[i].extractions :
                es[i].extractions[j].class = fs[i].extractions[j].class
  PROVE  MissingRequired(es) = MissingRequired(fs)
<1>. DEFINE classes(gs) ==
              UNION {{gs[i].extractions[j].class : j \in DOMAIN gs[i].extractions} :
                       i \in DOMAIN gs}
<1>1. classes(es) = classes(fs)
  <2>1. ASSUME NEW c PROVE c \in classes(es) <=> c \in classes(fs)
    <3>1. c \in classes(es) <=>
            \E i \in DOMAIN es : \E j \in DOMAIN es[i].extractions :
              c = es[i].extractions[j].class
      OBVIOUS
    <3>2. c \in classes(fs) <=>
            \E i \in DOMAIN fs : \E j \in DOMAIN fs[i].extractions :
              c = fs[i].extractions[j].class
      OBVIOUS
    <3>. HIDE DEF classes
    <3>. QED BY <3>1, <3>2
  <2>. HIDE DEF classes
  <2>. QED BY <2>1
<1>. QED BY <1>1 DEF MissingRequired, Covered

\* What is saved of an example, and what is opened of that, has its classes.
LEMMA SameClasses ==
  ASSUME NEW e \in DraftExample,
         NEW b, b = BuiltExample(e), NEW o, o = OpenedExample(b)
  PROVE  /\ DOMAIN b.extractions = DOMAIN e.extractions
         /\ DOMAIN o.extractions = DOMAIN e.extractions
         /\ \A j \in DOMAIN e.extractions :
              /\ b.extractions[j].class = e.extractions[j].class
              /\ o.extractions[j].class = e.extractions[j].class
         /\ o \in DraftExample
<1>. DEFINE n == Len(e.extractions)
<1>1. Saved(b, e)
  BY BuiltExampleFacts
<1>2. Opened(o, b)
  BY <1>1, OpenedExampleFacts DEF Saved
<1>3. n \in Nat /\ DOMAIN e.extractions = 1..n
  <2>1. e.extractions \in Seq(DraftExtraction)
    BY DEF DraftExample
  <2>. QED BY <2>1
<1>4. /\ Len(b.extractions) = n /\ DOMAIN b.extractions = 1..n
      /\ \A j \in 1..n : b.extractions[j].class = e.extractions[j].class
  BY <1>1 DEF Saved
<1>5. /\ Len(o.extractions) = n /\ o.extractions \in Seq(DraftExtraction)
      /\ o \in DraftExample
      /\ \A j \in 1..n : o.extractions[j].class = b.extractions[j].class
  BY <1>2, <1>4 DEF Opened, DraftExample
<1>6. DOMAIN o.extractions = 1..n
  BY <1>3, <1>5
<1>. QED BY <1>3, <1>4, <1>5, <1>6

\* A draft that can be saved is saved the same when it has been reopened.
LEMMA SavedReopens == Typed => SavedSurvivesReopening
<1>. SUFFICES ASSUME Typed, ~PreviewError(examples)
              PROVE  LET config == Built(prompt, examples)
                         reopened == buildDraftLangExtractExamples(config)
                     IN /\ ~PreviewError(reopened)
                        /\ config # None => Built(config.prompt, reopened) = config
  BY DEF SavedSurvivesReopening
<1>. DEFINE c == Built(prompt, examples)
            es == buildDraftLangExtractExamples(c)
            n == Len(examples)
<1>1. prompt \in Text /\ examples \in Seq(DraftExample)
  BY DEF Typed
<1>2. n \in Nat /\ DOMAIN examples = 1..n /\ \A i \in 1..n : examples[i] \in DraftExample
  BY <1>1
<1>3. CASE IsBlank(prompt) /\ examples = << >>
  <2>1. c = None
    BY <1>3 DEF Built
  <2>2. es = examples
    BY <1>3, <2>1 DEF buildDraftLangExtractExamples
  <2>. QED BY <2>1, <2>2
<1>4. CASE ~(IsBlank(prompt) /\ examples = << >>)
  <2>1. /\ SavedConfig(c) /\ c.prompt = Trim(prompt) /\ Len(c.examples) = n
        /\ c.examples = [i \in 1..n |-> BuiltExample(examples[i])]
    BY <1>1, <1>4, TypedBuilt
  <2>2. c = [prompt |-> Trim(prompt),
             examples |-> [i \in 1..n |-> BuiltExample(examples[i])]]
    BY <1>4 DEF Built
  <2>. HIDE DEF c
  <2>3. c # None
    BY <2>1, ConfigNotNone
  <2>4. es = [i \in 1..n |-> OpenedExample(BuiltExample(examples[i]))]
    BY <2>1, <2>3 DEF buildDraftLangExtractExamples
  <2>. HIDE DEF es, n
  <2>5. DOMAIN es = 1..n /\ \A i \in 1..n : es[i] = OpenedExample(BuiltExample(examples[i]))
    BY <2>4
  <2>6. \A i \in 1..n : ~Throws(es[i])
    <3>1. \A i \in 1..n : ~Throws(examples[i])
      BY <1>2 DEF PreviewError
    <3>. QED BY <1>2, <2>5, <3>1, ReopenedExampleSaves
  <2>7. MissingRequired(es) = MissingRequired(examples)
    <3>1. \A i \in DOMAIN es :
            /\ DOMAIN es[i].extractions = DOMAIN examples[i].extractions
            /\ \A j \in DOMAIN es[i].extractions :
                 es[i].extractions[j].class = examples[i].extractions[j].class
      BY <1>2, <2>5, SameClasses
    <3>. QED BY <1>2, <2>5, <3>1, SameCoverage
  <2>8. ~PreviewError(es)
    <3>1. MissingRequired(examples) = {}
      BY DEF PreviewError
    <3>. QED BY <2>5, <2>6, <2>7, <3>1 DEF PreviewError
  <2>9. es \in Seq(DraftExample) /\ Len(es) = n
    <3>1. \A i \in 1..n : es[i] \in DraftExample
      BY <1>2, <2>5, SameClasses
    <3>2. es \in [1..n -> DraftExample]
      BY <2>4, <3>1
    <3>. QED BY <1>2, <3>2
  <2>10. ~(IsBlank(c.prompt) /\ es = << >>)
    <3>1. IsBlank(c.prompt) <=> IsBlank(prompt)
      BY <1>1, <2>1, TrimFacts
    <3>2. es = << >> => n = 0
      BY <2>9
    <3>3. n = 0 => examples = << >>
      BY <1>1, <1>2 DEF n
    <3>. QED BY <1>4, <3>1, <3>2, <3>3
  <2>11. Built(c.prompt, es) =
           [prompt |-> Trim(c.prompt), examples |-> [i \in 1..n |-> BuiltExample(es[i])]]
    BY <2>9, <2>10 DEF Built
  <2>12. Trim(c.prompt) = Trim(prompt)
    BY <1>1, <2>1, TrimFacts
  <2>13. \A i \in 1..n : BuiltExample(es[i]) = BuiltExample(examples[i])
    BY <1>2, <2>5, ReopenedExample
  <2>14. [i \in 1..n |-> BuiltExample(es[i])] = [i \in 1..n |-> BuiltExample(examples[i])]
    BY <2>13
  <2>15. Built(c.prompt, es) = c
    BY <2>2, <2>11, <2>12, <2>14
  <2>. QED BY <2>8, <2>15 DEF c, es
<1>. QED BY <1>3, <1>4

\* Whatever has been edited, a draft that buildTemplatePayload saves is opened by
\* buildDraftLangExtractExamples as one that can be saved, and saves the same:
\* with several attributes of one name, blank lines in lists and white space.
THEOREM SavedSurvives == Spec => []SavedSurvivesReopening
BY AlwaysTyped, SavedReopens, PTL
-----------------------------------------------------------------------------
(* The guidance.                                                           *)

\* If as many examples are complete as there are, all of them are.
LEMMA AllComplete ==
  ASSUME NEW n \in Nat, NEW K, K \subseteq 1..n, ~(Cardinality(K) < n)
  PROVE  K = 1..n
<1>1. IsFiniteSet(1..n) /\ Cardinality(1..n) = n
  <2>1. 1 \in Int /\ n \in Int
    OBVIOUS
  <2>2. IsFiniteSet(1..n) /\ Cardinality(1..n) = IF 1 > n THEN 0 ELSE n - 1 + 1
    BY <2>1, FS_Interval
  <2>. QED BY <2>2
<1>2. Cardinality(K) \in Nat
  <2>1. IsFiniteSet(K)
    BY <1>1, FS_Subset
  <2>. QED BY <2>1, FS_CardinalityType
<1>3. Cardinality(K) <= n
  BY <1>1, FS_Subset
<1>4. Cardinality(K) = Cardinality(1..n)
  BY <1>1, <1>2, <1>3
<1>. QED BY <1>1, <1>4, FS_Subset

\* There are finitely many messages.
LEMMA FewMessages ==
  ASSUME NEW p, NEW es
  PROVE  IsFiniteSet(Guidance(p, es).messages)
<1>. DEFINE M == Guidance(p, es).messages
<1>1. IsFiniteSet(Complaint)
  <2>1. Complaint = (((((({} \cup {"no prompt"}) \cup {"short prompt"}) \cup {"no example"})
                        \cup {"one example"}) \cup {"incomplete"}) \cup {"coverage"})
    BY DEF Complaint
  <2>2. IsFiniteSet({})
    BY FS_EmptySet
  <2>3. \A S, x : IsFiniteSet(S) => IsFiniteSet(S \cup {x})
    BY FS_AddElement
  <2>. QED BY <2>1, <2>2, <2>3
<1>2. IsFiniteSet({c \in Complaint : Lacks(p, es, c)})
  BY <1>1, FS_Subset
<1>3. IsFiniteSet({"good"})
  BY FS_Singleton
<1>4. M = IF {c \in Complaint : Lacks(p, es, c)} = {} THEN {"good"}
          ELSE {c \in Complaint : Lacks(p, es, c)}
  BY DEF Guidance
<1>. QED BY <1>2, <1>3, <1>4

\* A complaint of which the condition holds is among the messages, and stands
\* alone where the draft is called ready.
LEMMA Complains ==
  ASSUME NEW p, NEW es, NEW c \in Complaint, Lacks(p, es, c)
  PROVE  c \in Guidance(p, es).messages
BY DEF Guidance

LEMMA StandsAlone ==
  ASSUME NEW p, NEW es, NEW c \in Guidance(p, es).messages, Guidance(p, es).isReady
  PROVE  Guidance(p, es).messages = {c}
<1>. DEFINE M == Guidance(p, es).messages
<1>1. Cardinality(M) = 1
  BY DEF Guidance
<1>2. IsFiniteSet(M)
  BY FewMessages
<1>3. \E x : M = {x}
  BY <1>1, <1>2, FS_Singleton
<1>. QED BY <1>3

\* An example that is not complete is complained about.
LEMMA IncompleteIsTold ==
  ASSUME NEW p, NEW es \in Seq(DraftExample),
         NEW i \in DOMAIN es, ~Complete(es[i])
  PROVE  "incomplete" \in Guidance(p, es).messages
<1>. DEFINE n == Len(es)
            K == CompleteOnes(es)
<1>1. n \in Nat /\ DOMAIN es = 1..n
  OBVIOUS
<1>2. K \subseteq 1..n /\ i \in 1..n /\ i \notin K
  BY <1>1 DEF CompleteOnes
<1>3. Cardinality(K) < n
  <2>. HIDE DEF K, n
  <2>. QED BY <1>1, <1>2, AllComplete
<1>4. Lacks(p, es, "incomplete")
  <2>1. Lacks(p, es, "incomplete") <=> n > Cardinality(K)
    BY DEF Lacks
  <2>2. Cardinality(K) \in Nat
    <3>1. IsFiniteSet(1..n)
      BY <1>1, FS_Interval
    <3>2. IsFiniteSet(K)
      BY <1>2, <3>1, FS_Subset
    <3>. QED BY <3>2, FS_CardinalityType
  <2>. HIDE DEF K, n
  <2>. QED BY <1>1, <1>3, <2>1, <2>2
<1>. QED BY <1>4, Complains DEF Complaint

\* The complete examples cover no more fields than all of them do.
LEMMA CoverageIsTold ==
  ASSUME NEW p, NEW es, MissingRequired(es) # {}
  PROVE  "coverage" \in Guidance(p, es).messages
<1>. DEFINE ready == OnlyComplete(es)
            classes(gs) ==
              UNION {{gs[i].extractions[j].class : j \in DOMAIN gs[i].extractions} :
                       i \in DOMAIN gs}
<1>1. classes(ready) \subseteq classes(es)
  <2>1. DOMAIN ready \subseteq DOMAIN es /\ \A i \in DOMAIN ready : ready[i] = es[i]
    BY DEF OnlyComplete, CompleteOnes
  <2>. HIDE DEF ready
  <2>2. ASSUME NEW c \in classes(ready) PROVE c \in classes(es)
    <3>1. PICK i \in DOMAIN ready : \E j \in DOMAIN ready[i].extractions :
                 c = ready[i].extractions[j].class
      BY <2>2
    <3>2. i \in DOMAIN es /\ \E j \in DOMAIN es[i].extractions :
                 c = es[i].extractions[j].class
      BY <2>1, <3>1
    <3>. QED BY <3>2
  <2>. HIDE DEF classes
  <2>. QED BY <2>2
<1>2. MissingRequired(ready) # {}
  <2>. DEFINE a == classes(ready)
              b == classes(es)
  <2>1. /\ MissingRequired(ready) = Required \ (Fields \cap a)
        /\ MissingRequired(es) = Required \ (Fields \cap b)
    BY DEF MissingRequired, Covered
  <2>. HIDE DEF ready, classes, a, b
  <2>2. a \subseteq b
    BY <1>1 DEF a, b
  <2>. QED BY <2>1, <2>2
<1>3. Lacks(p, es, "coverage")
  BY <1>2 DEF Lacks
<1>. QED BY <1>3, Complains DEF Complaint

LEMMA EmptyIsTold ==
  ASSUME NEW p, NEW es, es = << >>
  PROVE  "no example" \in Guidance(p, es).messages
<1>1. CompleteOnes(es) = {}
  BY DEF CompleteOnes
<1>2. Cardinality(CompleteOnes(es)) = 0
  BY <1>1, FS_EmptySet
<1>3. Lacks(p, es, "no example")
  BY <1>2 DEF Lacks
<1>. QED BY <1>3, Complains DEF Complaint

LEMMA NoPromptIsTold ==
  ASSUME NEW p, NEW es, IsBlank(p)
  PROVE  "no prompt" \in Guidance(p, es).messages
<1>1. Lacks(p, es, "no prompt")
  BY DEF Lacks
<1>. QED BY <1>1, Complains DEF Complaint

\* What is saved can be run, if the draft has a prompt and examples, and
\* those cover the required fields.
LEMMA SavedCanBeRun ==
  ASSUME Typed, ~IsBlank(prompt), examples # << >>, MissingRequired(examples) = {}
  PROVE  Ready(Built(prompt, examples))
<1>. DEFINE c == Built(prompt, examples)
            n == Len(examples)
<1>1. prompt \in Text /\ examples \in Seq(DraftExample)
  BY DEF Typed
<1>2. n \in Nat /\ DOMAIN examples = 1..n /\ \A i \in 1..n : examples[i] \in DraftExample
  BY <1>1
<1>5. /\ SavedConfig(c) /\ c.prompt = Trim(prompt) /\ Len(c.examples) = n
      /\ c.examples = [i \in 1..n |-> BuiltExample(examples[i])]
  BY <1>1, TypedBuilt
<1>. HIDE DEF c
<1>6. c # None
  BY <1>5, ConfigNotNone
<1>7. c.examples # << >>
  BY <1>1, <1>5
<1>8. MissingRequired(c.examples) = {}
  <2>. DEFINE bs == c.examples
  <2>1. DOMAIN bs = 1..n /\ \A i \in 1..n : bs[i] = BuiltExample(examples[i])
    BY <1>5
  <2>. HIDE DEF bs
  <2>2. \A i \in DOMAIN bs :
          /\ DOMAIN bs[i].extractions = DOMAIN examples[i].extractions
          /\ \A j \in DOMAIN bs[i].extractions :
               bs[i].extractions[j].class = examples[i].extractions[j].class
    BY <1>2, <2>1, SameClasses
  <2>3. MissingRequired(bs) = MissingRequired(examples)
    BY <1>2, <2>1, <2>2, SameCoverage
  <2>. QED BY <2>3 DEF bs
<1>9. ~IsBlank(c.prompt)
  BY <1>1, <1>5, TrimFacts
<1>. QED BY <1>6, <1>7, <1>8, <1>9 DEF Ready, c

\* What the guidance says of a typed draft.
LEMMA GuidanceJudges == Typed => GuidanceNamesTheReason
<1>. SUFFICES ASSUME Typed, NamesSchemaFields
              PROVE  LET g == Guidance(prompt, examples)
                     IN /\ ~CanBeSaved => g.messages \cap {"incomplete", "coverage"} # {}
                        /\ ~CanBeRun => g.messages \cap {"no prompt", "no example", "coverage"} # {}
                        /\ g.isReady /\ ~(CanBeSaved /\ CanBeRun) =>
                             \E c \in {"no prompt", "no example", "incomplete", "coverage"} :
                               g.messages = {c}
  BY DEF GuidanceNamesTheReason
<1>. DEFINE M == Guidance(prompt, examples).messages
<1>1. prompt \in Text /\ examples \in Seq(DraftExample)
  BY DEF Typed
<1>2. \A i \in DOMAIN examples : examples[i] \in DraftExample
  BY <1>1
<1>3. ASSUME ~CanBeSaved PROVE M \cap {"incomplete", "coverage"} # {}
  <2>1. PreviewError(examples)
    BY <1>3 DEF CanBeSaved
  <2>2. CASE MissingRequired(examples) # {}
    BY <2>2, CoverageIsTold
  <2>3. CASE \E i \in DOMAIN examples : Throws(examples[i])
    <3>1. PICK i \in DOMAIN examples : Throws(examples[i])
      BY <2>3
    <3>2. \A j \in DOMAIN examples[i].extractions : examples[i].extractions[j].class # Foreign
      BY DEF NamesSchemaFields
    <3>3. ~Complete(examples[i])
      BY <1>2, <3>1, <3>2, CompleteSaves
    <3>4. "incomplete" \in M
      BY <1>1, <3>3, IncompleteIsTold
    <3>. QED BY <3>4
  <2>. QED BY <2>1, <2>2, <2>3 DEF PreviewError
<1>4. ASSUME ~CanBeRun PROVE M \cap {"no prompt", "no example", "coverage"} # {}
  <2>1. CASE IsBlank(prompt)
    BY <2>1, NoPromptIsTold
  <2>2. CASE examples = << >>
    BY <2>2, EmptyIsTold
  <2>3. CASE MissingRequired(examples) # {}
    BY <2>3, CoverageIsTold
  <2>4. CASE ~IsBlank(prompt) /\ examples # << >> /\ MissingRequired(examples) = {}
    BY <1>4, <2>4, SavedCanBeRun DEF CanBeRun
  <2>. QED BY <2>1, <2>2, <2>3, <2>4
<1>5. ASSUME Guidance(prompt, examples).isReady, ~(CanBeSaved /\ CanBeRun)
      PROVE  \E c \in {"no prompt", "no example", "incomplete", "coverage"} : M = {c}
  <2>1. PICK c \in {"no prompt", "no example", "incomplete", "coverage"} : c \in M
    <3>. HIDE DEF M
    <3>. QED BY <1>3, <1>4, <1>5
  <2>2. M = {c}
    BY <1>5, <2>1, StandsAlone
  <2>. QED BY <2>2
<1>. QED BY <1>3, <1>4, <1>5

\* A draft whose examples name fields of the schema only and that
\* buildLangExtractPreview refuses, or whose version
\* getLangExtractExtractionReadiness would not let run, gets a message of
\* getLangExtractDraftGuidance that says why, although the three count examples
\* and coverage in their own ways; where isReady calls it in good shape
\* nevertheless, there is no other message.
THEOREM GuidanceAlwaysNamesTheReason == Spec => []GuidanceNamesTheReason
BY AlwaysTyped, GuidanceJudges, PTL
-----------------------------------------------------------------------------
(* Recognising a promoted suggestion.                                      *)

\* No item of a list spans several lines.
SingleItems(v) ==
  v.kind = "string_array" => \A n \in DOMAIN v.items : Len(v.items[n]) = 1

\* A value without white space around it is compared as it is.
LEMMA ComparableSame ==
  ASSUME NEW v \in SavedValues, SuggestedValue(v)
  PROVE  ComparableValue(v) = v
<1>1. CASE v.kind = "string"
  <2>1. v = [kind |-> "string", lines |-> v.lines]
    BY <1>1 DEF SavedValues
  <2>2. TrimLines(v.lines) = v.lines
    BY <1>1 DEF SuggestedValue, Stripped
  <2>. QED BY <1>1, <2>1, <2>2 DEF ComparableValue
<1>2. CASE v.kind = "string_array"
  <2>. DEFINE s == v.items
              t == [i \in 1..Len(s) |-> TrimLines(s[i])]
  <2>1. /\ v = [kind |-> "string_array", items |-> s]
        /\ s \in Seq(Seq(Line))
    BY <1>2 DEF SavedValues
  <2>2. \A i \in 1..Len(s) : TrimLines(s[i]) = s[i] /\ s[i] # << >>
    <3>1. DOMAIN s = 1..Len(s)
      BY <2>1
    <3>. QED BY <1>2, <3>1 DEF SuggestedValue, Stripped
  <2>. HIDE DEF s
  <2>3. t = s
    BY <2>1, <2>2
  <2>4. Without(s, << >>) = s
    BY <2>1, <2>2, WithoutSame
  <2>5. ComparableValue(v) = [v EXCEPT !.items = Without(t, << >>)]
    BY <1>2 DEF ComparableValue, s
  <2>6. [v EXCEPT !.items = s] = v
    BY <2>1
  <2>. HIDE DEF t
  <2>. QED BY <2>3, <2>4, <2>5, <2>6
<1>. QED BY <1>1, <1>2 DEF SavedValues

\* A line by itself is not blank when it is stripped.
LEMMA StrippedLine ==
  ASSUME NEW l \in Seq(Line), Stripped(l), Len(l) = 1
  PROVE  l = <<l[1]>> /\ l[1] \in Line /\ l[1] # Blank
<1>1. l = <<l[1]>> /\ l[1] \in Line
  OBVIOUS
<1>2. TrimLines(l) # << >>
  BY DEF Stripped
<1>3. \E i \in 1..Len(l) : l[i] # Blank
  BY <1>2, TrimLinesFacts
<1>. QED BY <1>1, <1>3

\* A suggested value is opened and saved as it is exactly if none of its items
\* spans several lines.
LEMMA PromotedValue ==
  ASSUME NEW k \in Line, NEW v \in SavedValues, SuggestedValue(v)
  PROVE  SavedValue(OpenedAs(k, v)) = v <=> SingleItems(v)
<1>. DEFINE a == OpenedAs(k, v)
<1>1. a \in DraftAttribute
  BY OpenedAsType
<1>2. a.kind \in Kind /\ a.value \in Seq(Line)
  BY <1>1 DEF DraftAttribute
<1>3. /\ a.kind = v.kind
      /\ a.value = IF v.kind = "string" THEN v.lines ELSE Join(v.items)
  BY DEF OpenedAs
<1>. HIDE DEF a
<1>4. CASE v.kind = "string"
  <2>1. v = [kind |-> "string", lines |-> v.lines]
    BY <1>4 DEF SavedValues
  <2>2. TrimLines(v.lines) = v.lines
    BY <1>4 DEF SuggestedValue, Stripped
  <2>3. SavedValue(a) = [kind |-> "string", lines |-> TrimLines(v.lines)]
    BY <1>2, <1>3, <1>4, SavedValueFacts
  <2>4. SingleItems(v)
    BY <1>4 DEF SingleItems
  <2>. QED BY <2>1, <2>2, <2>3, <2>4 DEF a
<1>5. CASE v.kind = "string_array"
  <2>. DEFINE s == v.items
              w == Written(a.value)
  <2>1. v = [kind |-> "string_array", items |-> s] /\ s \in Seq(Seq(Line))
    BY <1>5 DEF SavedValues
  <2>2. \A i \in DOMAIN s : Stripped(s[i])
    BY <1>5 DEF SuggestedValue
  <2>3. SavedValue(a) =
          [kind |-> "string_array", items |-> [i \in 1..Len(w) |-> <<w[i]>>]]
    BY <1>2, <1>3, <1>5, SavedValueFacts
  <2>4. a.value = Join(s)
    BY <1>3, <1>5
  <2>5. SingleItems(v) <=> \A i \in DOMAIN s : Len(s[i]) = 1
    BY <1>5 DEF SingleItems
  <2>. HIDE DEF s, w
  <2>6. ASSUME SavedValue(a) = v PROVE \A i \in DOMAIN s : Len(s[i]) = 1
    <3>1. s = [i \in 1..Len(w) |-> <<w[i]>>]
      BY <2>1, <2>3, <2>6
    <3>. QED BY <3>1
  <2>7. ASSUME \A i \in DOMAIN s : Len(s[i]) = 1 PROVE SavedValue(a) = v
    <3>. DEFINE u == [i \in 1..Len(s) |-> s[i][1]]
    <3>1. DOMAIN s = 1..Len(s) /\ Len(s) \in Nat /\ \A i \in 1..Len(s) : s[i] \in Seq(Line)
      BY <2>1
    <3>2. \A i \in 1..Len(s) : s[i] = <<s[i][1]>> /\ s[i][1] \in Line /\ s[i][1] # Blank
      BY <2>2, <2>7, <3>1, StrippedLine
    <3>3. u \in Seq(Line) /\ Len(u) = Len(s)
      BY <3>1, <3>2
    <3>4. \A i \in 1..Len(s) : u[i] = s[i][1] /\ u[i] # Blank
      BY <3>2
    <3>5. s = [i \in 1..Len(s) |-> <<s[i][1]>>]
      <4>1. s = [i \in 1..Len(s) |-> s[i]]
        BY <2>1
      <4>2. [i \in 1..Len(s) |-> s[i]] = [i \in 1..Len(s) |-> <<s[i][1]>>]
        BY <3>2
      <4>. QED BY <4>1, <4>2
    <3>. HIDE DEF u
    <3>6. s = [i \in 1..Len(u) |-> <<u[i]>>]
      BY <3>3, <3>4, <3>5
    <3>7. Join(s) = u
      BY <3>3, <3>6, JoinSingles
    <3>8. Without(u, Blank) = u
      BY <3>3, <3>4, WithoutSame
    <3>9. w = u
      BY <2>4, <3>7, <3>8 DEF w, Written
    <3>. QED BY <2>1, <2>3, <3>6, <3>9
  <2>. QED BY <2>5, <2>6, <2>7 DEF a
<1>. QED BY <1>4, <1>5 DEF SavedValues

\* The attributes r of a suggested extraction are saved, once opened, as they
\* are compared.
SavedAsCompared(r) ==
  SavedAttributes(OpenedAttributes(r)) = [k \in DOMAIN r |-> ComparableValue(r[k])]

\* The attributes of a suggested extraction are opened and saved as they are
\* exactly if none of their items spans several lines.
LEMMA PromotedAttributes ==
  ASSUME NEW r, SavedRecord(r), \A k \in DOMAIN r : SuggestedValue(r[k])
  PROVE  SavedAsCompared(r) <=> \A k \in DOMAIN r : SingleItems(r[k])
<1>1. \A k \in DOMAIN r : k \in Line /\ r[k] \in SavedValues
  BY DEF SavedRecord
<1>2. \A k \in DOMAIN r : ComparableValue(r[k]) = r[k]
  BY <1>1, ComparableSame
<1>3. \A k \in DOMAIN r : SavedValue(OpenedAs(k, r[k])) = r[k] <=> SingleItems(r[k])
  BY <1>1, PromotedValue
<1>4. SavedAttributes(OpenedAttributes(r)) = [k \in DOMAIN r |-> SavedValue(OpenedAs(k, r[k]))]
  BY OpenedSaved
<1>. DEFINE f == [k \in DOMAIN r |-> SavedValue(OpenedAs(k, r[k]))]
            g == [k \in DOMAIN r |-> ComparableValue(r[k])]
<1>5. /\ DOMAIN f = DOMAIN r /\ DOMAIN g = DOMAIN r
      /\ \A k \in DOMAIN r : f[k] = SavedValue(OpenedAs(k, r[k])) /\ g[k] = r[k]
  BY <1>2
<1>6. f = g <=> \A k \in DOMAIN r : f[k] = g[k]
  <2>1. f = [k \in DOMAIN r |-> f[k]] /\ g = [k \in DOMAIN r |-> g[k]]
    OBVIOUS
  <2>2. ASSUME \A k \in DOMAIN r : f[k] = g[k]
        PROVE  [k \in DOMAIN r |-> f[k]] = [k \in DOMAIN r |-> g[k]]
    <3>. HIDE DEF f, g
    <3>. QED BY <2>2
  <2>. HIDE DEF f, g
  <2>. QED BY <2>1, <2>2
<1>7. SavedAttributes(OpenedAttributes(r)) = f
  BY <1>4
<1>. HIDE DEF f
<1>8. f = g <=> \A k \in DOMAIN r : SingleItems(r[k])
  <2>. HIDE DEF g
  <2>. QED BY <1>3, <1>5, <1>6
<1>. QED BY <1>7, <1>8 DEF SavedAsCompared

\* Those that are opened and saved as they are make complete attributes in the
\* editor exactly if each of them has a name.
LEMMA PromotedComplete ==
  ASSUME NEW r, SavedRecord(r), \A k \in DOMAIN r : SuggestedValue(r[k]),
         \A k \in DOMAIN r : SingleItems(r[k]),
         NEW o, o = OpenedAttributes(r)
  PROVE  (\A i \in DOMAIN o : CompleteAttribute(o[i])) <=> \A k \in DOMAIN r : k # Blank
<1>1. /\ o \in Seq(DraftAttribute)
      /\ \A i \in 1..Len(o) : \E k \in DOMAIN r : o[i] = OpenedAs(k, r[k])
      /\ \A k \in DOMAIN r : \E i \in 1..Len(o) : o[i] = OpenedAs(k, r[k])
  BY OpenedAttributesFacts
<1>2. DOMAIN o = 1..Len(o)
  BY <1>1
<1>3. ASSUME NEW k \in DOMAIN r
      PROVE  CompleteAttribute(OpenedAs(k, r[k])) <=> k # Blank
  <2>. DEFINE v == r[k]
              a == OpenedAs(k, v)
  <2>1. k \in Line /\ v \in SavedValues /\ SuggestedValue(v) /\ SingleItems(v)
    BY DEF SavedRecord
  <2>. HIDE DEF v
  <2>2. a \in DraftAttribute /\ a.key.word = k
    BY <2>1, OpenedAsType
  <2>3. SavedValue(a) = v
    BY <2>1, PromotedValue
  <2>4. ~EmptyValue(v)
    BY <2>1 DEF EmptyValue, SuggestedValue, Stripped
  <2>. HIDE DEF a
  <2>5. CompleteAttribute(a) <=> ~IsBlank(a.key) /\ ~EmptyValue(SavedValue(a))
    BY <2>2, CompleteAttributeSaves
  <2>6. IsBlank(a.key) <=> k = Blank
    BY <2>2 DEF IsBlank
  <2>7. CompleteAttribute(a) <=> k # Blank
    BY <2>3, <2>4, <2>5, <2>6
  <2>. QED BY <2>7 DEF a, v
<1>. HIDE DEF CompleteAttribute
<1>4. ASSUME \A i \in DOMAIN o : CompleteAttribute(o[i]), NEW k \in DOMAIN r
      PROVE  k # Blank
  <2>1. PICK i \in 1..Len(o) : o[i] = OpenedAs(k, r[k])
    BY <1>1
  <2>2. CompleteAttribute(o[i])
    BY <1>2, <1>4
  <2>. QED BY <1>3, <2>1, <2>2
<1>5. ASSUME \A k \in DOMAIN r : k # Blank, NEW i \in DOMAIN o
      PROVE  CompleteAttribute(o[i])
  <2>1. PICK k \in DOMAIN r : o[i] = OpenedAs(k, r[k])
    BY <1>1, <1>2
  <2>. QED BY <1>3, <1>5, <2>1
<1>. QED BY <1>4, <1>5

\* What the example o opened from the suggestion s is like.
Promoted(o, s) ==
  /\ o \in DraftExample /\ Opened(o, s)
  /\ Len(s.extractions) \in Nat /\ DOMAIN s.extractions = 1..Len(s.extractions)
  /\ DOMAIN o.extractions = 1..Len(s.extractions)
  /\ ~IsBlank(s.text) /\ s.extractions # << >> /\ o.extractions # << >>
  /\ \A j \in 1..Len(s.extractions) :
       LET x == s.extractions[j]
       IN /\ x.class # Blank /\ ~IsBlank(x.span) /\ SavedRecord(x.attributes)
          /\ \A k \in DOMAIN x.attributes : SuggestedValue(x.attributes[k])

LEMMA PromotedFacts ==
  ASSUME NEW s, Suggestion(s)
  PROVE  Promoted(OpenedExample(s), s)
<1>. DEFINE o == OpenedExample(s)
            n == Len(s.extractions)
<1>1. SavedExample(s) /\ ~IsBlank(s.text) /\ s.extractions # << >>
  BY DEF Suggestion
<1>2. Opened(o, s)
  BY <1>1, OpenedExampleFacts
<1>. HIDE DEF o
<1>3. n \in Nat /\ DOMAIN s.extractions = 1..n
  <2>1. s.extractions \in Seq({s.extractions[j] : j \in DOMAIN s.extractions})
    BY <1>1 DEF SavedExample
  <2>. QED BY <2>1
<1>4. /\ o \in DraftExample /\ Len(o.extractions) = n
      /\ \A j \in 1..n : SavedRecord(s.extractions[j].attributes)
  BY <1>2 DEF Opened
<1>5. DOMAIN o.extractions = 1..n
  <2>1. o.extractions \in Seq(DraftExtraction)
    BY <1>4 DEF DraftExample
  <2>. QED BY <1>4, <2>1
<1>6. n # 0
  <2>1. s.extractions \in Seq({s.extractions[j] : j \in DOMAIN s.extractions})
    BY <1>1 DEF SavedExample
  <2>. QED BY <1>1, <2>1
<1>7. o.extractions # << >>
  BY <1>4, <1>6
<1>8. \A j \in 1..n :
        LET x == s.extractions[j]
        IN /\ x.class # Blank /\ ~IsBlank(x.span)
           /\ \A k \in DOMAIN x.attributes : SuggestedValue(x.attributes[k])
  BY <1>3 DEF Suggestion
<1>. QED BY <1>1, <1>2, <1>3, <1>4, <1>5, <1>7, <1>8 DEF Promoted, o

\* An example opened from a suggestion is saved as the suggestion is compared
\* exactly if all of its attributes are.
LEMMA PromotedSame ==
  ASSUME NEW o, NEW s, Promoted(o, s)
  PROVE  BuiltExample(o) = ComparableSuggestion(s) <=>
           \A j \in 1..Len(s.extractions) :
             SavedAsCompared(s.extractions[j].attributes)
<1>. DEFINE n == Len(s.extractions)
            r(j) == s.extractions[j].attributes
            A(j) == SavedAttributes(OpenedAttributes(r(j)))
            B(j) == [k \in DOMAIN r(j) |-> ComparableValue(r(j)[k])]
            x(j) == [class |-> s.extractions[j].class,
                     span |-> Trim(s.extractions[j].span), attributes |-> A(j)]
            y(j) == [class |-> s.extractions[j].class,
                     span |-> Trim(s.extractions[j].span), attributes |-> B(j)]
            xs == [j \in 1..n |-> x(j)]
            ys == [j \in 1..n |-> y(j)]
<1>1. o.text = s.text /\ Len(o.extractions) = n
      /\ \A j \in 1..n : /\ o.extractions[j].class = s.extractions[j].class
                         /\ o.extractions[j].span = s.extractions[j].span
                         /\ o.extractions[j].attributes = OpenedAttributes(r(j))
  BY DEF Promoted, Opened
<1>2. BuiltExample(o) = [text |-> Trim(s.text), extractions |-> xs]
  <2>1. BuiltExample(o) =
          [text |-> Trim(o.text),
           extractions |-> [j \in 1..Len(o.extractions) |->
             [class |-> o.extractions[j].class, span |-> Trim(o.extractions[j].span),
              attributes |-> SavedAttributes(o.extractions[j].attributes)]]]
    BY DEF BuiltExample
  <2>2. [j \in 1..n |->
             [class |-> o.extractions[j].class, span |-> Trim(o.extractions[j].span),
              attributes |-> SavedAttributes(o.extractions[j].attributes)]] = xs
    BY <1>1
  <2>. HIDE DEF xs
  <2>. QED BY <1>1, <2>1, <2>2
<1>3. ComparableSuggestion(s) = [text |-> Trim(s.text), extractions |-> ys]
  BY DEF ComparableSuggestion
<1>4. \A j \in 1..n : x(j) = y(j) <=> A(j) = B(j)
  <2>. HIDE DEF A, B
  <2>. QED OBVIOUS
<1>5. xs = ys <=> \A j \in 1..n : x(j) = y(j)
  <2>1. DOMAIN xs = 1..n /\ DOMAIN ys = 1..n
        /\ \A j \in 1..n : xs[j] = x(j) /\ ys[j] = y(j)
    <3>. HIDE DEF x, y
    <3>. QED OBVIOUS
  <2>2. (\A j \in 1..n : x(j) = y(j)) => xs = ys
    <3>. HIDE DEF x, y
    <3>. QED OBVIOUS
  <2>. HIDE DEF x, y, xs, ys
  <2>. QED BY <2>1, <2>2
<1>6. BuiltExample(o) = ComparableSuggestion(s) <=> xs = ys
  <2>. HIDE DEF xs, ys
  <2>. QED BY <1>2, <1>3
<1>7. BuiltExample(o) = ComparableSuggestion(s) <=> \A j \in 1..n : A(j) = B(j)
  <2>. HIDE DEF xs, ys, x, y, A, B
  <2>. QED BY <1>4, <1>5, <1>6
<1>. QED BY <1>7 DEF SavedAsCompared

\* doesDraftLangExtractExampleMatchSuggestion recognises an example opened from
\* a suggestion exactly if the editor can show the suggestion as it is.
LEMMA PromotedMatches ==
  ASSUME NEW s, Suggestion(s)
  PROVE  Matches(OpenedExample(s), s) <=> FitsTheEditor(s)
<1>. DEFINE o == OpenedExample(s)
            n == Len(s.extractions)
            r(j) == s.extractions[j].attributes
<1>1. Promoted(o, s)
  BY PromotedFacts
<1>. HIDE DEF o
<1>2. \A j \in 1..n : /\ SavedRecord(r(j))
                      /\ \A k \in DOMAIN r(j) : SuggestedValue(r(j)[k])
  BY <1>1 DEF Promoted
<1>3. BuiltExample(o) = ComparableSuggestion(s) <=>
        \A j \in 1..n : \A k \in DOMAIN r(j) : SingleItems(r(j)[k])
  <2>1. \A j \in 1..n :
          SavedAsCompared(r(j)) <=> \A k \in DOMAIN r(j) : SingleItems(r(j)[k])
    BY <1>2, PromotedAttributes
  <2>2. BuiltExample(o) = ComparableSuggestion(s) <=>
          \A j \in 1..n : SavedAsCompared(r(j))
    BY <1>1, PromotedSame
  <2>. HIDE DEF n, r
  <2>. QED BY <2>1, <2>2
<1>4. ASSUME \A j \in 1..n : \A k \in DOMAIN r(j) : SingleItems(r(j)[k])
      PROVE  Complete(o) <=> \A j \in 1..n : \A k \in DOMAIN r(j) : k # Blank
  <2>1. /\ ~IsBlank(o.text) /\ o.extractions # << >> /\ DOMAIN o.extractions = 1..n
        /\ \A j \in 1..n : /\ o.extractions[j].class # Blank
                           /\ ~IsBlank(o.extractions[j].span)
                           /\ o.extractions[j].attributes = OpenedAttributes(r(j))
    BY <1>1 DEF Promoted, Opened
  <2>2. \A j \in 1..n :
          (\A i \in DOMAIN o.extractions[j].attributes :
             CompleteAttribute(o.extractions[j].attributes[i]))
          <=> \A k \in DOMAIN r(j) : k # Blank
    BY <1>2, <1>4, <2>1, PromotedComplete
  <2>3. Complete(o) <=>
          \A j \in 1..n : \A i \in DOMAIN o.extractions[j].attributes :
            CompleteAttribute(o.extractions[j].attributes[i])
    BY <2>1 DEF Complete
  <2>. HIDE DEF n, r
  <2>. QED BY <2>2, <2>3
<1>5. FitsTheEditor(s) <=>
        \A j \in 1..n : \A k \in DOMAIN r(j) : k # Blank /\ SingleItems(r(j)[k])
  <2>1. DOMAIN s.extractions = 1..n
    BY <1>1 DEF Promoted
  <2>. QED BY <2>1 DEF FitsTheEditor, SingleItems
<1>6. Matches(o, s) <=> Complete(o) /\ BuiltExample(o) = ComparableSuggestion(s)
  BY DEF Matches
<1>7. Matches(o, s) <=> FitsTheEditor(s)
  <2>. HIDE DEF n, r
  <2>. QED BY <1>3, <1>4, <1>5, <1>6
<1>. QED BY <1>7 DEF o

\* The step that promotes a suggestion, which is offered only while no example
\* matches it.
LEMMA PromotionRecognised ==
  ASSUME Typed, NEW s \in Keys, PromoteSuggestion(s)
  PROVE  s \in Applied(examples') <=> FitsTheEditor(SuggestionOf[s])
<1>. DEFINE S == SuggestionOf[s]
            o == OpenedExample(S)
            n == Len(examples)
            es == Append(examples, o)
<1>1. examples \in Seq(DraftExample)
  BY DEF Typed
<1>2. Suggestion(S)
  BY SuggestionsAssumption
<1>3. examples' = es /\ s \notin Applied(examples)
  BY DEF PromoteSuggestion, SetExamples
<1>. HIDE DEF o, S
<1>4. n \in Nat /\ DOMAIN examples = 1..n /\ DOMAIN es = 1..n + 1
      /\ es[n + 1] = o /\ \A i \in 1..n : es[i] = examples[i]
  BY <1>1
<1>5. \A i \in 1..n : ~Matches(examples[i], S)
  BY <1>3, <1>4 DEF Applied, S
<1>6. s \in Applied(es) <=> \E i \in 1..n + 1 : Matches(es[i], S)
  BY <1>4 DEF Applied, S
<1>7. s \in Applied(es) <=> Matches(o, S)
  <2>1. \A i \in 1..n + 1 : i \in 1..n \/ i = n + 1
    BY <1>4
  <2>2. n + 1 \in 1..n + 1
    BY <1>4
  <2>. HIDE DEF es, n, Matches, Applied
  <2>. QED BY <1>4, <1>5, <1>6, <2>1, <2>2
<1>8. Matches(o, S) <=> FitsTheEditor(S)
  BY <1>2, PromotedMatches DEF o
<1>. QED BY <1>3, <1>7, <1>8 DEF S

\* A suggestion promoted by handleApplyLangExtractSuggestion is recognised among
\* the examples at once, and no longer offered, exactly if each of its
\* attributes has a name and no item of a list spans several lines: whatever the
\* suggestions, and whatever has been edited before.
THEOREM PromotedRecognised == Spec => PromotedIsRecognised
<1>1. Typed /\ [Next]_vars =>
        [\A s \in Keys :
           PromoteSuggestion(s) =>
             (s \in Applied(examples') <=> FitsTheEditor(SuggestionOf[s]))]_vars
  BY PromotionRecognised
<1>. QED BY <1>1, AlwaysTyped, PTL DEF Spec, PromotedIsRecognised
=============================================================================
