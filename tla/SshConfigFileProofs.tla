------------------------ MODULE SshConfigFileProofs ------------------------
(***************************************************************************)
(* Proofs about the rewrite of ~/.ssh/config, for files of any length.     *)
(***************************************************************************)
EXTENDS SshConfigFile, SequenceTheorems, FiniteSetTheorems,
        WellFoundedInduction, TLAPS

-----------------------------------------------------------------------------
(* Induction, over a set rather than a predicate. *)

(* A set with 0 that is closed under successors has all natural numbers. *)
LEMMA NatSetInduction ==
  ASSUME NEW T, 0 \in T, \A n \in Nat : n \in T => n + 1 \in T
  PROVE  Nat \subseteq T
<1> DEFINE lt == OpToRel(<, Nat)
           bad == Nat \ T
<1> SUFFICES ASSUME bad # {} PROVE FALSE
  OBVIOUS
<1>1. IsWellFoundedOn(lt, Nat)
  BY NatLessThanWellFounded
<1>2. \A m, n \in Nat : m < n => <<m, n>> \in lt
  BY DEF OpToRel
<1> HIDE DEF lt
<1>3. PICK n \in bad : \A m \in bad : <<m, n>> \notin lt
  BY <1>1, WFMin
<1>4. n # 0 /\ n - 1 \in Nat /\ n - 1 < n
  OBVIOUS
<1>5. n - 1 \notin bad
  BY <1>2, <1>3, <1>4
<1> QED BY <1>4, <1>5

(* A set with <<>> that is closed under Append has all sequences. *)
LEMMA SeqSetInduction ==
  ASSUME NEW S, NEW T, <<>> \in T,
         \A s \in Seq(S), e \in S : s \in T => Append(s, e) \in T
  PROVE  Seq(S) \subseteq T
<1> DEFINE N == {n \in Nat : \A s \in Seq(S) : Len(s) = n => s \in T}
<1>1. 0 \in N
  BY EmptySeq
<1>2. ASSUME NEW n \in Nat, n \in N PROVE n + 1 \in N
  <2> SUFFICES ASSUME NEW s \in Seq(S), Len(s) = n + 1 PROVE s \in T
    OBVIOUS
  <2>1. s # <<>>
    BY EmptySeq
  <2>2. PICK r \in Seq(S), e \in S : s = Append(r, e)
    BY <2>1, SequenceEmptyOrAppend
  <2>3. Len(r) = n
    BY <2>2, LenProperties, AppendProperties
  <2> QED BY <1>2, <2>2, <2>3
<1>3. Nat \subseteq N
  <2> HIDE DEF N
  <2> QED BY <1>1, <1>2, NatSetInduction
<1> QED BY <1>3, LenProperties

-----------------------------------------------------------------------------
(* Selected, one line at a time. *)

(* What the recursion of Selected makes of the first n lines. *)
Step(f, s, K, n) ==
  IF n = 0 THEN <<>>
  ELSE IF n \in K THEN Append(f[n - 1], s[n]) ELSE f[n - 1]

Selects(f, s, K, m) == f = [n \in 0..m |-> Step(f, s, K, n)]

(* The recursion defines a function. *)
LEMMA SelectsExists ==
  ASSUME NEW s, NEW K, NEW m \in Nat
  PROVE  \E f : Selects(f, s, K, m)
<1> DEFINE T == {k \in Nat : \E f : Selects(f, s, K, k)}
<1>1. 0 \in T
  <2> DEFINE g == [n \in 0..0 |-> <<>>]
  <2>1. Selects(g, s, K, 0)
    BY DEF Selects, Step
  <2> QED BY <2>1
<1>2. ASSUME NEW k \in Nat, k \in T PROVE k + 1 \in T
  <2>1. PICK f : Selects(f, s, K, k)
    BY <1>2
  <2> DEFINE g == [n \in 0..(k + 1) |-> IF n = k + 1 THEN Step(f, s, K, n) ELSE f[n]]
  <2>2. ASSUME NEW n \in 0..(k + 1) PROVE g[n] = Step(g, s, K, n)
    <3>1. n # 0 => n - 1 \in 0..k /\ g[n - 1] = f[n - 1]
      OBVIOUS
    <3>2. Step(g, s, K, n) = Step(f, s, K, n)
      BY <3>1 DEF Step
    <3>3. n # k + 1 => f[n] = Step(f, s, K, n)
      BY <2>1 DEF Selects
    <3> QED BY <3>2, <3>3
  <2>3. Selects(g, s, K, k + 1)
    <3> HIDE DEF Step
    <3>1. g = [n \in 0..(k + 1) |-> g[n]]
      OBVIOUS
    <3> HIDE DEF g
    <3> QED BY <2>2, <3>1 DEF Selects
  <2> QED BY <2>3
<1>3. Nat \subseteq T
  <2> HIDE DEF T
  <2> QED BY <1>1, <1>2, NatSetInduction
<1> QED BY <1>3

(* Two files that begin alike give the same for their beginnings. *)
LEMMA SelectsAgree ==
  ASSUME NEW s, NEW t, NEW K, NEW L, NEW m \in Nat, NEW k \in Nat, NEW f, NEW g,
         Selects(f, s, K, m), Selects(g, t, L, k),
         \A i \in 1..m : i <= k => s[i] = t[i] /\ (i \in K <=> i \in L)
  PROVE  \A n \in Nat : n <= m /\ n <= k => f[n] = g[n]
<1> DEFINE T == {n \in Nat : n <= m /\ n <= k => f[n] = g[n]}
<1>1. 0 \in T
  BY DEF Selects, Step
<1>2. ASSUME NEW n \in Nat, n \in T PROVE n + 1 \in T
  <2> SUFFICES ASSUME n + 1 <= m, n + 1 <= k PROVE f[n + 1] = g[n + 1]
    OBVIOUS
  <2>1. n + 1 \in 0..m /\ n + 1 \in 0..k /\ n + 1 \in 1..m /\ (n + 1) - 1 = n
    OBVIOUS
  <2>2. f[n + 1] = Step(f, s, K, n + 1) /\ g[n + 1] = Step(g, t, L, n + 1)
    BY <2>1 DEF Selects
  <2>3. f[n] = g[n]
    BY <1>2
  <2> QED BY <2>1, <2>2, <2>3 DEF Step
<1>3. Nat \subseteq T
  <2> HIDE DEF T
  <2> QED BY <1>1, <1>2, NatSetInduction
<1> QED BY <1>3

LEMMA SelectedValue ==
  ASSUME NEW S, NEW s \in Seq(S), NEW K
  PROVE  \E f : Selects(f, s, K, Len(s)) /\ Selected(s, K) = f[Len(s)]
<1> DEFINE f == CHOOSE g : Selects(g, s, K, Len(s))
<1>1. Selected(s, K) = f[Len(s)]
  BY DEF Selected, Selects, Step
<1>2. Len(s) \in Nat
  BY LenProperties
<1>3. Selects(f, s, K, Len(s))
  BY <1>2, SelectsExists
<1> QED BY <1>1, <1>3

(* Nothing is selected of an empty file. *)
LEMMA SelectedEmpty ==
  ASSUME NEW K
  PROVE  Selected(<<>>, K) = <<>>
<1>1. PICK f : Selects(f, <<>>, K, 0) /\ Selected(<<>>, K) = f[0]
  BY SelectedValue, EmptySeq
<1> QED BY <1>1 DEF Selects, Step

(* The last line is added if its index is in the set, and only the indices   *)
(* of the lines before it tell what is selected of these.                    *)
LEMMA SelectedAppend ==
  ASSUME NEW S, NEW s \in Seq(S), NEW e \in S, NEW K, NEW L,
         \A i \in 1..Len(s) : i \in K <=> i \in L
  PROVE  Selected(Append(s, e), K) =
           IF Len(s) + 1 \in K THEN Append(Selected(s, L), e) ELSE Selected(s, L)
<1> DEFINE t == Append(s, e)
           m == Len(s)
<1>1. /\ t \in Seq(S) /\ m \in Nat /\ Len(t) = m + 1 /\ t[m + 1] = e
      /\ \A i \in 1..m : t[i] = s[i]
  BY LenProperties, AppendProperties
<1>2. PICK f : Selects(f, s, L, m) /\ Selected(s, L) = f[m]
  BY SelectedValue
<1>3. PICK g : Selects(g, t, K, m + 1) /\ Selected(t, K) = g[m + 1]
  BY <1>1, SelectedValue
<1> HIDE DEF t, m
<1>4. g[m] = f[m]
  <2>1. \A i \in 1..m : i <= m + 1 => s[i] = t[i] /\ (i \in L <=> i \in K)
    BY <1>1 DEF m
  <2>2. m + 1 \in Nat /\ m <= m + 1 /\ m <= m
    BY <1>1
  <2> QED BY <1>1, <1>2, <1>3, <2>1, <2>2, SelectsAgree
<1>5. g[m + 1] = Step(g, t, K, m + 1)
  BY <1>1, <1>3 DEF Selects
<1>6. m + 1 # 0 /\ (m + 1) - 1 = m
  BY <1>1
<1> QED BY <1>1, <1>2, <1>3, <1>4, <1>5, <1>6 DEF Step, t, m

-----------------------------------------------------------------------------
(* The loop of remove_hardpass_integration, and the user's lines.            *)

(* What the loop lets through. *)
Kept == Lines \ {"begin", "managed", "legacy"}

Loose == Kept \ {"host"}

LEMMA Kinds ==
  /\ Loose \subseteq Kept /\ Kept \subseteq Lines /\ UserKinds \subseteq Lines
  /\ \A S \in {Loose, Kept, UserKinds} : \A s \in Seq(S) : s \in Seq(Lines)
  /\ \A s \in Seq(Loose) : s \in Seq(Kept)
<1>1. Loose \subseteq Kept /\ Kept \subseteq Lines /\ UserKinds \subseteq Lines
  BY DEF Loose, Kept, Lines, UserKinds
<1> QED BY <1>1, SeqMonotonic

(* A later line does not change what a line is removed for. *)
LEMMA RemovedAppend ==
  ASSUME NEW s \in Seq(Lines), NEW e \in Lines, NEW i \in 1..Len(s)
  PROVE  /\ InLegacyBlock(Append(s, e), i) <=> InLegacyBlock(s, i)
         /\ Removed(Append(s, e), i) <=> Removed(s, i)
<1>1. Len(s) \in Nat /\ \A j \in 1..Len(s) : Append(s, e)[j] = s[j]
  BY LenProperties, AppendProperties
<1>2. \A b \in 1..i : b \in 1..Len(s) /\ \A j \in b..(i - 1) : j \in 1..Len(s)
  BY <1>1
<1>3. InLegacyBlock(Append(s, e), i) <=> InLegacyBlock(s, i)
  BY <1>1, <1>2 DEF InLegacyBlock
<1> QED BY <1>1, <1>3 DEF Removed

(* One round of the loop. *)
LEMMA RemoveAppend ==
  ASSUME NEW s \in Seq(Lines), NEW e \in Lines
  PROVE  RemoveIntegration(Append(s, e)) =
           IF Removed(Append(s, e), Len(s) + 1) THEN RemoveIntegration(s)
           ELSE Append(RemoveIntegration(s), e)
<1> DEFINE t == Append(s, e)
           K == {i \in 1..Len(t) : ~Removed(t, i)}
           L == {i \in 1..Len(s) : ~Removed(s, i)}
<1>1. Len(s) \in Nat /\ Len(t) = Len(s) + 1
  BY LenProperties, AppendProperties
<1>2. \A i \in 1..Len(s) : i \in K <=> i \in L
  BY <1>1, RemovedAppend
<1>3. Len(s) + 1 \in K <=> ~Removed(t, Len(s) + 1)
  BY <1>1
<1>4. RemoveIntegration(t) = Selected(t, K) /\ RemoveIntegration(s) = Selected(s, L)
  BY DEF RemoveIntegration
<1> HIDE DEF K, L
<1> QED BY <1>2, <1>3, <1>4, SelectedAppend

LEMMA UserLinesAppend ==
  ASSUME NEW s \in Seq(Lines), NEW e \in Lines
  PROVE  UserLines(Append(s, e)) =
           IF e \in UserKinds THEN Append(UserLines(s), e) ELSE UserLines(s)
<1> DEFINE t == Append(s, e)
           K == {i \in 1..Len(t) : t[i] \in UserKinds}
           L == {i \in 1..Len(s) : s[i] \in UserKinds}
<1>1. /\ Len(s) \in Nat /\ Len(t) = Len(s) + 1 /\ t[Len(s) + 1] = e
      /\ \A i \in 1..Len(s) : t[i] = s[i]
  BY LenProperties, AppendProperties
<1>2. \A i \in 1..Len(s) : i \in K <=> i \in L
  BY <1>1
<1>3. Len(s) + 1 \in K <=> e \in UserKinds
  BY <1>1
<1>4. UserLines(t) = Selected(t, K) /\ UserLines(s) = Selected(s, L)
  BY DEF UserLines
<1> HIDE DEF K, L
<1> QED BY <1>2, <1>3, <1>4, SelectedAppend

LEMMA UnclaimedAppend ==
  ASSUME NEW s \in Seq(Lines), NEW e \in Lines
  PROVE  UnclaimedLines(Append(s, e)) =
           IF e \in UserKinds /\ ~InLegacyBlock(Append(s, e), Len(s) + 1)
           THEN Append(UnclaimedLines(s), e) ELSE UnclaimedLines(s)
<1> DEFINE t == Append(s, e)
           K == {i \in 1..Len(t) : t[i] \in UserKinds /\ ~InLegacyBlock(t, i)}
           L == {i \in 1..Len(s) : s[i] \in UserKinds /\ ~InLegacyBlock(s, i)}
<1>1. /\ Len(s) \in Nat /\ Len(t) = Len(s) + 1 /\ t[Len(s) + 1] = e
      /\ \A i \in 1..Len(s) : t[i] = s[i]
  BY LenProperties, AppendProperties
<1>2. \A i \in 1..Len(s) : i \in K <=> i \in L
  BY <1>1, RemovedAppend
<1>3. Len(s) + 1 \in K <=> e \in UserKinds /\ ~InLegacyBlock(t, Len(s) + 1)
  BY <1>1
<1>4. UnclaimedLines(t) = Selected(t, K) /\ UnclaimedLines(s) = Selected(s, L)
  BY DEF UnclaimedLines
<1> HIDE DEF K, L
<1> QED BY <1>2, <1>3, <1>4, SelectedAppend

LEMMA EmptyFile ==
  /\ RemoveIntegration(<<>>) = <<>>
  /\ UserLines(<<>>) = <<>> /\ UnclaimedLines(<<>>) = <<>>
BY SelectedEmpty DEF RemoveIntegration, UserLines, UnclaimedLines

(* The kind of a line that is looked at outside of legacy blocks decides. *)
LEMMA RemovedLast ==
  ASSUME NEW s \in Seq(Lines), NEW e \in Lines
  PROVE  /\ Removed(Append(s, e), Len(s) + 1) \/ e \in Kept
         /\ (\A i \in 1..Len(s) : s[i] # "begin") /\ e \in Kept =>
              ~Removed(Append(s, e), Len(s) + 1)
         /\ e = "managed" => Removed(Append(s, e), Len(s) + 1)
<1> DEFINE t == Append(s, e)
           m == Len(s) + 1
<1>1. /\ m \in Nat /\ m >= 1 /\ t[m] = e /\ \A i \in 1..m : i # m => t[i] = s[i] /\ i \in 1..Len(s)
  BY LenProperties, AppendProperties
<1> HIDE DEF t, m
<1>2. e = "begin" => InLegacyBlock(t, m)
  BY <1>1 DEF InLegacyBlock
<1>3. (\A i \in 1..Len(s) : s[i] # "begin") /\ e # "begin" => ~InLegacyBlock(t, m)
  BY <1>1 DEF InLegacyBlock
<1> QED BY <1>1, <1>2, <1>3 DEF Removed, Kept, t, m

(* The loop drops every line of the integration, ... *)
LEMMA RemoveType ==
  ASSUME NEW s \in Seq(Lines)
  PROVE  RemoveIntegration(s) \in Seq(Kept)
<1> DEFINE T == {r \in Seq(Lines) : RemoveIntegration(r) \in Seq(Kept)}
<1>1. <<>> \in T
  BY EmptyFile, EmptySeq
<1>2. ASSUME NEW r \in Seq(Lines), NEW e \in Lines, r \in T
      PROVE  Append(r, e) \in T
  <2>1. Append(r, e) \in Seq(Lines)
    BY AppendProperties
  <2>2. e \in Kept => Append(RemoveIntegration(r), e) \in Seq(Kept)
    BY <1>2, AppendProperties
  <2> QED BY <1>2, <2>1, <2>2, RemoveAppend, RemovedLast
<1>3. Seq(Lines) \subseteq T
  <2> HIDE DEF T
  <2> QED BY <1>1, <1>2, SeqSetInduction
<1> QED BY <1>3

LEMMA UserLinesType ==
  ASSUME NEW s \in Seq(Lines)
  PROVE  UserLines(s) \in Seq(Lines)
<1> DEFINE T == {r \in Seq(Lines) : UserLines(r) \in Seq(Lines)}
<1>1. <<>> \in T
  BY EmptyFile, EmptySeq
<1>2. ASSUME NEW r \in Seq(Lines), NEW e \in Lines, r \in T
      PROVE  Append(r, e) \in T
  <2>1. Append(r, e) \in Seq(Lines) /\ Append(UserLines(r), e) \in Seq(Lines)
    BY <1>2, AppendProperties
  <2> QED BY <1>2, <2>1, UserLinesAppend
<1>3. Seq(Lines) \subseteq T
  <2> HIDE DEF T
  <2> QED BY <1>1, <1>2, SeqSetInduction
<1> QED BY <1>3

(* ... and of the user's lines exactly those in a legacy block. *)
LEMMA RemoveKeepsUnclaimed ==
  ASSUME NEW s \in Seq(Lines)
  PROVE  UserLines(RemoveIntegration(s)) = UnclaimedLines(s)
<1> DEFINE T == {r \in Seq(Lines) :
                   UserLines(RemoveIntegration(r)) = UnclaimedLines(r)}
<1>1. <<>> \in T
  BY EmptyFile, EmptySeq
<1>2. ASSUME NEW r \in Seq(Lines), NEW e \in Lines, r \in T
      PROVE  Append(r, e) \in T
  <2> DEFINE t == Append(r, e)
             m == Len(r) + 1
  <2>1. t \in Seq(Lines) /\ t[m] = e
    BY AppendProperties
  <2>2. RemoveIntegration(r) \in Seq(Lines)
    BY RemoveType, Kinds
  <2>3. e \in UserKinds => (Removed(t, m) <=> InLegacyBlock(t, m))
    BY <2>1 DEF Removed, UserKinds
  <2>4. UserLines(RemoveIntegration(t)) = UnclaimedLines(t)
    <3>1. CASE Removed(t, m)
      BY <1>2, <2>3, <3>1, RemoveAppend, UnclaimedAppend
    <3>2. CASE ~Removed(t, m)
      <4>1. RemoveIntegration(t) = Append(RemoveIntegration(r), e)
        BY <3>2, RemoveAppend
      <4> QED BY <1>2, <2>2, <2>3, <3>2, <4>1, UserLinesAppend, UnclaimedAppend
    <3> QED BY <3>1, <3>2
  <2> QED BY <2>1, <2>4
<1>3. Seq(Lines) \subseteq T
  <2> HIDE DEF T
  <2> QED BY <1>1, <1>2, SeqSetInduction
<1> QED BY <1>3

(* s \o (r with e) *)
LEMMA ConcatAppend ==
  ASSUME NEW S, NEW s \in Seq(S), NEW r \in Seq(S), NEW e \in S
  PROVE  s \o Append(r, e) = Append(s \o r, e)
<1>1. <<e>> \in Seq(S) /\ s \o r \in Seq(S)
  BY ConcatProperties
<1>2. Append(r, e) = r \o <<e>> /\ Append(s \o r, e) = (s \o r) \o <<e>>
  BY <1>1, AppendIsConcat
<1> QED BY <1>1, <1>2, ConcatAssociative

LEMMA UserLinesConcat ==
  ASSUME NEW s \in Seq(Lines), NEW u \in Seq(Lines)
  PROVE  UserLines(s \o u) = UserLines(s) \o UserLines(u)
<1> DEFINE T == {r \in Seq(Lines) :
                   UserLines(s \o r) = UserLines(s) \o UserLines(r)}
<1>1. <<>> \in T
  BY EmptyFile, EmptySeq, UserLinesType, ConcatEmptySeq
<1>2. ASSUME NEW r \in Seq(Lines), NEW e \in Lines, r \in T
      PROVE  Append(r, e) \in T
  <2>1. s \o r \in Seq(Lines) /\ s \o Append(r, e) = Append(s \o r, e)
    BY ConcatProperties, ConcatAppend
  <2>2. UserLines(s) \in Seq(Lines) /\ UserLines(r) \in Seq(Lines)
    BY UserLinesType
  <2>3. UserLines(s) \o Append(UserLines(r), e) = Append(UserLines(s) \o UserLines(r), e)
    BY <2>2, ConcatAppend
  <2> QED BY <1>2, <2>1, <2>3, UserLinesAppend, AppendProperties
<1>3. Seq(Lines) \subseteq T
  <2> HIDE DEF T
  <2> QED BY <1>1, <1>2, SeqSetInduction
<1> QED BY <1>3

(* Of a file without legacy blocks the loop removes the Include lines only. *)
LEMMA RemoveConcat ==
  ASSUME NEW s \in Seq(Lines), \A i \in 1..Len(s) : s[i] # "begin",
         NEW u \in Seq(Kept)
  PROVE  RemoveIntegration(s \o u) = RemoveIntegration(s) \o u
<1> DEFINE T == {r \in Seq(Kept) :
                   RemoveIntegration(s \o r) = RemoveIntegration(s) \o r}
<1>1. <<>> \in T
  BY EmptySeq, RemoveType, ConcatEmptySeq
<1>2. ASSUME NEW r \in Seq(Kept), NEW e \in Kept, r \in T
      PROVE  Append(r, e) \in T
  <2>1. r \in Seq(Lines) /\ e \in Lines
    BY Kinds
  <2>2. s \o r \in Seq(Lines) /\ s \o Append(r, e) = Append(s \o r, e)
    BY <2>1, ConcatProperties, ConcatAppend
  <2>3. \A i \in 1..Len(s \o r) : (s \o r)[i] # "begin"
    <3>1. \A i \in 1..Len(r) : r[i] # "begin"
      BY ElementOfSeq DEF Kept
    <3>2. Len(s) \in Nat /\ Len(r) \in Nat
      BY LenProperties
    <3> QED BY <2>1, <3>1, <3>2, ConcatProperties
  <2>4. RemoveIntegration(s \o Append(r, e)) = Append(RemoveIntegration(s \o r), e)
    BY <2>1, <2>2, <2>3, RemoveAppend, RemovedLast
  <2>5. RemoveIntegration(s) \o Append(r, e) = Append(RemoveIntegration(s) \o r, e)
    BY RemoveType, ConcatAppend
  <2> QED BY <1>2, <2>4, <2>5, AppendProperties
<1>3. Seq(Kept) \subseteq T
  <2> HIDE DEF T
  <2> QED BY <1>1, <1>2, SeqSetInduction
<1> QED BY <1>3

-----------------------------------------------------------------------------
(* Trimming, and the insertion before the first scope. *)

Blanks == Seq({"blank"})

EndsInText(b) == b = <<>> \/ b[Len(b)] # "blank"

StartsScope(a) == a = <<>> \/ a[1] = "host"

(* Two files of the same lines, one after the other. *)
LEMMA Joined ==
  ASSUME NEW s \in Seq(Lines), NEW u \in Seq(Lines)
  PROVE  /\ s \o u \in Seq(Lines)
         /\ Len(s) \in Nat /\ Len(u) \in Nat /\ Len(s \o u) = Len(s) + Len(u)
         /\ \A i \in 1..Len(s) : (s \o u)[i] = s[i]
         /\ \A i \in 1..Len(u) : (s \o u)[Len(s) + i] = u[i]
         /\ \A i \in 1..Len(s \o u) :
              i \in 1..Len(s) \/ (i - Len(s) \in 1..Len(u) /\ (s \o u)[i] = u[i - Len(s)])
<1>1. Len(s) \in Nat /\ Len(u) \in Nat
  BY LenProperties
<1> QED BY <1>1, ConcatProperties

(* What is cut off at its front is cut back to the front. *)
LEMMA FrontOfConcat ==
  ASSUME NEW s \in Seq(Lines), NEW u \in Seq(Lines)
  PROVE  /\ SubSeq(s \o u, 1, Len(s)) = s
         /\ SubSeq(s \o u, Len(s) + 1, Len(s \o u)) = u
<1> DEFINE t == s \o u
           m == Len(s)
           n == Len(t)
<1>1. /\ t \in Seq(Lines) /\ m \in Nat /\ n \in Nat /\ n = m + Len(u)
      /\ \A i \in 1..m : t[i] = s[i]
      /\ \A i \in 1..Len(u) : t[m + i] = u[i]
  BY Joined
<1>2. Len(u) \in Nat
  BY LenProperties
<1>3. \A i \in 1..n : t[i] \in Lines
  BY <1>1, ElementOfSeq
<1> HIDE DEF t, n
<1>4. SubSeq(t, 1, m) = s
  <2>1. /\ SubSeq(t, 1, m) \in Seq(Lines)
        /\ Len(SubSeq(t, 1, m)) = IF 1 <= m THEN m - 1 + 1 ELSE 0
        /\ \A i \in 1..(m - 1 + 1) : SubSeq(t, 1, m)[i] = t[1 + i - 1]
    BY <1>1, <1>2, <1>3, SubSeqProperties
  <2>2. Len(SubSeq(t, 1, m)) = m
    BY <1>1, <2>1
  <2>3. \A i \in 1..m : SubSeq(t, 1, m)[i] = s[i]
    BY <1>1, <2>1
  <2> QED BY <2>1, <2>2, <2>3, SeqEqual
<1>5. SubSeq(t, m + 1, n) = u
  <2>1. /\ SubSeq(t, m + 1, n) \in Seq(Lines)
        /\ Len(SubSeq(t, m + 1, n)) = IF m + 1 <= n THEN n - (m + 1) + 1 ELSE 0
        /\ \A i \in 1..(n - (m + 1) + 1) : SubSeq(t, m + 1, n)[i] = t[m + 1 + i - 1]
    BY <1>1, <1>2, <1>3, SubSeqProperties
  <2>2. Len(SubSeq(t, m + 1, n)) = Len(u)
    BY <1>1, <1>2, <2>1
  <2>3. \A i \in 1..Len(u) : SubSeq(t, m + 1, n)[i] = u[i]
    BY <1>1, <1>2, <2>1
  <2> QED BY <2>1, <2>2, <2>3, SeqEqual
<1> QED BY <1>4, <1>5 DEF t, n

(* The greatest and the least of a set of integers. *)
LEMMA Extrema ==
  ASSUME NEW D, D \subseteq Int, NEW m \in D
  PROVE  /\ (\A i \in D : i <= m) => Max(D) = m
         /\ (\A i \in D : m <= i) => Min(D) = m
<1>1. ASSUME \A i \in D : i <= m PROVE Max(D) = m
  <2>1. \A i \in D : m >= i
    BY <1>1
  <2>2. Max(D) \in D /\ \A i \in D : Max(D) >= i
    BY <2>1 DEF Max
  <2>3. Max(D) \in Int /\ m \in Int /\ Max(D) >= m /\ Max(D) <= m
    BY <1>1, <2>2
  <2> QED BY <2>3
<1>2. ASSUME \A i \in D : m <= i PROVE Min(D) = m
  <2>1. Min(D) \in D /\ \A i \in D : Min(D) <= i
    BY <1>2 DEF Min
  <2>2. Min(D) \in Int /\ m \in Int /\ Min(D) <= m /\ m <= Min(D)
    BY <1>2, <2>1
  <2> QED BY <2>2
<1> QED BY <1>1, <1>2

LEMMA BlanksAreLines == \A z \in Blanks : z \in Seq(Lines)
<1>1. {"blank"} \subseteq Lines
  BY DEF Lines
<1> QED BY <1>1, SeqMonotonic DEF Blanks

(* trim_end_matches cuts off the empty lines at the end, and only those. *)
LEMMA TrimValue ==
  ASSUME NEW b \in Seq(Lines), EndsInText(b), NEW z \in Blanks
  PROVE  TrimEnd(b \o z) = b
<1> DEFINE t == b \o z
           D == {i \in 1..Len(t) : t[i] # "blank"} \cup {0}
<1>0. z \in Seq(Lines)
  BY BlanksAreLines
<1>1. Len(b) \in Nat /\ Len(z) \in Nat /\ Len(t) = Len(b) + Len(z)
  BY <1>0, Joined
<1>2. Len(b) \in D
  <2>1. CASE b = <<>>
    BY <2>1, EmptySeq
  <2>2. CASE b # <<>>
    <3>1. Len(b) \in 1..Len(b)
      BY <2>2, EmptySeq
    <3>2. t[Len(b)] = b[Len(b)]
      BY <1>0, <3>1, Joined
    <3> QED BY <1>1, <2>2, <3>1, <3>2 DEF EndsInText
  <2> QED BY <2>1, <2>2
<1>3. \A i \in D : i <= Len(b)
  <2> SUFFICES ASSUME NEW i \in 1..Len(t), t[i] # "blank" PROVE i <= Len(b)
    BY <1>1
  <2>1. \A j \in 1..Len(z) : z[j] = "blank"
    BY ElementOfSeq DEF Blanks
  <2> QED BY <1>0, <1>1, <2>1, Joined
<1>4. D \subseteq Int
  BY <1>1
<1> HIDE DEF D
<1>5. Max(D) = Len(b)
  BY <1>2, <1>3, <1>4, Extrema
<1>6. TrimEnd(t) = SubSeq(t, 1, Max(D))
  BY DEF TrimEnd, D
<1> QED BY <1>0, <1>5, <1>6, FrontOfConcat

(* Every file has such a front. *)
LEMMA TrimSplit ==
  ASSUME NEW h \in Seq(Loose)
  PROVE  \E b \in Seq(Loose), z \in Blanks : EndsInText(b) /\ h = b \o z
<1> DEFINE T == {r \in Seq(Loose) :
                   \E b \in Seq(Loose), z \in Blanks : EndsInText(b) /\ r = b \o z}
<1>0. "blank" \in Loose
  BY DEF Loose, Kept, Lines
<1>1. <<>> \in T
  BY EmptySeq, ConcatEmptySeq DEF EndsInText, Blanks
<1>2. ASSUME NEW r \in Seq(Loose), NEW e \in Loose, r \in T
      PROVE  Append(r, e) \in T
  <2>1. PICK b \in Seq(Loose), z \in Blanks : EndsInText(b) /\ r = b \o z
    BY <1>2
  <2>2. Append(r, e) \in Seq(Loose)
    BY AppendProperties
  <2>3. CASE e = "blank"
    <3>1. Append(z, e) \in Blanks
      BY <2>3, AppendProperties DEF Blanks
    <3>2. z \in Seq(Loose)
      BY <1>0, SeqMonotonic DEF Blanks
    <3>3. b \o Append(z, e) = Append(r, e)
      BY <2>1, <3>2, ConcatAppend
    <3> QED BY <2>1, <2>2, <3>1, <3>3
  <2>4. CASE e # "blank"
    <3>1. EndsInText(Append(r, e))
      BY <2>4, AppendProperties DEF EndsInText
    <3>2. <<>> \in Blanks /\ Append(r, e) = Append(r, e) \o <<>>
      BY <2>2, EmptySeq, ConcatEmptySeq DEF Blanks
    <3> QED BY <2>2, <3>1, <3>2
  <2> QED BY <2>3, <2>4
<1>3. Seq(Loose) \subseteq T
  <2> HIDE DEF T
  <2> QED BY <1>1, <1>2, SeqSetInduction
<1> QED BY <1>3

(* What comes before the first scope, and the rest. *)
LEMMA ScopeSplit ==
  ASSUME NEW r \in Seq(Kept)
  PROVE  \E h \in Seq(Loose), a \in Seq(Kept) : StartsScope(a) /\ r = h \o a
<1> DEFINE T == {s \in Seq(Kept) :
                   \E h \in Seq(Loose), a \in Seq(Kept) : StartsScope(a) /\ s = h \o a}
<1>1. <<>> \in T
  BY EmptySeq, ConcatEmptySeq DEF StartsScope
<1>2. ASSUME NEW s \in Seq(Kept), NEW e \in Kept, s \in T
      PROVE  Append(s, e) \in T
  <2>1. PICK h \in Seq(Loose), a \in Seq(Kept) : StartsScope(a) /\ s = h \o a
    BY <1>2
  <2>2. h \in Seq(Kept) /\ Append(s, e) \in Seq(Kept)
    BY Kinds, AppendProperties
  <2>3. CASE a = <<>> /\ e # "host"
    <3>1. Append(h, e) \in Seq(Loose)
      BY <2>3, AppendProperties DEF Loose
    <3>2. s = h
      BY <2>1, <2>2, <2>3, ConcatEmptySeq
    <3>3. <<>> \in Seq(Kept) /\ StartsScope(<<>>) /\ Append(s, e) = Append(s, e) \o <<>>
      BY <2>2, EmptySeq, ConcatEmptySeq DEF StartsScope
    <3> QED BY <2>2, <3>1, <3>2, <3>3
  <2>4. CASE a # <<>> \/ e = "host"
    <3>1. Append(a, e) \in Seq(Kept) /\ Append(s, e) = h \o Append(a, e)
      <4>1. Append(a, e) \in Seq(Kept)
        BY AppendProperties
      <4>2. h \o Append(a, e) = Append(h \o a, e)
        BY <2>2, ConcatAppend
      <4> QED BY <2>1, <4>1, <4>2
    <3>2. StartsScope(Append(a, e))
      <4>1. CASE a = <<>>
        BY <2>4, <4>1, AppendProperties, EmptySeq DEF StartsScope
      <4>2. CASE a # <<>>
        <5>1. 1 \in 1..Len(a)
          BY <4>2, EmptySeq
        <5> QED BY <2>1, <4>2, <5>1, AppendProperties DEF StartsScope
      <4> QED BY <4>1, <4>2
    <3> QED BY <2>2, <3>1, <3>2
  <2> QED BY <2>3, <2>4
<1>3. Seq(Kept) \subseteq T
  <2> HIDE DEF T
  <2> QED BY <1>1, <1>2, SeqSetInduction
<1> QED BY <1>3

(* first_host_or_match_offset finds the place between the two. *)
LEMMA InsertionValue ==
  ASSUME NEW h \in Seq(Loose), NEW a \in Seq(Kept), StartsScope(a)
  PROVE  Insertion(h \o a) = Len(h) + 1
<1> DEFINE r == h \o a
           D == {i \in 1..Len(r) : IsScoped(r[i])} \cup {Len(r) + 1}
<1>0. h \in Seq(Lines) /\ a \in Seq(Lines)
  BY Kinds
<1>1. Len(h) \in Nat /\ Len(a) \in Nat /\ Len(r) = Len(h) + Len(a)
  BY <1>0, Joined
<1>2. Len(h) + 1 \in D
  <2>1. CASE a = <<>>
    BY <1>1, <2>1, EmptySeq
  <2>2. CASE a # <<>>
    <3>1. 1 \in 1..Len(a)
      BY <2>2, EmptySeq
    <3>2. r[Len(h) + 1] = a[1]
      BY <1>0, <3>1, Joined
    <3> QED BY <1>1, <2>2, <3>1, <3>2 DEF StartsScope, IsScoped
  <2> QED BY <2>1, <2>2
<1>3. \A i \in D : Len(h) + 1 <= i
  <2> SUFFICES ASSUME NEW i \in 1..Len(r), IsScoped(r[i]) PROVE Len(h) + 1 <= i
    BY <1>1
  <2>1. \A j \in 1..Len(h) : h[j] # "host"
    BY ElementOfSeq DEF Loose
  <2>2. i \notin 1..Len(h)
    BY <1>0, <2>1, Joined DEF IsScoped
  <2> QED BY <1>1, <2>2
<1>4. D \subseteq Int
  BY <1>1
<1> HIDE DEF D
<1>5. Min(D) = Len(h) + 1
  BY <1>2, <1>3, <1>4, Extrema
<1> QED BY <1>5 DEF Insertion, D

-----------------------------------------------------------------------------
(* The file that install_managed_include writes. *)

Above(b) == IF b = <<>> THEN <<>> ELSE b \o <<"blank">>

Below(a) == IF a = <<>> THEN <<>> ELSE <<"blank">> \o a

(* b is what is to come before the Include line, a what is to follow it. *)
Parts(b, a) ==
  /\ b \in Seq(Loose) /\ EndsInText(b)
  /\ a \in Seq(Kept) /\ StartsScope(a)

LEMMA InstalledValue ==
  ASSUME NEW s, NEW b, NEW a, Parts(b, a), NEW z \in Blanks,
         RemoveIntegration(s) = (b \o z) \o a
  PROVE  Installed(s) = Above(b) \o <<"managed">> \o Below(a)
<1> DEFINE h == b \o z
           rest == RemoveIntegration(s)
<1>1. h \in Seq(Loose)
  <2>1. {"blank"} \subseteq Loose
    BY DEF Loose, Kept, Lines
  <2>2. z \in Seq(Loose)
    BY <2>1, SeqMonotonic DEF Blanks
  <2> QED BY <2>2, ConcatProperties DEF Parts
<1>2. h \in Seq(Lines) /\ a \in Seq(Lines) /\ b \in Seq(Lines) /\ rest = h \o a
  BY <1>1, Kinds DEF Parts
<1>3. TrimEnd(h) = b
  BY <1>2, TrimValue DEF Parts
<1> HIDE DEF h, rest
<1>4. Insertion(rest) = Len(h) + 1
  BY <1>1, <1>2, InsertionValue DEF Parts
<1>5. Len(h) + 1 - 1 = Len(h)
  BY <1>2, LenProperties
<1>6. /\ SubSeq(rest, 1, Insertion(rest) - 1) = h
      /\ SubSeq(rest, Insertion(rest), Len(rest)) = a
  BY <1>2, <1>4, <1>5, FrontOfConcat
<1> QED BY <1>3, <1>6 DEF Installed, Above, Below, rest

(* Every rewrite writes such a file. *)
LEMMA InstalledParts ==
  ASSUME NEW s \in Seq(Lines)
  PROVE  \E b, a : \E z \in Blanks :
           /\ Parts(b, a)
           /\ RemoveIntegration(s) = (b \o z) \o a
           /\ Installed(s) = Above(b) \o <<"managed">> \o Below(a)
<1>1. PICK h \in Seq(Loose), a \in Seq(Kept) :
        StartsScope(a) /\ RemoveIntegration(s) = h \o a
  BY RemoveType, ScopeSplit
<1>2. PICK b \in Seq(Loose), z \in Blanks : EndsInText(b) /\ h = b \o z
  BY TrimSplit
<1>3. Parts(b, a)
  BY <1>1, <1>2 DEF Parts
<1> QED BY ZenonT(30), <1>1, <1>2, <1>3, InstalledValue

LEMMA PartsType ==
  ASSUME NEW b, NEW a, Parts(b, a)
  PROVE  /\ b \in Seq(Lines) /\ a \in Seq(Lines)
         /\ Above(b) \in Seq(Loose) /\ Below(a) \in Seq(Kept)
<1>1. "blank" \in Loose /\ "blank" \in Kept
  BY DEF Loose, Kept, Lines
<1>2. <<"blank">> \in Seq(Loose) /\ <<"blank">> \in Seq(Kept)
  BY <1>1
<1>3. Above(b) \in Seq(Loose)
  BY <1>2, ConcatProperties, EmptySeq DEF Above, Parts
<1>4. Below(a) \in Seq(Kept)
  BY <1>2, ConcatProperties, EmptySeq DEF Below, Parts
<1> QED BY <1>3, <1>4, Kinds DEF Parts

(* The next rewrite takes the Include line out again, and with it nothing    *)
(* but the empty lines around it.                                            *)
LEMMA RemoveInstalled ==
  ASSUME NEW b, NEW a, Parts(b, a)
  PROVE  RemoveIntegration(Above(b) \o <<"managed">> \o Below(a)) =
           Above(b) \o Below(a)
<1> DEFINE x == Above(b)
           y == Below(a)
           t == x \o <<"managed">>
<1>1. x \in Seq(Loose) /\ y \in Seq(Kept)
  BY PartsType
<1> HIDE DEF x, y
<1>2. x \in Seq(Lines) /\ x \in Seq(Kept) /\ y \in Seq(Lines)
  BY <1>1, Kinds
<1>3. \A i \in 1..Len(x) : x[i] # "begin"
  BY <1>1, ElementOfSeq DEF Loose, Kept
<1>4. RemoveIntegration(x) = x
  <2>1. <<>> \in Seq(Lines) /\ \A i \in 1..Len(<<>>) : <<>>[i] # "begin"
    BY EmptySeq
  <2>2. RemoveIntegration(<<>> \o x) = <<>> \o x
    BY <1>2, <2>1, RemoveConcat, EmptyFile
  <2> QED BY <1>2, <2>2, ConcatEmptySeq
<1>5. "managed" \in Lines
  BY DEF Lines
<1>6. t = Append(x, "managed") /\ t \in Seq(Lines)
  BY <1>2, <1>5, AppendIsConcat, AppendProperties
<1>7. RemoveIntegration(t) = x
  BY <1>2, <1>4, <1>5, <1>6, RemoveAppend, RemovedLast
<1>8. \A i \in 1..Len(t) : t[i] # "begin"
  <2>1. Len(t) = Len(x) + 1 /\ Len(x) \in Nat /\ t[Len(x) + 1] = "managed"
    BY <1>2, <1>5, <1>6, AppendProperties, LenProperties
  <2>2. \A i \in 1..Len(x) : t[i] = x[i]
    BY <1>2, <1>5, <1>6, AppendProperties
  <2> QED BY <1>3, <2>1, <2>2
<1> HIDE DEF t
<1>9. RemoveIntegration(t \o y) = x \o y
  BY <1>1, <1>6, <1>7, <1>8, RemoveConcat
<1> QED BY <1>9 DEF t, x, y

(* So it writes the same file. *)
LEMMA InstalledAgain ==
  ASSUME NEW b, NEW a, Parts(b, a)
  PROVE  LET t == Above(b) \o <<"managed">> \o Below(a) IN Installed(t) = t
<1> DEFINE t == Above(b) \o <<"managed">> \o Below(a)
           bl == <<"blank">>
<1>1. /\ bl \in Seq(Lines) /\ bl \in Blanks /\ <<>> \in Blanks /\ <<>> \in Seq(Lines)
      /\ bl \o bl \in Blanks /\ bl \o bl \in Seq(Lines)
  <2>1. "blank" \in Lines
    BY DEF Lines
  <2> QED BY <2>1, EmptySeq, ConcatProperties DEF Blanks
<1>2. b \in Seq(Lines) /\ a \in Seq(Lines)
  BY PartsType
<1>3. PICK z \in Blanks : Above(b) \o Below(a) = (b \o z) \o a
  <2> HIDE DEF bl
  <2>1. CASE b = <<>> /\ a = <<>>
    <3>1. (b \o <<>>) \o a = <<>> /\ Above(b) \o Below(a) = <<>>
      BY <1>1, <2>1, ConcatEmptySeq DEF Above, Below
    <3> QED BY <1>1, <3>1
  <2>2. CASE b = <<>> /\ a # <<>>
    <3>1. bl \o a \in Seq(Lines)
      BY <1>1, <1>2, ConcatProperties
    <3>2. Above(b) \o Below(a) = bl \o a
      BY <2>2, <3>1, ConcatEmptySeq DEF Above, Below, bl
    <3>3. b \o bl = bl
      BY <1>1, <2>2, ConcatEmptySeq
    <3> QED BY <1>1, <3>2, <3>3
  <2>3. CASE b # <<>> /\ a = <<>>
    <3>1. b \o bl \in Seq(Lines)
      BY <1>1, <1>2, ConcatProperties
    <3> QED BY <1>1, <2>3 DEF Above, Below, bl
  <2>4. CASE b # <<>> /\ a # <<>>
    <3>1. b \o bl \in Seq(Lines)
      BY <1>1, <1>2, ConcatProperties
    <3>2. Above(b) \o Below(a) = (b \o bl) \o (bl \o a)
      BY <2>4 DEF Above, Below, bl
    <3>3. (b \o bl) \o (bl \o a) = ((b \o bl) \o bl) \o a
      BY <1>1, <1>2, <3>1, ConcatAssociative
    <3>4. (b \o bl) \o bl = b \o (bl \o bl)
      BY <1>1, <1>2, ConcatAssociative
    <3> QED BY <1>1, <3>2, <3>3, <3>4
  <2> QED BY <2>1, <2>2, <2>3, <2>4
<1>4. RemoveIntegration(t) = (b \o z) \o a
  BY <1>3, RemoveInstalled
<1> HIDE DEF t
<1>5. Installed(t) = Above(b) \o <<"managed">> \o Below(a)
  BY <1>4, InstalledValue
<1> QED BY <1>5 DEF t

(* The user's lines are those of the parts. *)
LEMMA UserLinesOfParts ==
  ASSUME NEW b, NEW a, Parts(b, a), NEW z \in Blanks
  PROVE  UserLines(Above(b) \o <<"managed">> \o Below(a)) =
           UserLines((b \o z) \o a)
<1>1. \A w \in Blanks : UserLines(w) = <<>>
  <2> DEFINE T == {w \in Blanks : UserLines(w) = <<>>}
  <2>1. <<>> \in T
    BY EmptyFile, EmptySeq DEF Blanks
  <2>2. ASSUME NEW w \in Blanks, NEW e \in {"blank"}, w \in T
        PROVE  Append(w, e) \in T
    <3>1. w \in Seq(Lines) /\ e \in Lines /\ e \notin UserKinds
      BY BlanksAreLines DEF Lines, UserKinds
    <3>2. Append(w, e) \in Blanks
      BY AppendProperties DEF Blanks
    <3> QED BY <2>2, <3>1, <3>2, UserLinesAppend
  <2>3. Blanks \subseteq T
    <3> HIDE DEF T
    <3> QED BY <2>1, <2>2, SeqSetInduction DEF Blanks
  <2> QED BY <2>3
<1>2. b \in Seq(Lines) /\ a \in Seq(Lines) /\ z \in Seq(Lines)
  BY PartsType, BlanksAreLines
<1>3. "blank" \in Lines /\ "managed" \in Lines /\ "managed" \notin UserKinds
  BY DEF Lines, UserKinds
<1>4. <<"blank">> \in Blanks /\ <<"blank">> \in Seq(Lines) /\ <<"managed">> \in Seq(Lines)
  BY <1>3 DEF Blanks
<1>5. UserLines(<<"managed">>) = <<>>
  <2>1. <<"managed">> = Append(<<>>, "managed")
    OBVIOUS
  <2> QED BY <1>3, <2>1, EmptySeq, EmptyFile, UserLinesAppend
<1>6. ASSUME NEW u \in Seq(Lines), NEW v \in Seq(Lines), UserLines(v) = <<>>
      PROVE  /\ UserLines(u \o v) = UserLines(u) /\ u \o v \in Seq(Lines)
             /\ UserLines(v \o u) = UserLines(u) /\ v \o u \in Seq(Lines)
  <2>1. UserLines(u) \in Seq(Lines)
    BY UserLinesType
  <2>2. UserLines(u) \o <<>> = UserLines(u) /\ <<>> \o UserLines(u) = UserLines(u)
    BY <2>1, ConcatEmptySeq
  <2> QED BY <1>6, <2>2, UserLinesConcat, ConcatProperties
<1>7. UserLines(Above(b)) = UserLines(b) /\ Above(b) \in Seq(Lines)
  BY <1>1, <1>2, <1>4, <1>6 DEF Above
<1>8. UserLines(Below(a)) = UserLines(a) /\ Below(a) \in Seq(Lines)
  BY <1>1, <1>2, <1>4, <1>6 DEF Below
<1>9. UserLines(b \o z) = UserLines(b) /\ b \o z \in Seq(Lines)
  BY <1>1, <1>2, <1>6
<1>10. UserLines((b \o z) \o a) = UserLines(b) \o UserLines(a)
  BY <1>2, <1>9, UserLinesConcat
<1>11. /\ UserLines(Above(b) \o <<"managed">>) = UserLines(b)
       /\ Above(b) \o <<"managed">> \in Seq(Lines)
  BY <1>4, <1>5, <1>6, <1>7
<1> QED BY <1>8, <1>10, <1>11, UserLinesConcat

(* Where the kinds of lines are in the file. *)
LEMMA InstalledLines ==
  ASSUME NEW b, NEW a, Parts(b, a)
  PROVE  LET t == Above(b) \o <<"managed">> \o Below(a)
             m == Len(Above(b)) + 1
         IN  /\ t \in Seq(Lines)
             /\ m \in 1..Len(t) /\ t[m] = "managed"
             /\ \A i \in 1..Len(t) : i < m => t[i] \in Loose
             /\ \A i \in 1..Len(t) : i > m => t[i] \in Kept
<1> DEFINE x == Above(b)
           y == Below(a)
           u == x \o <<"managed">>
           t == u \o y
           m == Len(x) + 1
<1>1. x \in Seq(Loose) /\ y \in Seq(Kept) /\ x \in Seq(Lines) /\ y \in Seq(Lines)
  BY PartsType, Kinds
<1>2. <<"managed">> \in Seq(Lines) /\ Len(<<"managed">>) = 1 /\ <<"managed">>[1] = "managed"
  BY DEF Lines
<1> HIDE DEF x, y
<1>3. /\ u \in Seq(Lines) /\ Len(x) \in Nat /\ Len(u) = m /\ u[m] = "managed"
      /\ \A i \in 1..Len(x) : u[i] = x[i]
  <2>1. "managed" \in Lines
    BY DEF Lines
  <2>2. u = Append(x, "managed")
    BY <1>1, <2>1, AppendIsConcat
  <2> QED BY <1>1, <2>1, <2>2, AppendProperties, LenProperties
<1> HIDE DEF u, m
<1>4. /\ t \in Seq(Lines) /\ Len(y) \in Nat /\ Len(t) = m + Len(y)
      /\ \A i \in 1..m : t[i] = u[i]
      /\ \A i \in 1..Len(t) : i \in 1..m \/ (i - m \in 1..Len(y) /\ t[i] = y[i - m])
  BY <1>1, <1>3, Joined
<1>5. \A i \in 1..Len(x) : x[i] \in Loose
  BY <1>1, ElementOfSeq
<1>6. \A i \in 1..Len(y) : y[i] \in Kept
  BY <1>1, ElementOfSeq
<1> HIDE DEF t
<1>7. m \in 1..Len(t) /\ t[m] = "managed"
  BY <1>3, <1>4 DEF m
<1>8. \A i \in 1..Len(t) : i < m => t[i] \in Loose
  BY <1>3, <1>4, <1>5 DEF m
<1>9. \A i \in 1..Len(t) : i > m => t[i] \in Kept
  BY <1>3, <1>4, <1>6 DEF m
<1> QED BY <1>4, <1>7, <1>8, <1>9 DEF t, u, x, y, m

(* Whatever the file held: the rewrite leaves one Include line in it, before *)
(* the first scope it knows, no legacy block, and a file that is rewritten   *)
(* to itself, so that syncs do not make it grow.                             *)
THEOREM RewriteIsStable ==
  ASSUME NEW s \in Seq(Lines)
  PROVE  /\ Installed(s) \in Seq(Lines)
         /\ IncludedOnce(Installed(s))
         /\ IncludedBefore(Installed(s), {"host"})
         /\ NoneClaimed(Installed(s))
         /\ Installed(Installed(s)) = Installed(s)
<1>1. PICK b, a : Parts(b, a) /\ Installed(s) = Above(b) \o <<"managed">> \o Below(a)
  BY InstalledParts
<1> DEFINE t == Above(b) \o <<"managed">> \o Below(a)
           m == Len(Above(b)) + 1
<1>2. /\ t \in Seq(Lines) /\ m \in 1..Len(t) /\ t[m] = "managed"
      /\ \A i \in 1..Len(t) : i < m => t[i] \in Loose
      /\ \A i \in 1..Len(t) : i > m => t[i] \in Kept
  BY <1>1, InstalledLines
<1>3. Installed(t) = t
  BY <1>1, InstalledAgain
<1> HIDE DEF t, m
<1>4. \A i \in 1..Len(t) : t[i] # "managed" => t[i] \in Kept
  BY <1>2 DEF Loose
<1>5. {i \in 1..Len(t) : t[i] = "managed"} = {m}
  BY <1>2 DEF Loose, Kept
<1>6. IncludedOnce(t)
  BY <1>5, FS_Singleton DEF IncludedOnce
<1>7. IncludedBefore(t, {"host"})
  <2>1. ASSUME NEW i \in 1..Len(t), NEW j \in 1..Len(t), t[i] = "host", t[j] = "managed"
        PROVE  j < i
    <3>1. j = m
      BY <1>5, <2>1
    <3>2. ~(i < m)
      BY <1>2, <2>1 DEF Loose
    <3>3. i # m
      BY <1>2, <2>1
    <3> QED BY <1>2, <3>1, <3>2, <3>3
  <2> QED BY <2>1 DEF IncludedBefore
<1>8. NoneClaimed(t)
  <2>1. \A i \in 1..Len(t) : t[i] # "begin"
    BY <1>4 DEF Kept
  <2>2. \A i \in 1..Len(t) : \A k \in 1..i : k \in 1..Len(t)
    BY <1>2
  <2> QED BY <2>1, <2>2 DEF NoneClaimed, InLegacyBlock
<1> QED BY <1>1, <1>2, <1>3, <1>6, <1>7, <1>8 DEF t

(* And it keeps the user's lines in their order, all that do not lie in what *)
(* the code takes for a legacy block: no file is an exception.               *)
THEOREM RewriteKeepsTheUsers ==
  ASSUME NEW s \in Seq(Lines)
  PROVE  Settles(s, Installed(s))
<1>1. PICK b, a : \E z \in Blanks :
        /\ Parts(b, a)
        /\ RemoveIntegration(s) = (b \o z) \o a
        /\ Installed(s) = Above(b) \o <<"managed">> \o Below(a)
  BY InstalledParts
<1>2. UserLines(Installed(s)) = UserLines(RemoveIntegration(s))
  BY <1>1, UserLinesOfParts
<1>3. UserLines(Installed(s)) = UnclaimedLines(s)
  BY <1>2, RemoveKeepsUnclaimed
<1> QED BY <1>3, RewriteIsStable DEF Settles

(* So a file without a line of the user's in a legacy block, as every file   *)
(* that the code has written is, keeps all of them.                          *)
THEOREM RewriteKeepsAll ==
  ASSUME NEW s \in Seq(Lines), NoneClaimed(s)
  PROVE  UserLines(Installed(s)) = UserLines(s)
<1>1. {i \in 1..Len(s) : s[i] \in UserKinds /\ ~InLegacyBlock(s, i)} =
        {i \in 1..Len(s) : s[i] \in UserKinds}
  BY DEF NoneClaimed
<1>2. UnclaimedLines(s) = UserLines(s)
  BY <1>1 DEF UnclaimedLines, UserLines
<1> QED BY <1>2, RewriteKeepsTheUsers DEF Settles
=============================================================================
