-------------------------- MODULE CloudInitProofs --------------------------
(***************************************************************************)
(* merge_yaml, of every user's file into every defaults, of mappings that  *)
(* nest twice and have settings: the result has what the file sets and the *)
(* defaults that no setting of the file hides.                             *)
(***************************************************************************)
EXTENDS CloudInit, TLAPS

(* A leaf of the document d, which is at k in the one above it.              *)
LeafAt(d, k, l) ==
  \/ ~IsMap(d) /\ l = <<k, "", d.value>>
  \/ IsMap(d) /\ \E j \in DOMAIN d.at : l = <<k, j, d.at[j].value>>

LEMMA InLeaves ==
  ASSUME NEW y, NEW l
  PROVE  l \in Leaves(y) <=> \E k \in DOMAIN y.at : LeafAt(y.at[k], k, l)
  <1> DEFINE maps == {k \in DOMAIN y.at : IsMap(y.at[k])}
             top  == {<<k, "", y.at[k].value>> :
                        k \in {j \in DOMAIN y.at : ~IsMap(y.at[j])}}
             of(k) == {<<k, j, y.at[k].at[j].value>> : j \in DOMAIN y.at[k].at}
  <1>1. Leaves(y) = top \cup UNION {of(k) : k \in maps}
    BY DEF Leaves
  <1>2. l \in top <=> \E k \in DOMAIN y.at :
                        ~IsMap(y.at[k]) /\ l = <<k, "", y.at[k].value>>
    OBVIOUS
  <1>3. ASSUME NEW k
        PROVE  l \in of(k) <=>
                 \E j \in DOMAIN y.at[k].at : l = <<k, j, y.at[k].at[j].value>>
    OBVIOUS
  <1> HIDE DEF top, of
  <1>4. l \in UNION {of(k) : k \in maps} <=> \E k \in maps : l \in of(k)
    OBVIOUS
  <1> QED
    BY <1>1, <1>2, <1>3, <1>4 DEF LeafAt

LEMMA LeafPath ==
  ASSUME NEW d, NEW k, NEW l, LeafAt(d, k, l)
  PROVE  /\ l[1] = k
         /\ ~IsMap(d) => l[2] = ""
         /\ IsMap(d) => l[2] \in DOMAIN d.at
  <1>1. CASE ~IsMap(d)
    <2>1. l = <<k, "", d.value>>
      BY <1>1 DEF LeafAt
    <2> QED
      BY <1>1, <2>1
  <1>2. CASE IsMap(d)
    <2>1. PICK j \in DOMAIN d.at : l = <<k, j, d.at[j].value>>
      BY <1>2 DEF LeafAt
    <2> QED
      BY <1>2, <2>1
  <1> QED
    BY <1>1, <1>2

LEMMA LeafThere ==
  ASSUME NEW d, NEW k
  PROVE  /\ ~IsMap(d) => \E l : LeafAt(d, k, l) /\ l[2] = ""
         /\ IsMap(d) =>
              \A j \in DOMAIN d.at : \E l : LeafAt(d, k, l) /\ l[2] = j
  <1>1. ASSUME ~IsMap(d) PROVE \E l : LeafAt(d, k, l) /\ l[2] = ""
    <2>1. LeafAt(d, k, <<k, "", d.value>>)
      BY <1>1 DEF LeafAt
    <2>2. <<k, "", d.value>>[2] = ""
      OBVIOUS
    <2> QED
      BY <2>1, <2>2
  <1>2. ASSUME IsMap(d), NEW j \in DOMAIN d.at
        PROVE  \E l : LeafAt(d, k, l) /\ l[2] = j
    <2>1. LeafAt(d, k, <<k, j, d.at[j].value>>)
      BY <1>2 DEF LeafAt
    <2>2. <<k, j, d.at[j].value>>[2] = j
      OBVIOUS
    <2> QED
      BY <2>1, <2>2
  <1> QED
    BY <1>1, <1>2

LEMMA MergeAt ==
  ASSUME NEW t, NEW s
  PROVE  /\ DOMAIN MergeYaml(t, s).at = DOMAIN t.at \cup DOMAIN s.at
         /\ \A k \in DOMAIN t.at \cup DOMAIN s.at :
              MergeYaml(t, s).at[k] =
                IF k \notin DOMAIN s.at THEN t.at[k]
                ELSE IF k \in DOMAIN t.at /\ IsMap(t.at[k]) /\ IsMap(s.at[k])
                THEN MergeFlat(t.at[k], s.at[k])
                ELSE s.at[k]
  BY DEF MergeYaml, Map

(* Two mappings merged: what the one sets, and of the other what it does not. *)
LEMMA MergeFlatLeaves ==
  ASSUME NEW t, NEW s, NEW k, NEW l, IsMap(t), IsMap(s)
  PROVE  LeafAt(MergeFlat(t, s), k, l) <=>
           \/ LeafAt(s, k, l)
           \/ LeafAt(t, k, l) /\ l[2] \notin DOMAIN s.at
  <1> DEFINE y == MergeFlat(t, s)
  <1>1. /\ IsMap(y) /\ DOMAIN y.at = DOMAIN t.at \cup DOMAIN s.at
        /\ \A j \in DOMAIN t.at \cup DOMAIN s.at :
             y.at[j] = IF j \in DOMAIN s.at THEN s.at[j] ELSE t.at[j]
    BY DEF MergeFlat, Map, IsMap
  <1> HIDE DEF y
  <1>2. ASSUME LeafAt(y, k, l)
        PROVE  LeafAt(s, k, l) \/ (LeafAt(t, k, l) /\ l[2] \notin DOMAIN s.at)
    <2>1. PICK j \in DOMAIN y.at : l = <<k, j, y.at[j].value>>
      BY <1>1, <1>2 DEF LeafAt
    <2>2. CASE j \in DOMAIN s.at
      BY <1>1, <2>1, <2>2 DEF LeafAt
    <2>3. CASE j \notin DOMAIN s.at
      <3>1. j \in DOMAIN t.at /\ l = <<k, j, t.at[j].value>>
        BY <1>1, <2>1, <2>3
      <3>2. l[2] = j
        BY <3>1
      <3> QED
        BY <2>3, <3>1, <3>2 DEF LeafAt
    <2> QED
      BY <2>2, <2>3
  <1>3. ASSUME LeafAt(s, k, l) PROVE LeafAt(y, k, l)
    <2>1. PICK j \in DOMAIN s.at : l = <<k, j, s.at[j].value>>
      BY <1>3 DEF LeafAt
    <2> QED
      BY <1>1, <2>1 DEF LeafAt
  <1>4. ASSUME LeafAt(t, k, l), l[2] \notin DOMAIN s.at PROVE LeafAt(y, k, l)
    <2>1. PICK j \in DOMAIN t.at : l = <<k, j, t.at[j].value>>
      BY <1>4 DEF LeafAt
    <2>2. l[2] = j
      BY <2>1
    <2>3. l = <<k, j, y.at[j].value>>
      BY <1>1, <1>4, <2>1, <2>2
    <2> QED
      BY <1>1, <2>1, <2>3 DEF LeafAt
  <1> QED
    BY <1>2, <1>3, <1>4 DEF y

(* When a setting hides the default l: one at l's first key, k.              *)
Hides(s, l) == \E m \in Leaves(s) : Overrides(m, l)

HidesAt(s, k, l) ==
  /\ k \in DOMAIN s.at
  /\ \E m : /\ LeafAt(s.at[k], k, m)
            /\ m[2] = l[2] \/ m[2] = "" \/ l[2] = ""

LEMMA Hidden ==
  ASSUME NEW s, NEW k, NEW l
  PROVE  l[1] = k => (Hides(s, l) <=> HidesAt(s, k, l))
  <1> DEFINE same(m) == m[2] = l[2] \/ m[2] = "" \/ l[2] = ""
  <1>1. ASSUME k \in DOMAIN s.at, NEW m, LeafAt(s.at[k], k, m)
        PROVE  m[1] = k /\ m \in Leaves(s)
    BY <1>1, LeafPath, InLeaves
  <1>2. ASSUME NEW m \in Leaves(s)
        PROVE  m[1] \in DOMAIN s.at /\ LeafAt(s.at[m[1]], m[1], m)
    <2>1. PICK j \in DOMAIN s.at : LeafAt(s.at[j], j, m)
      BY InLeaves
    <2> QED
      BY <2>1, LeafPath
  <1>3. \A m : Overrides(m, l) <=> l[1] = m[1] /\ same(m)
    BY DEF Overrides
  <1> HIDE DEF same
  <1>4. l[1] = k =>
          ((\E m \in Leaves(s) : Overrides(m, l)) <=>
             k \in DOMAIN s.at /\ \E m : LeafAt(s.at[k], k, m) /\ same(m))
    BY <1>1, <1>2, <1>3
  <1> QED
    BY <1>4 DEF same, Hides, HidesAt

(* The leaves at k of the merge of t and s, both with mappings that have     *)
(* settings: those of s, and those of t that nothing in s hides.             *)
LEMMA LayeredAt ==
  ASSUME NEW t, NEW s, IsDocument(t), IsDocument(s),
         NEW k \in DOMAIN t.at \cup DOMAIN s.at, NEW l
  PROVE  LeafAt(MergeYaml(t, s).at[k], k, l) <=>
           \/ k \in DOMAIN s.at /\ LeafAt(s.at[k], k, l)
           \/ /\ k \in DOMAIN t.at /\ LeafAt(t.at[k], k, l)
              /\ ~Hides(s, l)
  <1>1. LeafAt(t.at[k], k, l) => l[1] = k
    BY LeafPath
  <1>2. CASE k \notin DOMAIN s.at
    <2>1. MergeYaml(t, s).at[k] = t.at[k] /\ k \in DOMAIN t.at
      BY <1>2, MergeAt
    <2> QED
      BY <1>1, <1>2, <2>1, Hidden DEF HidesAt
  <1>3. CASE k \in DOMAIN s.at /\ k \notin DOMAIN t.at
    <2>1. MergeYaml(t, s).at[k] = s.at[k]
      BY <1>3, MergeAt
    <2> QED
      BY <1>3, <2>1
  <1>4. CASE k \in DOMAIN s.at /\ k \in DOMAIN t.at
    <2>1. CASE IsMap(s.at[k]) /\ IsMap(t.at[k])
      <3>1. MergeYaml(t, s).at[k] = MergeFlat(t.at[k], s.at[k])
        BY <1>4, <2>1, MergeAt
      <3>2. ASSUME LeafAt(t.at[k], k, l)
            PROVE  Hides(s, l) <=> l[2] \in DOMAIN s.at[k].at
        <4>1. l[2] \in DOMAIN t.at[k].at /\ l[1] = k
          BY <2>1, <3>2, LeafPath
        <4>2. l[2] # "" /\ "" \notin DOMAIN s.at[k].at
          BY <1>4, <2>1, <4>1 DEF IsDocument
        <4>3. \A m : LeafAt(s.at[k], k, m) => m[2] \in DOMAIN s.at[k].at
          BY <2>1, LeafPath
        <4>4. \A j \in DOMAIN s.at[k].at : \E m : LeafAt(s.at[k], k, m) /\ m[2] = j
          BY <2>1, LeafThere
        <4>5. (\E m : /\ LeafAt(s.at[k], k, m)
                      /\ m[2] = l[2] \/ m[2] = "" \/ l[2] = "")
                <=> l[2] \in DOMAIN s.at[k].at
          BY <4>2, <4>3, <4>4
        <4>6. l[1] = k
          BY <1>1, <3>2
        <4>7. Hides(s, l) <=> HidesAt(s, k, l)
          BY <4>6, Hidden
        <4> QED
          BY <1>4, <4>5, <4>7 DEF HidesAt
      <3> QED
        BY <1>4, <2>1, <3>1, <3>2, MergeFlatLeaves
    <2>2. CASE ~(IsMap(s.at[k]) /\ IsMap(t.at[k]))
      <3>1. MergeYaml(t, s).at[k] = s.at[k]
        BY <1>4, <2>2, MergeAt
      <3>2. ASSUME LeafAt(t.at[k], k, l)
            PROVE  Hides(s, l)
        <4>1. CASE ~IsMap(s.at[k])
          <5>1. PICK m : LeafAt(s.at[k], k, m) /\ m[2] = ""
            BY <4>1, LeafThere
          <5> QED
            BY <1>1, <1>4, <3>2, <5>1, Hidden DEF HidesAt
        <4>2. CASE IsMap(s.at[k])
          <5>1. l[2] = ""
            BY <2>2, <3>2, <4>2, LeafPath
          <5>2. PICK j \in DOMAIN s.at[k].at : TRUE
            BY <1>4, <4>2 DEF IsDocument
          <5>3. PICK m : LeafAt(s.at[k], k, m)
            BY <4>2, <5>2, LeafThere
          <5> QED
            BY <1>1, <1>4, <3>2, <5>1, <5>3, Hidden DEF HidesAt
        <4> QED
          BY <4>1, <4>2
      <3> QED
        BY <1>4, <3>1, <3>2
    <2> QED
      BY <2>1, <2>2
  <1> QED
    BY <1>2, <1>3, <1>4

(* merge_yaml layers the user's file over the defaults. *)
THEOREM MergeLayers ==
  ASSUME NEW t, NEW s, IsDocument(t), IsDocument(s)
  PROVE  Layered(MergeYaml(t, s), t, s)
  <1>1. ASSUME NEW l
        PROVE  l \in Leaves(MergeYaml(t, s)) <=>
                 l \in Leaves(s) \/ (l \in Leaves(t) /\ ~Hides(s, l))
    <2>1. l \in Leaves(MergeYaml(t, s)) <=>
            \E k \in DOMAIN t.at \cup DOMAIN s.at :
              LeafAt(MergeYaml(t, s).at[k], k, l)
      BY InLeaves, MergeAt
    <2> QED
      BY <2>1, LayeredAt, InLeaves
  <1>2. Leaves(MergeYaml(t, s)) =
          Leaves(s) \cup {l \in Leaves(t) : ~Hides(s, l)}
    BY <1>1
  <1> QED
    BY <1>2 DEF Layered, Hides

LEMMA DefaultsAreDocument ==
  ASSUME NEW k
  PROVE  IsDocument(DefaultUserData(k))
  <1> DEFINE t == DefaultUserData(k)
  <1>1. /\ IsMap(t)
        /\ DOMAIN t.at = {"users", "ssh_pwauth", "disable_root", "growpart",
                         "resize_rootfs"}
    BY DEF DefaultUserData, Map, IsMap
  <1>2. \A j \in DOMAIN t.at : IsMap(t.at[j]) => j = "growpart"
    BY <1>1 DEF DefaultUserData, Map, Leaf, IsMap
  <1>3. DOMAIN t.at["growpart"].at = {"mode", "devices"}
    BY DEF DefaultUserData, Map
  <1>4. {"mode", "devices"} # {} /\ "" \notin {"mode", "devices"}
    OBVIOUS
  <1> HIDE DEF t
  <1> QED
    <2>1. IsDocument(t)
      BY <1>1, <1>2, <1>3, <1>4 DEF IsDocument
    <2> QED
      BY <2>1 DEF t

(* The key that default_user_data puts in survives merge_yaml, if the user's *)
(* file has no users.                                                        *)
LEMMA KeySurvivesMerge ==
  ASSUME NEW k, NEW s, "users" \notin DOMAIN s.at
  PROVE  Authorized(MergeYaml(DefaultUserData(k), s)) = {k}
  <1> DEFINE t == DefaultUserData(k)
             y == MergeYaml(t, s)
  <1>1. "users" \in DOMAIN t.at /\ t.at["users"] = Leaf(<<"ubuntu", k>>)
    BY DEF DefaultUserData, Map
  <1>2. y.at["users"] = t.at["users"]
    BY <1>1 DEF MergeYaml, Map
  <1>3. y.at["users"].value = <<"ubuntu", k>>
    BY <1>1, <1>2 DEF Leaf
  <1> QED
    BY <1>3 DEF Authorized
=============================================================================
