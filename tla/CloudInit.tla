----------------------------- MODULE CloudInit -----------------------------
(***************************************************************************)
(* The user-data of a seed image: hardpass's defaults, with the user's     *)
(* YAML merged over them.  A document is a tree of mappings; sequences are *)
(* leaves, because merge_yaml replaces them whole.                         *)
(***************************************************************************)

Leaf(v) == [kind |-> "leaf", value |-> v]
Map(f)  == [kind |-> "map", at |-> f]
IsMap(y) == y.kind = "map"

(* default_user_data.  The users are a sequence with the key in it. *)
DefaultUserData(key) ==
  Map([users         |-> Leaf(<<"ubuntu", key>>),
       ssh_pwauth    |-> Leaf(<<"false">>),
       disable_root  |-> Leaf(<<"true">>),
       growpart      |-> Map([mode    |-> Leaf(<<"auto">>),
                              devices |-> Leaf(<<"/">>)]),
       resize_rootfs |-> Leaf(<<"true">>)])

(* Mutant: the override replaces a mapping it shares with the defaults. *)
ReplaceMap(t, s) == s

(* merge_yaml where the target holds no mapping below: the source wins. *)
MergeFlat(t, s) ==
  Map([k \in DOMAIN t.at \cup DOMAIN s.at |->
         IF k \in DOMAIN s.at THEN s.at[k] ELSE t.at[k]])

(* merge_yaml of an override into the defaults, whose mappings nest twice:   *)
(* a mapping over a mapping is merged, everything else replaces.             *)
MergeYaml(t, s) ==
  Map([k \in DOMAIN t.at \cup DOMAIN s.at |->
         IF k \notin DOMAIN s.at THEN t.at[k]
         ELSE IF k \in DOMAIN t.at /\ IsMap(t.at[k]) /\ IsMap(s.at[k])
         THEN MergeFlat(t.at[k], s.at[k])
         ELSE s.at[k]])

(* The keys a guest that boots from a seed lets in as "ubuntu". *)
Authorized(y) ==
  IF y.at["users"].value[1] = "ubuntu" THEN {y.at["users"].value[2]} ELSE {}

-----------------------------------------------------------------------------
(* A document whose mappings below the top have settings. *)
IsDocument(y) ==
  /\ IsMap(y)
  /\ \A k \in DOMAIN y.at :
       IsMap(y.at[k]) => DOMAIN y.at[k].at # {} /\ "" \notin DOMAIN y.at[k].at

(* The reference: a document as the set of its leaves with their paths.      *)
Leaves(y) ==
  {<<k, "", y.at[k].value>> : k \in {j \in DOMAIN y.at : ~IsMap(y.at[j])}}
    \cup UNION {{<<k, j, y.at[k].at[j].value>> : j \in DOMAIN y.at[k].at} :
                  k \in {j \in DOMAIN y.at : IsMap(y.at[j])}}

(* Every setting of the override is there; a default is there unless the     *)
(* override has a setting at, above or below its path.                       *)
Overrides(l, m) == l[1] = m[1] /\ (l[2] = m[2] \/ l[2] = "" \/ m[2] = "")

Layered(y, t, s) ==
  Leaves(y) =
    Leaves(s) \cup {m \in Leaves(t) : ~\E l \in Leaves(s) : Overrides(l, m)}
=============================================================================
