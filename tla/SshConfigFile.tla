--------------------------- MODULE SshConfigFile ---------------------------
(***************************************************************************)
(* The rewrite of ~/.ssh/config (ssh_config.rs).  A config is a sequence   *)
(* of lines, each reduced to what the rewrite or OpenSSH tells apart.      *)
(***************************************************************************)
EXTENDS Naturals, Sequences, FiniteSetsExt

(* "user": a directive or comment that opens no scope; "host", "host=": a    *)
(* Host or Match line, the second with "=" behind its keyword; "old": a line *)
(* of the block that earlier versions kept between "begin" and "end";        *)
(* "legacy": their Include line; "managed": MANAGED_INCLUDE_LINE.            *)
Lines == {"blank", "user", "host", "host=", "old", "begin", "end", "legacy",
          "managed"}

(* skipping_legacy_block: line i is the begin of a legacy block, or one      *)
(* follows a begin and no end lies between.                                  *)
InLegacyBlock(s, i) ==
  \E b \in 1..i : s[b] = "begin" /\ \A j \in b..(i - 1) : s[j] # "end"

Removed(s, i) == InLegacyBlock(s, i) \/ s[i] \in {"managed", "legacy"}

(* The lines of s that the indices in K are of. *)
Selected(s, K) ==
  LET sel[n \in 0..Len(s)] ==
        IF n = 0 THEN <<>>
        ELSE IF n \in K THEN Append(sel[n - 1], s[n]) ELSE sel[n - 1]
  IN  sel[Len(s)]

(* remove_hardpass_integration *)
RemoveIntegration(s) == Selected(s, {i \in 1..Len(s) : ~Removed(s, i)})

(* is_scoped_ssh_directive compares the first word, and "Host=x" is not it.  *)
IsScoped(line) == line = "host"

(* first_host_or_match_offset, or the end of the file. *)
Insertion(s) ==
  Min({i \in 1..Len(s) : IsScoped(s[i])} \cup {Len(s) + 1})

(* Mutant: the empty lines before the insertion stay. *)
KeepEnd(s) == s

(* trim_end_matches('\n') *)
TrimEnd(s) == SubSeq(s, 1, Max({i \in 1..Len(s) : s[i] # "blank"} \cup {0}))

(* install_managed_include.  What follows the insertion begins with a Host   *)
(* line, so that trimming its start changes nothing.                         *)
Installed(s) ==
  LET rest   == RemoveIntegration(s)
      before == TrimEnd(SubSeq(rest, 1, Insertion(rest) - 1))
      after  == SubSeq(rest, Insertion(rest), Len(rest))
  IN  (IF before = <<>> THEN <<>> ELSE before \o <<"blank">>)
      \o <<"managed">>
      \o (IF after = <<>> THEN <<>> ELSE <<"blank">> \o after)

-----------------------------------------------------------------------------
(* What the rewrite is for, said of its input s and its output t.            *)

UserKinds == {"user", "host", "host="}

UserLines(s) == Selected(s, {i \in 1..Len(s) : s[i] \in UserKinds})

(* Without those in a legacy block.  A begin marker without its end marker   *)
(* claims the rest of the file.                                              *)
UnclaimedLines(s) ==
  Selected(s, {i \in 1..Len(s) : s[i] \in UserKinds /\ ~InLegacyBlock(s, i)})

NoneClaimed(s) ==
  \A i \in 1..Len(s) : InLegacyBlock(s, i) => s[i] \notin UserKinds

IncludedOnce(t) == Cardinality({i \in 1..Len(t) : t[i] = "managed"}) = 1

(* No line of the given kinds comes before the Include. *)
IncludedBefore(t, kinds) ==
  \A i, j \in 1..Len(t) : t[i] \in kinds /\ t[j] = "managed" => j < i

(* A rewrite leaves one Include, ahead of the first Host or Match line that  *)
(* is_scoped_ssh_directive knows, every line of the user's that no legacy    *)
(* block claims, and a file that the next sync will rewrite to itself: syncs *)
(* do not make it grow, and claim nothing more.                              *)
Settles(s, t) ==
  /\ IncludedOnce(t)
  /\ IncludedBefore(t, {"host"})
  /\ UserLines(t) = UnclaimedLines(s)
  /\ Installed(t) = t
  /\ NoneClaimed(t)
=============================================================================
