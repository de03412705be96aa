-------------------------- MODULE MCSshConfigSync --------------------------
(* Small instances of SshConfigSync for TLC. *)
EXTENDS SshConfigSync, SequencesExt

(* Configs are made of blocks: what versions of hardpass have written, a     *)
(* marker that lost its block, and the user's lines before, between, behind. *)
Blocks == {<<"blank">>, <<"user">>, <<"host", "user">>, <<"managed">>,
           <<"legacy">>, <<"begin", "old", "end">>, <<"begin">>}

MCInputs == {FlattenSeq(bs) : bs \in UNION {[1..k -> Blocks] : k \in 0..4}}

(* Every kind of block at once. *)
MCUserConfigs ==
  {<<"user", "begin", "old", "end", "user", "blank", "host", "user",
     "legacy">>}
=============================================================================
