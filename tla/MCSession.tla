------------------------------ MODULE MCSession ------------------------------
(* A model-checking instance of Session. *)
EXTENDS Session, TLC

CONSTANTS c1, c2, k1, k2, p1, p2, v1, v2, g1, g2, m1, m2, m3, fs, orch

TheAsk(op, key, value, pass) == [op |-> op, key |-> key, value |-> value, pass |-> pass]

(* One command sets a secret; another deletes it, lists, or sets a second  *)
(* one under a passphrase of its own.                                      *)
TheAsks ==
  (c1 :> {TheAsk("set", k1, v1, p1)})
    @@ (c2 :> {TheAsk("delete", k1, v1, p1), TheAsk("list", k1, v1, p1), TheAsk("set", k2, v2, p2)})

(* One plugin in the tree and installed as well.                           *)
TheFound == <<{m1, m2}, {m3}>>
ThePlugins == (m1 :> fs) @@ (m2 :> orch) @@ (m3 :> fs)
TheSecrets == (m1 :> k1) @@ (m2 :> k2) @@ (m3 :> k1)

=============================================================================
