--------------------------- MODULE MCClientStore ---------------------------
(***************************************************************************)
(* ClientStore for TLC: both users log in, either may use the client; two  *)
(* accounts and two entries in each list.                                  *)
(***************************************************************************)
EXTENDS ClientStore, TLC

CONSTANTS Alice, Bob, eth1, btc1, i1, i2, v, w

MCRequest(op, u, t, i, x) == [op |-> op, user |-> u, target |-> t, id |-> i, value |-> x]

MCRequests ==
  {MCRequest("login", u, "owner", None, None) : u \in Users}
  \cup {MCRequest("keygen", Alice, eth1, u, None) : u \in Users}
  \cup {MCRequest("keygen", Bob, btc1, Bob, None),
        MCRequest("keygen", Alice, btc1, Alice, None)}
  \cup {MCRequest("delete", u, a, None, None) : u \in Users, a \in Accounts}
  \cup {MCRequest("upsert", Alice, l, i, v) : l \in Lists, i \in Ids}
  \cup {MCRequest("upsert", Alice, l, i1, None) : l \in Lists}
  \cup {MCRequest("update", Alice, "exchanges", i1, w)}

(* Slots are interchangeable. *)
MCSymmetry == Permutations(Slots)

=============================================================================
