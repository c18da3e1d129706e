------------------------------ MODULE MCRegistry ------------------------------
(***************************************************************************)
(* A small registry for TLC: two machines and their BMCs, and mixes of     *)
(* requests that meet on the same rows.                                    *)
(***************************************************************************)
EXTENDS Registry, TLC

CONSTANTS m1, m2, ip1, ip2, p1, p2, p3, n1, n2, k1, k2, s1, s2, s3

MCBmcOf == m1 :> ip1 @@ m2 :> ip2
CallSymmetry == Permutations(Slots)

Asked(op, m) == [op |-> op, machine |-> m]
OnRow(op, id) == [op |-> op, id |-> id]
PutOf(p, n, ks, v) ==
  [op |-> "put", machine |-> m1, profile |-> p, subnet |-> n, keys |-> ks, secret |-> v]
Reported(m) == [op |-> "report", machine |-> m, ip |-> BmcOf[m]]
Post(ip, password) ==
  [op |-> "register", post |-> TRUE, owner |-> Placeholder(ip), ip |-> ip, password |-> password]
PutBmc(o, ip, password) ==
  [op |-> "register", post |-> FALSE, owner |-> o, ip |-> ip, password |-> password]
Unregister(o) == [op |-> "unregister", owner |-> o]
UpdateOf(id, f, v) == [op |-> "update", id |-> id, field |-> f, value |-> v]

(* PUTs that choose some fields and keep others, against deletions of what *)
(* they name.                                                              *)
Bindings ==
  {Reported(m1), PutOf(p1, n1, {k1}, Keep), PutOf(p1, Keep, Keep, 1), PutOf(p2, Nil, {k1, k2}, 2),
   OnRow("drop key", k1), OnRow("create", k2), OnRow("drop profile", p1), OnRow("drop subnet", n1),
   Asked("unbind", m1)}
Retirement ==
  {Reported(m1), PutOf(p1, n1, Keep, Keep), Asked("job", m1), Asked("retire", m1),
   OnRow("drop profile", p1), PutBmc(m1, ip1, TRUE)}
Edits ==
  {UpdateOf(id, "name", 1) : id \in {p1, n1, k1}} \cup {UpdateOf(id, "body", 2) : id \in {p1, n1, k1}}
  \cup {OnRow("create", id) : id \in {p3, n2}} \cup {OnRow("drop key", k1)}
(* Credentials before and after the machines report.                       *)
Onboarding ==
  {Reported(m1), Post(ip1, TRUE), Post(ip1, FALSE), Unregister(Placeholder(ip1)),
   Asked("pair", m1), PutBmc(m1, ip1, TRUE), Unregister(m1), Asked("retire", m1)}
Mistakes ==
  {Reported(m1), Reported(m2), Post(ip2, TRUE), PutBmc(m1, ip2, TRUE), PutBmc(m2, ip1, TRUE),
   PutBmc(m1, ip1, FALSE), PutBmc(Placeholder(ip1), ip2, TRUE), Asked("pair", m2),
   [Reported(m1) EXCEPT !.ip = Nil]}
MCWorkloads == {Bindings, Retirement, Edits, Onboarding, Mistakes}
=============================================================================
