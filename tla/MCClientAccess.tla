--------------------------- MODULE MCClientAccess ---------------------------
(***************************************************************************)
(* Instances of ClientAccess: every licence and subscription allows one    *)
(* device.                                                                 *)
(***************************************************************************)
EXTENDS ClientAccess, TLC

OneDevice == [g \in Grants |-> 1]

RequestSymmetry == Permutations(Requests)

\* Nobody has bound a device to a subscription or changed one.
OnlyLicenses ==
    /\ \A r \in Requests : request[r].grant \notin Subscriptions
    /\ \A m \in Machines : device[m].grant \notin Subscriptions
    /\ \A a \in Admins : admin[a].grant \notin Subscriptions
    /\ \A g \in Subscriptions : grant[g] = [status |-> "active", closed |-> FALSE, expired |-> FALSE]

\* What keeps the instance small: a third operation only for licences.
OfficeNext == Next /\ (adminOps > 2 => OnlyLicenses)'

OfficeSpec == Init /\ [][OfficeNext]_vars

OfficeSymmetry == Permutations(Requests) \cup Permutations(Admins)

=============================================================================
