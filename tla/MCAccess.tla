------------------------------ MODULE MCAccess ------------------------------
(* An administrator and a viewer; two parts, two periods, four batches.     *)
EXTENDS Access

CONSTANTS admin, viewer, p1, p2

MCUsers == {admin, viewer}
MCClaims == [u \in MCUsers |-> IF u = admin THEN {"tenant_admin", "viewer"}
                               ELSE {"viewer", "tenant_admin"}]
MCMembers == [u \in MCUsers |-> IF u = admin THEN {"tenant_admin"} ELSE NoRow]
MCRoleSets == {{"viewer"}, {"tenant_admin"}}

MCScopes == {[parts |-> {p1}, first |-> 2, last |-> NoRow],
             [parts |-> {}, first |-> 1, last |-> 1]}

\* Amounts of a few groups, quantities in ten-thousandths.
Amounts(material, labor, energy, storage) ==
    [g \in Groups |-> CASE g = "direct_material" -> material [] g = "indirect_labor" -> labor
                        [] g = "direct_energy" -> energy [] g = "storage_fee" -> storage
                        [] g = "transportation" -> 7 [] OTHER -> 0]
Row(batch, part, period, done, cost, amounts, qualified, defective) ==
    [batch |-> batch, part |-> part, period |-> period, done |-> done, cost |-> cost,
     amounts |-> amounts, qualified |-> qualified, completed |-> qualified + defective,
     views |-> <<>>]
MCBatches == {Row(1, p1, 1, 1, 5, Amounts(1000, 333, 5, 11), 30000, 0),
           Row(2, p1, 1, 1, 4, Amounts(999, 1, 0, 0), 70000, 10000),
           Row(3, p2, 1, 2, 5, Amounts(50, 0, 3, 2), 10000, 5000),
           Row(4, p1, 2, 3, 4, Amounts(1200, 350, 9, 1), 30000, 1)}
MCRows == {Projected(b) : b \in MCBatches}
MCCatalogs ==
    {[current |-> TRUE, parts |-> {p1, p2}, rows |-> MCRows],
     [current |-> FALSE, parts |-> {p1}, rows |-> {r \in MCRows : r.batch = 1}]}

MCServers == {Capabilities, {"system_help", "report_generation"}}
=============================================================================
