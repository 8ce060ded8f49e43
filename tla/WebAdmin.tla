------------------------------ MODULE WebAdmin ------------------------------
(***************************************************************************)
(* The repository functions of the web application that keep warehouses,   *)
(* members and the catalogue.  depot[w] says whether a warehouse exists    *)
(* and is the default; role[u] is a member's role, or "none"; rows are the *)
(* catalogue's rows with the key that a unique index keeps unique in each  *)
(* table (the SKU, the name, the code, the product of a bill).             *)
(***************************************************************************)
EXTENDS WebTables

\* Three statements of one transaction: the count, the clearing of the flag on
\* the rows that it can see, the insert.
OpensWarehouse(r, op) ==
  LET w == Job(r).target
      first == \A v \in Warehouse : depot[v] = "absent"
  IN
  \/ /\ At(r, op, "begun")
     /\ Check(r, depot[w] = "absent", "cleared",
              <<Job(r).default \/ first, Default>>)
  \/ /\ At(r, op, "cleared")
     /\ depot' = IF depot[w] # "absent" THEN depot
                 ELSE [v \in Warehouse |->
                         IF v = w THEN IF req[r].saw[1] THEN "default" ELSE "plain"
                         ELSE IF req[r].saw[1] /\ v \in req[r].saw[2] THEN "plain"
                         ELSE depot[v]]
     /\ Commits(r)
     /\ UNCHANGED <<stockVars, docVars, active, role, rows, bill>>

\* isDefault is set or left alone, never taken away.
ChangesWarehouse(r, op) ==
  LET w == Job(r).target IN
  \/ /\ At(r, op, "begun")
     /\ Check(r, depot[w] # "absent", "cleared", <<Job(r).default, Default>>)
  \/ /\ At(r, op, "cleared")
     /\ depot' = [v \in Warehouse |->
                    IF ~ req[r].saw[1] THEN depot[v]
                    ELSE IF v = w THEN "default"
                    ELSE IF v \in req[r].saw[2] THEN "plain" ELSE depot[v]]
     /\ Commits(r)
     /\ UNCHANGED <<stockVars, docVars, active, role, rows, bill>>

CreateWarehouse(r) == OpensWarehouse(r, "createWarehouse")
UpdateWarehouse(r) == ChangesWarehouse(r, "updateWarehouse")

-----------------------------------------------------------------------------
(* Members. *)

\* rolePermissions: who may manage users.
Managers == {u \in User : role[u] \in {"Owner", "Admin"}}

CreateUser(r) ==
  LET job == Job(r) IN
  \/ /\ At(r, "createUser", "begun")
     /\ Check(r, job.actor \in Managers /\ role[job.user] = "none", "read", <<>>)
  \/ /\ At(r, "createUser", "read")
     /\ role' = IF role[job.user] = "none" THEN [role EXCEPT ![job.user] = job.role] ELSE role
     /\ Commits(r)
     /\ UNCHANGED <<stockVars, docVars, depot, active, rows, bill>>

\* Mutant: nothing keeps a manager from changing their own role.
OfSomebody(job) == role[job.user] # "none"

OfSomebodyElse(job) == role[job.user] # "none" /\ job.user # job.actor

UpdateUserRole(r) ==
  LET job == Job(r) IN
  \/ /\ At(r, "updateRole", "begun")
     /\ Check(r, job.actor \in Managers /\ OfSomebodyElse(job), "read", <<>>)
  \/ /\ At(r, "updateRole", "read")
     /\ role' = IF role[job.user] = "none" THEN role ELSE [role EXCEPT ![job.user] = job.role]
     /\ Commits(r)
     /\ UNCHANGED <<stockVars, docVars, depot, active, rows, bill>>

DeleteUser(r) ==
  LET job == Job(r) IN
  \/ /\ At(r, "deleteUser", "begun")
     /\ Check(r, job.actor \in Managers /\ OfSomebodyElse(job), "read", <<>>)
  \/ /\ At(r, "deleteUser", "read")
     /\ role' = [role EXCEPT ![job.user] = "none"]
     /\ Commits(r)
     /\ UNCHANGED <<stockVars, docVars, depot, active, rows, bill>>

-----------------------------------------------------------------------------
(* Catalogue: one insert, or a read and a write by id; the database refuses *)
(* a key that is taken.                                                     *)

Indexed == {"product", "supplier", "customer", "variant", "bom", "field", "rate"}

\* Mutant: the tables have no unique indexes.
NeverTaken(table, row, key) == FALSE

KeyTaken(table, row, key) ==
  table \in Indexed /\ \E other \in rows : other.table = table /\ other.key = key /\ other.row # row

HasRow(table, row) == \E other \in rows : other.table = table /\ other.row = row

InsertsAt(r, op, step, table) ==
  LET job == Job(r) IN
  /\ At(r, op, step)
  /\ rows' = IF HasRow(table, job.target) \/ KeyTaken(table, job.target, job.key) THEN rows
             ELSE rows \cup {[table |-> table, row |-> job.target, key |-> job.key]}
  /\ Commits(r)
  /\ UNCHANGED <<stockVars, docVars, depot, active, role, bill>>

Inserts(r, op, table) == InsertsAt(r, op, "begun", table)

Rewrites(r, op, table) ==
  LET job == Job(r) IN
  \/ /\ At(r, op, "begun")
     /\ Check(r, HasRow(table, job.target), "read", <<>>)
  \/ /\ At(r, op, "read")
     /\ rows' = IF ~ HasRow(table, job.target) \/ KeyTaken(table, job.target, job.key) THEN rows
                ELSE {other \in rows : other.table # table \/ other.row # job.target}
                       \cup {[table |-> table, row |-> job.target, key |-> job.key]}
     /\ Commits(r)
     /\ UNCHANGED <<stockVars, docVars, depot, active, role, bill>>

Deletes(r, op, table) ==
  LET job == Job(r) IN
  \/ /\ At(r, op, "begun")
     /\ Check(r, HasRow(table, job.target), "read", <<>>)
  \/ /\ At(r, op, "read")
     /\ rows' = {other \in rows : other.table # table \/ other.row # job.target}
     /\ Commits(r)
     /\ UNCHANGED <<stockVars, docVars, depot, active, role, bill>>

CreateProduct(r) == Inserts(r, "createProduct", "product")
UpdateProduct(r) == Rewrites(r, "updateProduct", "product")
CreateSupplier(r) == Inserts(r, "createSupplier", "supplier")
UpdateSupplier(r) == Rewrites(r, "updateSupplier", "supplier")
CreateCustomer(r) == Inserts(r, "createCustomer", "customer")
CreateVariant(r) == Inserts(r, "createVariant", "variant")
UpdateVariant(r) == Rewrites(r, "updateVariant", "variant")
DeleteVariant(r) == Deletes(r, "deleteVariant", "variant")
CreateBom(r) == Inserts(r, "createBom", "bom")
UpdateWebhookSubscription(r) == Rewrites(r, "updateSubscription", "subscription")
CreateWebhookSubscription(r) == Inserts(r, "createSubscription", "subscription")
DeleteCustomerPriceTier(r) == Deletes(r, "deleteTier", "tier")

\* A price tier is looked up by customer and product and then created or
\* rewritten: two submissions at a time both find none.  The index would keep
\* apart only tiers of one minimum quantity.
UpsertCustomerPriceTier(r) ==
  LET job == Job(r)
      same == {other \in rows : other.table = "tier" /\ other.key = job.key}
  IN
  \/ /\ At(r, "upsertTier", "begun")
     /\ Check(r, TRUE, "looked", <<same = {}>>)
  \/ /\ At(r, "upsertTier", "looked")
     /\ rows' = IF req[r].saw[1] /\ ~ HasRow("tier", job.target)
                THEN rows \cup {[table |-> "tier", row |-> job.target, key |-> job.key]}
                ELSE rows
     /\ Commits(r)
     /\ UNCHANGED <<stockVars, docVars, depot, active, role, bill>>

\* One upsert statement on the index of the custom fields, of the rates.
UpsertCustomField(r) == Inserts(r, "upsertField", "field")

\* The rates are fetched from the bank, which may fail, and then stored.
RefreshExchangeRates(r) ==
  \/ /\ At(r, "refreshRates", "begun")
     /\ Check(r, TRUE, "fetched", <<>>)
  \/ InsertsAt(r, "refreshRates", "fetched", "rate")

\* The organization is one row, which is there.
UpdateOrganizationSettings(r) ==
  LET job == Job(r) IN
  /\ At(r, "updateSettings", "begun")
  /\ rows' = {other \in rows : other.table # "settings"}
               \cup {[table |-> "settings", row |-> job.target, key |-> job.key]}
  /\ Commits(r)
  /\ UNCHANGED <<stockVars, docVars, depot, active, role, bill>>

SetProductActive(r) ==
  LET job == Job(r) IN
  \/ /\ At(r, "setActive", "begun")
     /\ Check(r, TRUE, "read", <<>>)
  \/ /\ At(r, "setActive", "read")
     /\ active' = IF job.on THEN active \cup {job.product} ELSE active \ {job.product}
     /\ Commits(r)
     /\ UNCHANGED <<stockVars, docVars, depot, role, rows, bill>>
=============================================================================
