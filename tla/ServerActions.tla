---------------------------- MODULE ServerActions ----------------------------
(***************************************************************************)
(* The forms of the web application: what each server action takes out of  *)
(* the submitted fields and what the input schema of its operation then    *)
(* accepts.  A job is the parsed form.  The schemas are the same with and  *)
(* without a database; a form they refuse changes nothing.                 *)
(*                                                                         *)
(* An input's name, SKU, code or key is one field, key, which is Blank     *)
(* when it is shorter than the schema wants.                               *)
(***************************************************************************)
EXTENDS Integers, Sequences, FiniteSets

CONSTANTS
  Blank,          \* what an empty text field holds
  Lines,          \* [sales order, purchase order, return, credit note -> its lines]
  Build           \* [manufacturing order -> [product, warehouse, quantity]]

-----------------------------------------------------------------------------
(* Schemas. *)

Positive(n) == n > 0

Role == {"Owner", "Admin", "WarehouseStaff", "SalesStaff", "PurchasingStaff", "Viewer"}

MovementType == {"INBOUND", "OUTBOUND", "ADJUSTMENT"}

StockMovementInput(job) == job.type \in MovementType /\ Positive(job.quantity)

StockTransferInput(job) == Positive(job.quantity) /\ job.warehouse # job.to

StocktakeCountInput(job) == job.counted >= 0

Named(job) == job.key # Blank

InvoiceStatus == {"DRAFT", "SENT", "PARTIALLY_PAID", "PAID", "OVERDUE", "CANCELLED"}

LinesInput(lines) == lines # <<>> /\ \A i \in DOMAIN lines : Positive(lines[i].quantity)

BomInput(job) == job.components # {} /\ \A c \in job.components : Positive(c.quantity)

-----------------------------------------------------------------------------
(* Stock, warehouses. *)

CreateStockMovementAction(job) == job.op = "movement" /\ StockMovementInput(job)
RecordStocktakeAction(job) == job.op = "count" /\ StocktakeCountInput(job)
CreateStockTransferAction(job) == job.op = "transfer" /\ StockTransferInput(job)
CreateWarehouseAction(job) == job.op = "createWarehouse"
UpdateWarehouseAction(job) == job.op = "updateWarehouse"

(* Orders.  The form of a sales order has one product; orders of several    *)
(* lines come from the API, the portal and the imports.                     *)

CreateSalesOrderAction(job) ==
  job.op = "createOrder" /\ Len(Lines[job.doc]) = 1 /\ LinesInput(Lines[job.doc])
ConfirmSalesOrderAction(job) == job.op = "confirm"
CreatePurchaseOrderAction(job) == job.op = "createPurchase" /\ LinesInput(Lines[job.doc])
ReceivePurchaseOrderAction(job) == job.op = "receive"
GenerateSmartPurchaseOrdersAction(job) == job.op = "suggest"
CreateSalesReturnAction(job) == job.op = "createReturn" /\ LinesInput(Lines[job.doc])
ApproveSalesReturnAction(job) == job.op = "approve"
StartPickingAction(job) == job.op = "startPicking"
UpdatePickListItemAction(job) == job.op = "pick"
MarkPackedAction(job) == job.op = "pack"
ShipOrderAction(job) == job.op = "ship"
DeliverOrderAction(job) == job.op = "deliver"

(* Invoices. *)

CreateInvoiceAction(job) == job.op = "createInvoice"
RecordPaymentAction(job) == job.op = "pay" /\ Positive(job.amount)
\* The target is not parsed; the column is an enum.
TransitionInvoiceStatusAction(job) == job.op = "transition" /\ job.to \in InvoiceStatus
CreateCreditNoteAction(job) == job.op = "createCredit" /\ LinesInput(Lines[job.doc])

(* Manufacturing.  A bill submitted without components keeps those it has. *)

CreateBomAction(job) == job.op = "createBom" /\ Named(job)
UpdateBomAction(job) == job.op = "updateBom" /\ (job.components = {} \/ BomInput(job))
CreateManufacturingOrderAction(job) == job.op = "createBuild" /\ Positive(Build[job.doc].quantity)
StartManufacturingOrderAction(job) == job.op = "start"
CompleteManufacturingOrderAction(job) == job.op = "complete"

(* Members. *)

CreateUserAction(job) == job.op = "createUser" /\ job.role \in Role
UpdateUserRoleAction(job) == job.op = "updateRole" /\ job.role \in Role
DeleteUserAction(job) == job.op = "deleteUser"

(* Catalogue and settings. *)

CreateProductAction(job) == job.op = "createProduct" /\ Named(job)
UpdateProductAction(job) == job.op = "updateProduct" /\ Named(job)
SetProductActiveAction(job) == job.op = "setActive"
CreateVariantAction(job) == job.op = "createVariant" /\ Named(job)
UpdateVariantAction(job) == job.op = "updateVariant" /\ Named(job)
DeleteVariantAction(job) == job.op = "deleteVariant"
CreateSupplierAction(job) == job.op = "createSupplier" /\ Named(job)
UpdateSupplierAction(job) == job.op = "updateSupplier" /\ Named(job)
CreateCustomerAction(job) == job.op = "createCustomer" /\ Named(job)
CreateWebhookSubscriptionAction(job) == job.op = "createSubscription" /\ Named(job)
UpdateWebhookSubscriptionAction(job) == job.op = "updateSubscription"
UpsertCustomFieldAction(job) == job.op = "upsertField" /\ Named(job)
UpsertCustomerPriceTierAction(job) == job.op = "upsertTier"
DeleteCustomerPriceTierAction(job) == job.op = "deleteTier"
UpdateOrganizationSettingsAction(job) == job.op = "updateSettings" /\ Named(job)
RefreshExchangeRatesAction(job) == job.op = "refreshRates" /\ Named(job)

-----------------------------------------------------------------------------
Accepted(job) ==
  \/ CreateStockMovementAction(job) \/ RecordStocktakeAction(job)
  \/ CreateStockTransferAction(job)
  \/ CreateWarehouseAction(job) \/ UpdateWarehouseAction(job)
  \/ CreateSalesOrderAction(job) \/ ConfirmSalesOrderAction(job)
  \/ CreatePurchaseOrderAction(job) \/ ReceivePurchaseOrderAction(job)
  \/ GenerateSmartPurchaseOrdersAction(job)
  \/ CreateSalesReturnAction(job) \/ ApproveSalesReturnAction(job)
  \/ StartPickingAction(job) \/ UpdatePickListItemAction(job) \/ MarkPackedAction(job)
  \/ ShipOrderAction(job) \/ DeliverOrderAction(job)
  \/ CreateInvoiceAction(job) \/ RecordPaymentAction(job)
  \/ TransitionInvoiceStatusAction(job) \/ CreateCreditNoteAction(job)
  \/ CreateBomAction(job) \/ UpdateBomAction(job) \/ CreateManufacturingOrderAction(job)
  \/ StartManufacturingOrderAction(job) \/ CompleteManufacturingOrderAction(job)
  \/ CreateUserAction(job) \/ UpdateUserRoleAction(job) \/ DeleteUserAction(job)
  \/ CreateProductAction(job) \/ UpdateProductAction(job) \/ SetProductActiveAction(job)
  \/ CreateVariantAction(job) \/ UpdateVariantAction(job) \/ DeleteVariantAction(job)
  \/ CreateSupplierAction(job) \/ UpdateSupplierAction(job) \/ CreateCustomerAction(job)
  \/ CreateWebhookSubscriptionAction(job) \/ UpdateWebhookSubscriptionAction(job)
  \/ UpsertCustomFieldAction(job) \/ UpsertCustomerPriceTierAction(job)
  \/ DeleteCustomerPriceTierAction(job)
  \/ UpdateOrganizationSettingsAction(job) \/ RefreshExchangeRatesAction(job)
=============================================================================
