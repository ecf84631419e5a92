------------------------------ MODULE Invoices ------------------------------
(***************************************************************************)
(* Invoices, the payment methods they name and the proofs of payment that  *)
(* clients upload (services/project.service.ts, paymentMethod.service.ts   *)
(* and paymentProof.service.ts).  Staff decide on invoices and on proofs   *)
(* separately, in any order; every operation is one turn of the event loop *)
(* over one transaction, so it is one action.                              *)
(*                                                                         *)
(* The status 'overdue' is never written by the code and is left out.      *)
(***************************************************************************)
EXTENDS FiniteSetsExt, Integers

CONSTANTS
    Invoices, Proofs, Methods,      \* ids, each used for one row
    NoInvoice

ASSUME NoInvoiceAssumption == NoInvoice \notin Invoices

VARIABLES
    invoice,        \* [Invoices -> status and number]
    proof,          \* [Proofs -> status and invoice]
    methods,        \* rows of payment_methods
    attached,       \* [Invoices -> methods], invoice_payment_methods
    issuedAs        \* the invoices that left the drafts, with their numbers (history)

invoiceVars == <<invoice, proof, methods, attached, issuedAs>>

InvoiceStatus == {"absent", "draft", "sent", "awaiting_verification", "paid", "cancelled"}

InvoicesTypeOK ==
    /\ invoice \in [Invoices -> [status: InvoiceStatus \cup {"deleted"}, number: Nat]]
    /\ proof \in [Proofs -> [status: {"absent", "pending", "accepted", "rejected"},
                             invoice: Invoices \cup {NoInvoice}]]
    /\ methods \subseteq Methods
    /\ attached \in [Invoices -> SUBSET Methods]
    /\ issuedAs \subseteq Invoices \X Nat

InvoicesInit ==
    /\ invoice = [i \in Invoices |-> [status |-> "absent", number |-> 0]]
    /\ proof = [p \in Proofs |-> [status |-> "absent", invoice |-> NoInvoice]]
    /\ methods \in SUBSET Methods
    /\ attached = [i \in Invoices |-> {}]
    /\ issuedAs = {}

Live == {i \in Invoices : invoice[i].status \notin {"absent", "deleted"}}
PendingOn(i) == {p \in Proofs : proof[p] = [status |-> "pending", invoice |-> i]}

----------------------------------------------------------------------------
(* Invoices.                                                               *)

NextNumberIssued ==         \* slip: drafts do not count
    Max({0} \cup {invoice[i].number : i \in {j \in Live : invoice[j].status # "draft"}}) + 1

\* getNextInvoiceNumber
NextNumber == Max({0} \cup {invoice[i].number : i \in Live}) + 1

CreateInvoice(i) ==
    /\ invoice[i].status = "absent"
    /\ invoice' = [invoice EXCEPT ![i] = [status |-> "draft", number |-> NextNumber]]
    /\ UNCHANGED <<proof, methods, attached, issuedAs>>

\* Only a draft is deleted, and while methods are attached the foreign key
\* refuses that too: nothing detaches them on the way.
DeleteInvoice(i) ==
    /\ invoice[i].status = "draft" /\ attached[i] = {}
    /\ invoice' = [invoice EXCEPT ![i].status = "deleted"]
    /\ UNCHANGED <<proof, methods, attached, issuedAs>>

\* validTransitions of updateInvoiceStatus
Transitions(status) ==
    CASE status = "draft" -> {"sent", "cancelled"}
      [] status = "sent" -> {"paid", "cancelled"}
      [] status = "paid" -> {"cancelled"}
      [] status = "awaiting_verification" -> {"paid", "sent", "cancelled"}
      [] OTHER -> {}

UpdateInvoiceStatus(i, status) ==
    /\ status \in Transitions(invoice[i].status)
    /\ invoice' = [invoice EXCEPT ![i].status = status]
    /\ issuedAs' = issuedAs \cup {<<i, invoice[i].number>>}
    /\ UNCHANGED <<proof, methods, attached>>

----------------------------------------------------------------------------
(* Payment methods.                                                        *)

SetInvoicePaymentMethods(i, M) ==
    /\ invoice[i].status = "draft"
    /\ attached' = [attached EXCEPT ![i] = M \cap methods]
    /\ UNCHANGED <<invoice, proof, methods, issuedAs>>

DeletePaymentMethod(m) ==
    /\ m \in methods /\ \A i \in Invoices : m \notin attached[i]
    /\ methods' = methods \ {m}
    /\ UNCHANGED <<invoice, proof, attached, issuedAs>>

----------------------------------------------------------------------------
(* Proofs of payment.                                                      *)

Uploadable == {"sent", "awaiting_verification"}

CreatePaymentProof(p, i) ==
    /\ proof[p].status = "absent" /\ invoice[i].status \in Uploadable
    /\ proof' = [proof EXCEPT ![p] = [status |-> "pending", invoice |-> i]]
    /\ invoice' = [invoice EXCEPT ![i].status = "awaiting_verification"]
    /\ UNCHANGED <<methods, attached, issuedAs>>

\* The invoice is paid, whatever its status says by now.
AcceptPaymentProof(p) ==
    LET i == proof[p].invoice IN
    /\ proof[p].status = "pending"
    /\ proof' = [q \in Proofs |-> IF q \in PendingOn(i) THEN [proof[q] EXCEPT !.status = "accepted"]
                                  ELSE proof[q]]
    /\ invoice' = [invoice EXCEPT ![i].status = "paid"]
    /\ UNCHANGED <<methods, attached, issuedAs>>

HandedBackNever(i, p) == invoice[i].status  \* slip: the queue keeps an invoice with nothing to decide

HandedBackAnyStatus(i, p) ==                \* slip: the invoice's status is not looked at
    IF PendingOn(i) = {p} THEN "sent" ELSE invoice[i].status

\* slip: the invoice gets the proof's status
HandedBackAsProof(i, p) == IF PendingOn(i) = {p} THEN "pending" ELSE invoice[i].status

\* The invoice goes back to the client with the last proof that is rejected.
HandedBack(i, p) ==
    IF PendingOn(i) = {p} /\ invoice[i].status = "awaiting_verification" THEN "sent"
    ELSE invoice[i].status

RejectPaymentProof(p) ==
    LET i == proof[p].invoice IN
    /\ proof[p].status = "pending"
    /\ proof' = [proof EXCEPT ![p].status = "rejected"]
    /\ invoice' = [invoice EXCEPT ![i].status = HandedBack(i, p)]
    /\ UNCHANGED <<methods, attached, issuedAs>>

InvoicesNext ==
    \/ \E i \in Invoices :
          \/ CreateInvoice(i) \/ DeleteInvoice(i)
          \/ \E status \in InvoiceStatus : UpdateInvoiceStatus(i, status)
          \/ \E M \in SUBSET Methods : SetInvoicePaymentMethods(i, M)
          \/ \E p \in Proofs : CreatePaymentProof(p, i)
    \/ \E m \in Methods : DeletePaymentMethod(m)
    \/ \E p \in Proofs : AcceptPaymentProof(p) \/ RejectPaymentProof(p)

InvoicesSpec == InvoicesInit /\ [][InvoicesNext]_invoiceVars

----------------------------------------------------------------------------
(* Properties.                                                             *)

\* An invoice in the queue of staff has a proof to decide on: a decision on
\* the last proof takes it out (rejectPaymentProof and acceptPaymentProof).
AwaitingHasPending ==
    \A i \in Invoices : invoice[i].status = "awaiting_verification" => PendingOn(i) # {}

\* The number of an invoice that is no draft any more is never given to another
\* one, although the next number is computed from the invoices that are left;
\* and no invoice points at a payment method that is gone.
IssuedNumbersStay ==
    /\ \A i, j \in Live : invoice[i].number = invoice[j].number => i = j
    /\ \A x \in issuedAs, i \in Live : invoice[i].number = x[2] => i = x[1]
    /\ \A i \in Invoices : attached[i] \subseteq methods

\* A paid invoice is never asked for again, and a cancelled one comes back
\* only as paid, by a proof that was pending when it was cancelled: such
\* proofs stay in the queue and can be accepted.
SettledInvoicesStay ==
    [][\A i \in Invoices :
         /\ invoice[i].status = "paid" => invoice'[i].status \in {"paid", "cancelled"}
         /\ invoice[i].status = "cancelled" =>
              \/ invoice'[i] = invoice[i]
              \/ invoice'[i].status = "paid" /\ PendingOn(i) # {} /\ PendingOn(i)' = {}]_invoiceVars
=============================================================================
