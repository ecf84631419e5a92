--------------------------- MODULE RecordsProofs ---------------------------
(***************************************************************************)
(* What the panel keeps a record of: invoices and their payment proofs,    *)
(* snapshots of sites, and project boards.  Each section is about one      *)
(* module, for any values of its constants.                                *)
(***************************************************************************)
EXTENDS Invoices, Snapshots, Board, SequenceLemmas, TLAPS

(***************************************************************************)
(* Invoices, for any invoices, proofs of payment and payment methods.  The *)
(* next number is a maximum over the rows that are left; that there is one *)
(* is part of the invariant, so the set of invoices need not be finite.    *)
(***************************************************************************)

Issued == {"sent", "awaiting_verification", "paid", "cancelled"}

\* Numbers are given from below: there is a largest one at any time.
NumbersBounded == \E n \in Nat : \A i \in Invoices : invoice[i].number <= n

\* What left the drafts stays, with its number.
IssuedStay ==
    /\ \A x \in issuedAs : invoice[x[1]].number = x[2] /\ invoice[x[1]].status \in Issued
    /\ \A i, j \in Live : invoice[i].number = invoice[j].number => i = j
    /\ \A i \in Invoices : attached[i] \subseteq methods

\* Proofs are of invoices that were sent.
ProofsOfIssued ==
    \A p \in Proofs : proof[p].status # "absent" =>
        proof[p].invoice \in Invoices /\ invoice[proof[p].invoice].status \in Issued

InvoiceInv ==
    /\ InvoicesTypeOK
    /\ NumbersBounded /\ IssuedStay
    /\ ProofsOfIssued /\ AwaitingHasPending

LEMMA NextNumberIsNext ==
    ASSUME InvoicesTypeOK, NumbersBounded
    PROVE  NextNumber \in Nat /\ \A i \in Live : invoice[i].number < NextNumber
<1> DEFINE S == {0} \cup {invoice[i].number : i \in Live}
<1>1. S \in SUBSET Nat /\ S # {}
  BY DEF InvoicesTypeOK, Live
<1>2. PICK n \in Nat : \A x \in S : x <= n
  BY DEF NumbersBounded, Live
<1>3. PICK m \in S : m = Max(S) /\ \A y \in S : m >= y
  BY <1>1, <1>2, MaxOfBounded
<1>4. NextNumber = m + 1
  BY <1>3 DEF NextNumber
<1>5. NextNumber \in Nat /\ \A y \in S : y < NextNumber
  <2> HIDE DEF S
  <2> QED BY <1>1, <1>3, <1>4
<1> QED BY <1>5 DEF S

LEMMA InvoicesStart == InvoicesInit => InvoiceInv
  BY DEF InvoicesInit, InvoiceInv, InvoicesTypeOK, InvoiceStatus, NumbersBounded, IssuedStay,
         Live, ProofsOfIssued, AwaitingHasPending

LEMMA InvoicesTypeStep ==
    InvoiceInv /\ [InvoicesNext]_invoiceVars => InvoicesTypeOK'
<1> SUFFICES ASSUME InvoiceInv, [InvoicesNext]_invoiceVars PROVE InvoicesTypeOK'
  OBVIOUS
<1> USE DEF InvoicesTypeOK, InvoiceStatus
<1>0. InvoicesTypeOK
  BY DEF InvoiceInv
<1>1. ASSUME NEW i \in Invoices, CreateInvoice(i) PROVE InvoicesTypeOK'
  <2>1. NextNumber \in Nat
    BY NextNumberIsNext DEF InvoiceInv
  <2> QED BY <1>0, <1>1, <2>1 DEF CreateInvoice
<1>2. ASSUME NEW i \in Invoices, DeleteInvoice(i) PROVE InvoicesTypeOK'
  BY <1>0, <1>2 DEF DeleteInvoice
<1>3. ASSUME NEW i \in Invoices, NEW status \in InvoiceStatus, UpdateInvoiceStatus(i, status)
      PROVE  InvoicesTypeOK'
  BY <1>0, <1>3 DEF UpdateInvoiceStatus
<1>4. ASSUME NEW i \in Invoices, NEW M \in SUBSET Methods, SetInvoicePaymentMethods(i, M)
      PROVE  InvoicesTypeOK'
  BY <1>0, <1>4 DEF SetInvoicePaymentMethods
<1>5. ASSUME NEW i \in Invoices, NEW p \in Proofs, CreatePaymentProof(p, i)
      PROVE  InvoicesTypeOK'
  BY <1>0, <1>5 DEF CreatePaymentProof
<1>6. ASSUME NEW m \in Methods, DeletePaymentMethod(m) PROVE InvoicesTypeOK'
  BY <1>0, <1>6 DEF DeletePaymentMethod
<1>7. ASSUME NEW p \in Proofs, AcceptPaymentProof(p) PROVE InvoicesTypeOK'
  BY ZenonT(40), <1>0, <1>7 DEF AcceptPaymentProof
<1>8. ASSUME NEW p \in Proofs, RejectPaymentProof(p) PROVE InvoicesTypeOK'
  <2>1. proof[p].invoice \in Invoices /\ invoice[proof[p].invoice].status \in InvoiceStatus
    BY <1>8 DEF RejectPaymentProof, InvoiceInv, ProofsOfIssued, Issued
  <2> QED BY <1>0, <1>8, <2>1 DEF RejectPaymentProof, HandedBack
<1>9. CASE UNCHANGED invoiceVars
  BY <1>0, <1>9 DEF invoiceVars
<1> QED BY <1>1, <1>2, <1>3, <1>4, <1>5, <1>6, <1>7, <1>8, <1>9 DEF InvoicesNext

\* Outside createInvoice no number changes; statuses of what was issued stay issued.
LEMMA NumbersStep ==
    InvoiceInv /\ [InvoicesNext]_invoiceVars =>
        \A i \in Invoices :
            /\ ~CreateInvoice(i) => invoice'[i].number = invoice[i].number
            /\ invoice[i].status \in Issued => invoice'[i].status \in Issued
<1> SUFFICES ASSUME InvoiceInv, [InvoicesNext]_invoiceVars, NEW x \in Invoices
             PROVE  /\ ~CreateInvoice(x) => invoice'[x].number = invoice[x].number
                    /\ invoice[x].status \in Issued => invoice'[x].status \in Issued
  OBVIOUS
<1> USE DEF Issued, InvoicesTypeOK
<1>1. ASSUME NEW i \in Invoices, CreateInvoice(i) \/ DeleteInvoice(i)
      PROVE  /\ ~CreateInvoice(x) => invoice'[x].number = invoice[x].number
             /\ invoice[x].status \in Issued => invoice'[x].status \in Issued
  BY <1>1 DEF CreateInvoice, DeleteInvoice, InvoiceInv
<1>2. ASSUME NEW i \in Invoices, NEW status \in InvoiceStatus, UpdateInvoiceStatus(i, status)
      PROVE  /\ invoice'[x].number = invoice[x].number
             /\ invoice[x].status \in Issued => invoice'[x].status \in Issued
  <2>1. status \in Issued
    BY <1>2 DEF UpdateInvoiceStatus, Transitions
  <2> QED BY <1>2, <2>1 DEF UpdateInvoiceStatus, InvoiceInv
<1>3. ASSUME NEW i \in Invoices, NEW p \in Proofs, CreatePaymentProof(p, i)
      PROVE  /\ invoice'[x].number = invoice[x].number
             /\ invoice[x].status \in Issued => invoice'[x].status \in Issued
  BY <1>3 DEF CreatePaymentProof, InvoiceInv
<1>4. ASSUME NEW p \in Proofs, AcceptPaymentProof(p)
      PROVE  /\ invoice'[x].number = invoice[x].number
             /\ invoice[x].status \in Issued => invoice'[x].status \in Issued
  BY <1>4 DEF AcceptPaymentProof, InvoiceInv
<1>5. ASSUME NEW p \in Proofs, RejectPaymentProof(p)
      PROVE  /\ invoice'[x].number = invoice[x].number
             /\ invoice[x].status \in Issued => invoice'[x].status \in Issued
  BY <1>5 DEF RejectPaymentProof, HandedBack, InvoiceInv
<1> QED
  BY <1>1, <1>2, <1>3, <1>4, <1>5
  DEF InvoicesNext, invoiceVars, SetInvoicePaymentMethods, DeletePaymentMethod

LEMMA BoundedStep ==
    InvoiceInv /\ [InvoicesNext]_invoiceVars => NumbersBounded'
<1> SUFFICES ASSUME InvoiceInv, [InvoicesNext]_invoiceVars PROVE NumbersBounded'
  OBVIOUS
<1>1. PICK n \in Nat : \A i \in Invoices : invoice[i].number <= n
  BY DEF InvoiceInv, NumbersBounded
<1>2. ASSUME NEW i \in Invoices, CreateInvoice(i) PROVE NumbersBounded'
  <2>1. NextNumber \in Nat
    BY NextNumberIsNext DEF InvoiceInv
  <2>2. \A x \in Invoices : invoice'[x].number = IF x = i THEN NextNumber ELSE invoice[x].number
    BY <1>2 DEF CreateInvoice, InvoiceInv, InvoicesTypeOK
  <2>3. n + NextNumber \in Nat
    BY <2>1
  <2>4. \A x \in Invoices : invoice'[x].number <= n + NextNumber
    BY <1>1, <2>1, <2>2 DEF InvoiceInv, InvoicesTypeOK
  <2> QED BY <2>3, <2>4 DEF NumbersBounded
<1>3. CASE \A i \in Invoices : ~CreateInvoice(i)
  BY <1>1, <1>3, NumbersStep DEF NumbersBounded
<1> QED BY <1>2, <1>3

LEMMA ProofsStep ==
    InvoiceInv /\ [InvoicesNext]_invoiceVars => ProofsOfIssued'
<1> SUFFICES ASSUME InvoiceInv, [InvoicesNext]_invoiceVars PROVE ProofsOfIssued'
  OBVIOUS
<1>1. \A i \in Invoices : invoice[i].status \in Issued => invoice'[i].status \in Issued
  BY NumbersStep
<1>2. CASE UNCHANGED proof
  BY <1>1, <1>2 DEF InvoiceInv, ProofsOfIssued
<1>3. ASSUME NEW i \in Invoices, NEW p \in Proofs, CreatePaymentProof(p, i)
      PROVE  ProofsOfIssued'
  BY <1>1, <1>3 DEF CreatePaymentProof, InvoiceInv, InvoicesTypeOK, ProofsOfIssued, Uploadable, Issued
<1>4. ASSUME NEW p \in Proofs, AcceptPaymentProof(p) PROVE ProofsOfIssued'
  BY <1>1, <1>4 DEF AcceptPaymentProof, PendingOn, InvoiceInv, InvoicesTypeOK, ProofsOfIssued
<1>5. ASSUME NEW p \in Proofs, RejectPaymentProof(p) PROVE ProofsOfIssued'
  BY <1>1, <1>5 DEF RejectPaymentProof, InvoiceInv, InvoicesTypeOK, ProofsOfIssued
<1> QED
  BY <1>2, <1>3, <1>4, <1>5
  DEF InvoicesNext, invoiceVars, CreateInvoice, DeleteInvoice, UpdateInvoiceStatus,
      SetInvoicePaymentMethods, DeletePaymentMethod

LEMMA IssuedStep ==
    InvoiceInv /\ [InvoicesNext]_invoiceVars => IssuedStay'
<1> SUFFICES ASSUME InvoiceInv, [InvoicesNext]_invoiceVars PROVE IssuedStay'
  OBVIOUS
<1>0. /\ InvoicesTypeOK /\ IssuedStay
      /\ \A i \in Invoices :
            /\ ~CreateInvoice(i) => invoice'[i].number = invoice[i].number
            /\ invoice[i].status \in Issued => invoice'[i].status \in Issued
  BY NumbersStep DEF InvoiceInv
<1>1. \A i \in Live' : i \in Live \/ CreateInvoice(i)
  <2>1. ASSUME NEW p \in Proofs, proof[p].status = "pending"
        PROVE  proof[p].invoice \in Live
    BY <2>1 DEF InvoiceInv, ProofsOfIssued, Issued, Live
  <2>2. ASSUME NEW p \in Proofs, AcceptPaymentProof(p) PROVE Live' \subseteq Live
    BY <1>0, <2>1, <2>2 DEF AcceptPaymentProof, Live, InvoicesTypeOK
  <2>3. ASSUME NEW p \in Proofs, RejectPaymentProof(p) PROVE Live' \subseteq Live
    BY <1>0, <2>1, <2>3 DEF RejectPaymentProof, Live, InvoicesTypeOK
  <2>4. ASSUME NEW i \in Invoices, NEW p \in Proofs, CreatePaymentProof(p, i)
        PROVE  Live' \subseteq Live
    BY <1>0, <2>4 DEF CreatePaymentProof, Uploadable, Live, InvoicesTypeOK
  <2>5. ASSUME NEW i \in Invoices, NEW status \in InvoiceStatus, UpdateInvoiceStatus(i, status)
        PROVE  Live' \subseteq Live
    BY <1>0, <2>5 DEF UpdateInvoiceStatus, Transitions, Live, InvoicesTypeOK
  <2>6. ASSUME NEW i \in Invoices, DeleteInvoice(i) PROVE Live' \subseteq Live
    BY <1>0, <2>6 DEF DeleteInvoice, Live, InvoicesTypeOK
  <2>7. ASSUME NEW i \in Invoices, CreateInvoice(i) PROVE Live' \subseteq Live \cup {i}
    BY <1>0, <2>7 DEF CreateInvoice, Live, InvoicesTypeOK
  <2>8. CASE UNCHANGED invoice
    BY <2>8 DEF Live
  <2> QED
    BY <2>2, <2>3, <2>4, <2>5, <2>6, <2>7, <2>8
    DEF InvoicesNext, invoiceVars, SetInvoicePaymentMethods, DeletePaymentMethod
<1>2. \A i, j \in Live' : invoice'[i].number = invoice'[j].number => i = j
  <2>1. ASSUME NEW c \in Invoices, CreateInvoice(c)
        PROVE  \A i, j \in Live' : invoice'[i].number = invoice'[j].number => i = j
    <3>1. \A i \in Live : invoice[i].number < NextNumber
      BY NextNumberIsNext DEF InvoiceInv
    <3>2. /\ NextNumber \in Nat /\ c \notin Live
          /\ \A i \in Invoices : invoice'[i].number = IF i = c THEN NextNumber ELSE invoice[i].number
          /\ \A i \in Live' : i \in Live \/ i = c
      BY <1>0, <2>1, NextNumberIsNext DEF CreateInvoice, InvoiceInv, InvoicesTypeOK, Live
    <3>3. \A i \in Live : i \in Invoices /\ invoice[i].number \in Nat
      BY <1>0 DEF InvoicesTypeOK, Live
    <3>4. ASSUME NEW i \in Live', NEW j \in Live', invoice'[i].number = invoice'[j].number
          PROVE  i = j
      BY <1>0, <3>1, <3>2, <3>3, <3>4 DEF IssuedStay, Live
    <3> QED BY <3>4
  <2>2. CASE \A i \in Invoices : ~CreateInvoice(i)
    BY <1>0, <1>1, <2>2 DEF IssuedStay, Live
  <2> QED BY <2>1, <2>2
<1>3. \A x \in issuedAs' : invoice'[x[1]].number = x[2] /\ invoice'[x[1]].status \in Issued
  <2>1. ASSUME NEW x \in issuedAs
        PROVE  invoice'[x[1]].number = x[2] /\ invoice'[x[1]].status \in Issued
    <3>1. x[1] \in Invoices /\ invoice[x[1]].number = x[2] /\ invoice[x[1]].status \in Issued
      BY <1>0 DEF IssuedStay, InvoicesTypeOK
    <3>2. ~CreateInvoice(x[1])
      BY <3>1 DEF CreateInvoice, Issued
    <3> QED BY <1>0, <3>1, <3>2
  <2>2. CASE UNCHANGED issuedAs
    BY <2>1, <2>2
  <2>3. ASSUME NEW i \in Invoices, NEW status \in InvoiceStatus, UpdateInvoiceStatus(i, status)
        PROVE  \A x \in issuedAs' :
                   invoice'[x[1]].number = x[2] /\ invoice'[x[1]].status \in Issued
    <3>1. invoice'[i].number = invoice[i].number /\ invoice'[i].status = status
      BY <1>0, <2>3 DEF UpdateInvoiceStatus, InvoicesTypeOK
    <3>2. status \in Issued
      BY <2>3 DEF UpdateInvoiceStatus, Transitions, Issued
    <3> QED BY <2>1, <2>3, <3>1, <3>2 DEF UpdateInvoiceStatus
  <2> QED
    BY <2>2, <2>3
    DEF InvoicesNext, invoiceVars, CreateInvoice, DeleteInvoice, SetInvoicePaymentMethods,
        DeletePaymentMethod, CreatePaymentProof, AcceptPaymentProof, RejectPaymentProof
<1>4. \A i \in Invoices : attached'[i] \subseteq methods'
  <2>1. \A i \in Invoices : attached[i] \subseteq methods
    BY <1>0 DEF IssuedStay
  <2>2. ASSUME NEW i \in Invoices, NEW M \in SUBSET Methods, SetInvoicePaymentMethods(i, M)
        PROVE  \A j \in Invoices : attached'[j] \subseteq methods'
    BY <1>0, <2>1, <2>2 DEF SetInvoicePaymentMethods, InvoicesTypeOK
  <2>3. ASSUME NEW m \in Methods, DeletePaymentMethod(m)
        PROVE  \A j \in Invoices : attached'[j] \subseteq methods'
    BY <2>1, <2>3 DEF DeletePaymentMethod
  <2> QED
    BY <2>1, <2>2, <2>3
    DEF InvoicesNext, invoiceVars, CreateInvoice, DeleteInvoice, UpdateInvoiceStatus,
        CreatePaymentProof, AcceptPaymentProof, RejectPaymentProof
<1> QED BY <1>2, <1>3, <1>4 DEF IssuedStay

LEMMA AwaitingStep ==
    InvoiceInv /\ [InvoicesNext]_invoiceVars => AwaitingHasPending'
<1> SUFFICES ASSUME InvoiceInv, [InvoicesNext]_invoiceVars,
                    NEW x \in Invoices, invoice'[x].status = "awaiting_verification"
             PROVE  PendingOn(x)' # {}
  BY DEF AwaitingHasPending
<1>0. /\ InvoicesTypeOK
      /\ invoice[x].status = "awaiting_verification" => PendingOn(x) # {}
  BY DEF InvoiceInv, AwaitingHasPending
<1>1. CASE UNCHANGED proof /\ invoice[x].status = "awaiting_verification"
  BY <1>0, <1>1 DEF PendingOn
<1>2. ASSUME NEW i \in Invoices, NEW status \in InvoiceStatus, UpdateInvoiceStatus(i, status)
      PROVE  PendingOn(x)' # {}
  <2>1. status # "awaiting_verification"
    BY <1>2 DEF UpdateInvoiceStatus, Transitions
  <2> QED BY <1>0, <1>1, <1>2, <2>1 DEF UpdateInvoiceStatus, InvoicesTypeOK
<1>3. ASSUME NEW i \in Invoices, CreateInvoice(i) \/ DeleteInvoice(i)
      PROVE  PendingOn(x)' # {}
  BY <1>0, <1>1, <1>3 DEF CreateInvoice, DeleteInvoice, InvoicesTypeOK
<1>4. ASSUME NEW i \in Invoices, NEW p \in Proofs, CreatePaymentProof(p, i)
      PROVE  PendingOn(x)' # {}
  <2>1. CASE x = i
    BY <1>0, <1>4, <2>1 DEF CreatePaymentProof, PendingOn, InvoicesTypeOK
  <2>2. CASE x # i
    <3>1. PICK q \in Proofs : proof[q] = [status |-> "pending", invoice |-> x]
      BY <1>0, <1>4, <2>2 DEF CreatePaymentProof, PendingOn, InvoicesTypeOK
    <3>2. q # p
      BY <1>4, <3>1 DEF CreatePaymentProof
    <3> QED BY <1>0, <1>4, <3>1, <3>2 DEF CreatePaymentProof, PendingOn, InvoicesTypeOK
  <2> QED BY <2>1, <2>2
<1>5. ASSUME NEW p \in Proofs, AcceptPaymentProof(p) PROVE PendingOn(x)' # {}
  <2>1. x # proof[p].invoice /\ invoice[x].status = "awaiting_verification"
    BY <1>0, <1>5 DEF AcceptPaymentProof, InvoicesTypeOK
  <2>2. PICK q \in Proofs : proof[q] = [status |-> "pending", invoice |-> x]
    BY <1>0, <2>1 DEF PendingOn
  <2>3. proof'[q] = proof[q]
    BY <1>5, <2>1, <2>2 DEF AcceptPaymentProof, PendingOn
  <2> QED BY <2>2, <2>3 DEF PendingOn
<1>6. ASSUME NEW p \in Proofs, RejectPaymentProof(p) PROVE PendingOn(x)' # {}
  <2>1. invoice[x].status = "awaiting_verification"
    BY <1>0, <1>6 DEF RejectPaymentProof, HandedBack, InvoicesTypeOK
  <2>2. PICK q \in PendingOn(x) : q # p
    BY <1>0, <1>6, <2>1 DEF RejectPaymentProof, HandedBack, PendingOn, InvoicesTypeOK
  <2>3. proof'[q] = proof[q]
    BY <1>0, <1>6, <2>2 DEF RejectPaymentProof, PendingOn, InvoicesTypeOK
  <2> QED BY <2>2, <2>3 DEF PendingOn
<1> QED
  BY <1>1, <1>2, <1>3, <1>4, <1>5, <1>6
  DEF InvoicesNext, invoiceVars, SetInvoicePaymentMethods, DeletePaymentMethod

\* The invariant of the invoices, their proofs of payment and their methods.
THEOREM InvoicesCorrect == InvoicesSpec => []InvoiceInv
<1>1. InvoiceInv /\ [InvoicesNext]_invoiceVars => InvoiceInv'
  BY InvoicesTypeStep, BoundedStep, IssuedStep, ProofsStep, AwaitingStep DEF InvoiceInv
<1> QED BY <1>1, InvoicesStart, PTL DEF InvoicesSpec

\* Rows keep their types, and the next number is always a number.
THEOREM InvoicesTypeCorrect == InvoicesSpec => []InvoicesTypeOK
<1>1. InvoiceInv => InvoicesTypeOK
  BY DEF InvoiceInv
<1> QED BY <1>1, InvoicesCorrect, PTL

\* No invoice waits for a decision that nobody is asked for.
THEOREM QueueHasProofs == InvoicesSpec => []AwaitingHasPending
<1>1. InvoiceInv => AwaitingHasPending
  BY DEF InvoiceInv
<1> QED BY <1>1, InvoicesCorrect, PTL

\* Numbers of issued invoices are unique for ever, and methods are there.
THEOREM NumbersStay == InvoicesSpec => []IssuedNumbersStay
<1>1. InvoiceInv => IssuedNumbersStay
  <2> SUFFICES ASSUME InvoiceInv PROVE IssuedNumbersStay
    OBVIOUS
  <2>1. \A x \in issuedAs : x[1] \in Live /\ invoice[x[1]].number = x[2]
    BY DEF InvoiceInv, InvoicesTypeOK, IssuedStay, Issued, Live
  <2> QED BY <2>1 DEF InvoiceInv, IssuedStay, IssuedNumbersStay
<1> QED BY <1>1, InvoicesCorrect, PTL

\* What was paid is not asked for again, and what was cancelled comes back
\* only by a proof that was still waiting.
THEOREM SettledStay == InvoicesSpec => SettledInvoicesStay
<1> DEFINE Stays(i) ==
             /\ invoice[i].status = "paid" => invoice'[i].status \in {"paid", "cancelled"}
             /\ invoice[i].status = "cancelled" =>
                  \/ invoice'[i] = invoice[i]
                  \/ invoice'[i].status = "paid" /\ PendingOn(i) # {} /\ PendingOn(i)' = {}
<1>1. ASSUME InvoiceInv, [InvoicesNext]_invoiceVars PROVE [\A i \in Invoices : Stays(i)]_invoiceVars
  <2> SUFFICES ASSUME NEW x \in Invoices PROVE Stays(x)
    OBVIOUS
  <2>0. InvoicesTypeOK
    BY <1>1 DEF InvoiceInv
  <2>1. ASSUME NEW i \in Invoices, CreateInvoice(i) \/ DeleteInvoice(i) PROVE Stays(x)
    BY <2>0, <2>1 DEF CreateInvoice, DeleteInvoice, InvoicesTypeOK
  <2>2. ASSUME NEW i \in Invoices, NEW status \in InvoiceStatus, UpdateInvoiceStatus(i, status)
        PROVE  Stays(x)
    BY <2>0, <2>2 DEF UpdateInvoiceStatus, Transitions, InvoicesTypeOK
  <2>3. ASSUME NEW i \in Invoices, NEW p \in Proofs, CreatePaymentProof(p, i) PROVE Stays(x)
    BY <2>0, <2>3 DEF CreatePaymentProof, Uploadable, InvoicesTypeOK
  <2>4. ASSUME NEW p \in Proofs, AcceptPaymentProof(p) PROVE Stays(x)
    <3>1. CASE x # proof[p].invoice
      BY <2>0, <2>4, <3>1 DEF AcceptPaymentProof, InvoicesTypeOK
    <3>2. CASE x = proof[p].invoice
      <4>1. p \in PendingOn(x)
        BY <2>0, <2>4, <3>2 DEF AcceptPaymentProof, PendingOn, InvoicesTypeOK
      <4>2. PendingOn(x)' = {}
        BY <2>0, <2>4, <3>2 DEF AcceptPaymentProof, PendingOn, InvoicesTypeOK
      <4>3. invoice'[x].status = "paid"
        BY <2>0, <2>4, <3>2 DEF AcceptPaymentProof, InvoicesTypeOK
      <4> QED BY <4>1, <4>2, <4>3
    <3> QED BY <3>1, <3>2
  <2>5. ASSUME NEW p \in Proofs, RejectPaymentProof(p) PROVE Stays(x)
    BY <2>0, <2>5 DEF RejectPaymentProof, HandedBack, InvoicesTypeOK
  <2> QED
    BY <1>1, <2>1, <2>2, <2>3, <2>4, <2>5
    DEF InvoicesNext, invoiceVars, SetInvoicePaymentMethods, DeletePaymentMethod
<1> QED BY <1>1, InvoicesCorrect, PTL DEF InvoicesSpec, SettledInvoicesStay

(***************************************************************************)
(* Snapshots, for any sites and any number of requests at once.            *)
(***************************************************************************)

\* Rows and archives: no snapshot is in two rows, none that is being taken has
\* one, and a row's archive is there.
RowsInv ==
    /\ \A s \in SnapSites :
          /\ IsInjective(kept[s]) /\ Range(kept[s]) \subseteq archive
          /\ snapSite[s] = "cleared" => kept[s] = <<>>
          /\ \A n \in Range(kept[s]) : n <= drawn
    /\ \A s, t \in SnapSites : s # t => \A n \in Range(kept[s]) : n \notin Range(kept[t])
    /\ \A c \in Calls : call[c].step \in Taking =>
          /\ call[c].site \in SnapSites /\ call[c].snap \in Snaps /\ call[c].snap <= drawn
          /\ \A s \in SnapSites : call[c].snap \notin Range(kept[s])
    /\ \A c, d \in Calls : c # d /\ call[c].step \in Taking /\ call[d].step \in Taking =>
          call[c].snap # call[d].snap

CallSet == [step: Steps, site: SnapSites \cup {NoSite}, snap: 0..MaxDrawn]

\* A request's restore is of one of the site's own snapshots, or a clone's.
RestoresTyped ==
    \A c \in Calls : call[c].step \in Restoring \cup {"launch"} =>
        call[c].site \in SnapSites /\ call[c].snap \in Snaps

LEMMA SnapshotsStart == SnapshotsInit => SnapshotsTypeOK /\ RestoresTyped /\ RowsInv
<1> SUFFICES ASSUME SnapshotsInit PROVE SnapshotsTypeOK /\ RestoresTyped /\ RowsInv
  OBVIOUS
<1>1. IdleCall \in CallSet
  BY LimitAssumption DEF IdleCall, CallSet, Steps
<1>2. SnapshotsTypeOK
  BY <1>1, LimitAssumption, NoSiteAssumption DEF SnapshotsInit, SnapshotsTypeOK, CallSet, Originals
<1>3. RestoresTyped
  BY DEF SnapshotsInit, RestoresTyped, IdleCall, Restoring
<1>4. Range(<<>>) = {} /\ IsInjective(<<>>)
  BY DEF Range, IsInjective
<1>5. RowsInv
  BY <1>4 DEF SnapshotsInit, RowsInv, IdleCall, Taking
<1> QED BY <1>2, <1>3, <1>5

\* What becomes of a request.
LEMMA CallReturns ==
    ASSUME SnapshotsTypeOK, NEW c \in Calls, Returns(c)
    PROVE  /\ call' \in [Calls -> CallSet] /\ call'[c] = IdleCall
           /\ \A d \in Calls : d # c => call'[d] = call[d]
<1>1. IdleCall \in CallSet
  BY LimitAssumption DEF IdleCall, CallSet, Steps
<1> QED BY <1>1 DEF Returns, SnapshotsTypeOK, CallSet

LEMMA CallMoves ==
    ASSUME SnapshotsTypeOK, NEW c \in Calls, NEW st \in Steps, Moves(c, st)
    PROVE  /\ call' \in [Calls -> CallSet]
           /\ call'[c].step = st
           /\ call'[c].site = call[c].site /\ call'[c].snap = call[c].snap
           /\ \A d \in Calls : d # c => call'[d] = call[d]
<1>1. call[c] \in CallSet /\ call \in [Calls -> CallSet]
  BY DEF SnapshotsTypeOK, CallSet
<1>2. [call[c] EXCEPT !.step = st] = [step |-> st, site |-> call[c].site, snap |-> call[c].snap]
  BY <1>1 DEF CallSet
<1>3. [call[c] EXCEPT !.step = st] \in CallSet
  BY <1>1 DEF CallSet
<1>4. call' = [call EXCEPT ![c] = [call[c] EXCEPT !.step = st]]
  BY DEF Moves
<1> HIDE DEF CallSet
<1> QED BY <1>1, <1>2, <1>3, <1>4

\* What Drop does to the rows of a site.
LEMMA DropEffect ==
    ASSUME SnapshotsTypeOK, RowsInv, NEW s \in SnapSites, NEW n \in Range(kept[s]), Drop(s, n)
    PROVE  /\ kept' \in [SnapSites -> Seq(Snaps)] /\ stamped' \in [SnapSites -> Seq(Snaps)]
           /\ IsInjective(kept'[s]) /\ Range(kept'[s]) = Range(kept[s]) \ {n}
           /\ Len(kept'[s]) = Len(kept[s]) - 1
           /\ archive' = archive \ {n}
           /\ \A t \in SnapSites : t # s => kept'[t] = kept[t] /\ stamped'[t] = stamped[t]
           /\ blurred \subseteq blurred' /\ blurred' \subseteq SnapSites
           /\ s \notin blurred' /\ stamped[s] # <<>> => Last(stamped'[s]) = Last(stamped[s])
           /\ stamped'[s] # <<>> => stamped[s] # <<>>
<1>1. kept[s] \in Seq(Snaps) /\ stamped[s] \in Seq(Snaps) /\ IsInjective(kept[s])
  BY DEF SnapshotsTypeOK, RowsInv
<1>2. /\ kept' = [kept EXCEPT ![s] = RemoveFirst(kept[s], n)] /\ archive' = archive \ {n}
      /\ stamped' = [stamped EXCEPT ![s] = RemoveFirst(stamped[s], n)]
      /\ blurred' = IF LastRestored(s, n) THEN blurred \cup {s} ELSE blurred
  BY DEF Drop
<1>3. /\ RemoveFirst(kept[s], n) \in Seq(Snaps) /\ IsInjective(RemoveFirst(kept[s], n))
      /\ Range(RemoveFirst(kept[s], n)) = Range(kept[s]) \ {n}
      /\ Len(RemoveFirst(kept[s], n)) = Len(kept[s]) - 1
  BY <1>1, RemoveFirstEffect
<1>4. /\ RemoveFirst(stamped[s], n) \in Seq(Snaps)
      /\ Range(RemoveFirst(stamped[s], n)) \subseteq Range(stamped[s])
      /\ Last(stamped[s]) # n /\ stamped[s] # <<>> =>
            Last(RemoveFirst(stamped[s], n)) = Last(stamped[s])
  BY <1>1, RemoveFirstEffect
<1>5. RemoveFirst(stamped[s], n) # <<>> => stamped[s] # <<>>
  <2>1. n \notin Range(<<>>) /\ <<>> \in Seq(Snaps)
    BY DEF Range
  <2> QED BY <2>1, RemoveFirstEffect
<1> QED BY <1>2, <1>3, <1>4, <1>5 DEF SnapshotsTypeOK, LastRestored

LEMMA SnapshotsTypeStep ==
    SnapshotsTypeOK /\ RestoresTyped /\ RowsInv /\ [SnapshotsNext]_snapVars => SnapshotsTypeOK' /\ RestoresTyped'
<1> SUFFICES ASSUME SnapshotsTypeOK, RestoresTyped, RowsInv, [SnapshotsNext]_snapVars
             PROVE  SnapshotsTypeOK' /\ RestoresTyped'
  OBVIOUS
<1> DEFINE Typed == SnapshotsTypeOK' /\ RestoresTyped'
<1>a. Snaps \subseteq 0..MaxDrawn
  BY LimitAssumption DEF Snaps
<1>b. \A s \in SnapSites : Range(kept[s]) \subseteq Snaps
  <2> TAKE s \in SnapSites
  <2>1. kept[s] \in Seq(Snaps)
    BY DEF SnapshotsTypeOK
  <2> QED BY <2>1, RangeOfSeq
<1>0. /\ {"take", "copy", "launch", "ask", "cleared", "put", "idle"} \subseteq Steps
      /\ Snaps \subseteq 0..MaxDrawn
      /\ \A s \in SnapSites : Range(kept[s]) \subseteq Snaps
      /\ Originals \subseteq SnapSites
  BY <1>a, <1>b DEF Steps, Originals
<1>1. ASSUME NEW c \in Calls, NEW s \in Originals, NEW step \in {"take", "copy"}, TakeSnapshot(c, s, step)
      PROVE  Typed
  <2>1. drawn' = drawn + 1 /\ drawn' \in Snaps /\ drawn' \in 0..MaxDrawn
    BY <1>1, LimitAssumption DEF TakeSnapshot, SnapshotsTypeOK, Snaps
  <2>2. [step |-> step, site |-> s, snap |-> drawn + 1] \in CallSet
    BY <1>0, <2>1 DEF CallSet
  <2>3. call' \in [Calls -> CallSet] /\ RestoresTyped'
    BY <1>1, <2>2 DEF TakeSnapshot, SnapshotsTypeOK, CallSet, RestoresTyped, Restoring
  <2>4. crowded' \subseteq SnapSites
    BY <1>0, <1>1 DEF TakeSnapshot, SnapshotsTypeOK
  <2>5. CASE UNCHANGED <<kept, archive, stamped, blurred>>
    BY <1>1, <2>1, <2>3, <2>4, <2>5 DEF TakeSnapshot, SnapshotsTypeOK, CallSet
  <2>6. CASE Full(s) /\ Drop(s, Head(kept[s]))
    <3>1. Head(kept[s]) \in Range(kept[s])
      <4>1. kept[s] \in Seq(Snaps) /\ Len(kept[s]) >= 1
        BY <1>0, <2>6, LimitAssumption DEF Full, SnapshotsTypeOK
      <4> QED BY <4>1, RangeEquality
    <3>2. /\ kept' \in [SnapSites -> Seq(Snaps)] /\ stamped' \in [SnapSites -> Seq(Snaps)]
          /\ archive' \subseteq Snaps /\ blurred' \subseteq SnapSites
      BY <1>0, <2>6, <3>1, DropEffect DEF SnapshotsTypeOK
    <3> QED BY <1>1, <2>1, <2>3, <2>4, <3>2 DEF TakeSnapshot, SnapshotsTypeOK, CallSet
  <2> QED BY <1>1, <2>5, <2>6 DEF TakeSnapshot
<1>2. ASSUME NEW c \in Calls, SnapshotTaken(c) PROVE Typed
  <2>1. call[c].site \in SnapSites /\ call[c].snap \in Snaps
    BY <1>2 DEF SnapshotTaken, RowsInv
  <2>2. Returns(c) \/ Moves(c, "launch")
    BY <1>2 DEF SnapshotTaken
  <2>a. ASSUME Returns(c) PROVE call' \in [Calls -> CallSet] /\ RestoresTyped'
    <3>1. /\ call' \in [Calls -> CallSet] /\ call'[c].step = "idle"
          /\ \A d \in Calls : d # c => call'[d] = call[d]
      BY <2>a, CallReturns DEF IdleCall
    <3> QED BY <3>1 DEF RestoresTyped, Restoring
  <2>b. ASSUME Moves(c, "launch") PROVE call' \in [Calls -> CallSet] /\ RestoresTyped'
    <3>0. "launch" \in Steps
      BY DEF Steps
    <3>1. /\ call' \in [Calls -> CallSet]
          /\ call'[c].site = call[c].site /\ call'[c].snap = call[c].snap
          /\ \A d \in Calls : d # c => call'[d] = call[d]
      BY <3>0, <2>b, CallMoves
    <3> QED BY <2>1, <3>1 DEF RestoresTyped, Restoring
  <2>3. call' \in [Calls -> CallSet] /\ RestoresTyped'
    BY <2>2, <2>a, <2>b
  <2>4. kept' \in [SnapSites -> Seq(Snaps)]
    <3>1. kept[call[c].site] \in Seq(Snaps) /\ kept \in [SnapSites -> Seq(Snaps)]
      BY <2>1 DEF SnapshotsTypeOK
    <3>2. Append(kept[call[c].site], call[c].snap) \in Seq(Snaps)
      BY <2>1, <3>1, AppendProperties
    <3>3. \/ kept' = kept
          \/ kept' = [kept EXCEPT ![call[c].site] = Append(kept[call[c].site], call[c].snap)]
      BY <1>2 DEF SnapshotTaken
    <3> QED BY <2>1, <3>1, <3>2, <3>3
  <2> QED BY <1>2, <2>1, <2>3, <2>4 DEF SnapshotTaken, SnapshotsTypeOK, CallSet
<1>3. ASSUME NEW c \in Calls, TakeFails(c) PROVE Typed
  <2>1. call[c].snap \in Snaps
    BY <1>3 DEF TakeFails, RowsInv
  <2>2. call' \in [Calls -> CallSet] /\ RestoresTyped'
    BY <1>0, <1>3, CallReturns DEF TakeFails, RestoresTyped, IdleCall, Restoring
  <2> QED BY <1>3, <2>1, <2>2 DEF TakeFails, SnapshotsTypeOK, CallSet
<1>4. ASSUME NEW c \in Calls, ContentCleared(c) \/ ContentPut(c) PROVE Typed
  <2>1. call[c].site \in SnapSites /\ call[c].snap \in Snaps
    BY <1>4 DEF ContentCleared, ContentPut, RestoresTyped, Restoring
  <2>2. Moves(c, "cleared") \/ Moves(c, "put")
    BY <1>4 DEF ContentCleared, ContentPut
  <2>0. "cleared" \in Steps /\ "put" \in Steps
    BY DEF Steps
  <2>a. /\ call' \in [Calls -> CallSet]
        /\ call'[c].site = call[c].site /\ call'[c].snap = call[c].snap
        /\ \A d \in Calls : d # c => call'[d] = call[d]
    BY <2>0, <2>2, CallMoves
  <2>3. call' \in [Calls -> CallSet] /\ RestoresTyped'
    BY <2>1, <2>a DEF RestoresTyped
  <2>4. content' \in [Originals -> Snaps \cup {Own, Emptied}]
    BY <1>4, <2>1 DEF ContentCleared, ContentPut, Holds, SnapshotsTypeOK
  <2> QED BY <1>4, <2>3, <2>4 DEF ContentCleared, ContentPut, SnapshotsTypeOK, CallSet
<1>5. ASSUME NEW c \in Calls, RestoreDone(c) \/ RestoreMissed(c) \/ RestoreFails(c) \/ CloneFails(c)
      PROVE  Typed
  <2>1. call[c].site \in SnapSites /\ call[c].snap \in Snaps
    BY <1>5 DEF RestoreDone, RestoreMissed, RestoreFails, CloneFails, RestoresTyped, Restoring
  <2>2. call' \in [Calls -> CallSet] /\ RestoresTyped'
    BY <1>0, <1>5, CallReturns DEF RestoreDone, RestoreMissed, RestoreFails, CloneFails, RestoresTyped, IdleCall, Restoring
  <2>3. stamped' \in [SnapSites -> Seq(Snaps)]
    <3>1. stamped[call[c].site] \in Seq(Snaps) /\ stamped \in [SnapSites -> Seq(Snaps)]
      BY <2>1 DEF SnapshotsTypeOK
    <3>2. Append(RemoveFirst(stamped[call[c].site], call[c].snap), call[c].snap) \in Seq(Snaps)
      BY <2>1, <3>1, RemoveFirstEffect, AppendProperties
    <3>3. \/ stamped' = stamped
          \/ stamped' = [stamped EXCEPT ![call[c].site] =
                            Append(RemoveFirst(stamped[call[c].site], call[c].snap), call[c].snap)]
      <4>1. CASE RestoreFails(c) \/ CloneFails(c)
        BY <4>1 DEF RestoreFails, CloneFails
      <4>2. CASE RestoreDone(c) \/ RestoreMissed(c)
        <5>1. Stamp(call[c].site, call[c].snap)
          BY <4>2 DEF RestoreDone, RestoreMissed
        <5> QED BY <2>1, <3>1, <5>1 DEF Stamp
      <4> QED BY <1>5, <4>1, <4>2
    <3> QED BY <2>1, <3>1, <3>2, <3>3
  <2>4. blurred' \subseteq SnapSites
    BY <1>5, <2>1 DEF RestoreDone, RestoreMissed, RestoreFails, CloneFails, SnapshotsTypeOK
  <2> QED BY <1>5, <2>2, <2>3, <2>4 DEF RestoreDone, RestoreMissed, RestoreFails, CloneFails, SnapshotsTypeOK, CallSet
<1>6. ASSUME NEW c \in Calls, NEW t \in SnapSites, CloneLaunched(c, t) PROVE Typed
  <2>1. call[c].snap \in Snaps
    BY <1>6 DEF CloneLaunched, RestoresTyped
  <2>2. [step |-> "ask", site |-> t, snap |-> call[c].snap] \in CallSet
    BY <1>0, <2>1 DEF CallSet
  <2>3. call' \in [Calls -> CallSet] /\ RestoresTyped'
    BY <1>6, <2>1, <2>2 DEF CloneLaunched, RestoresTyped, SnapshotsTypeOK, CallSet
  <2> QED BY <1>6, <2>3 DEF CloneLaunched, SnapshotsTypeOK, CallSet
<1>7. ASSUME NEW c \in Calls, NEW s \in Originals, NEW n \in Snaps, RestoreSnapshot(c, s, n) PROVE Typed
  <2>1. [step |-> "ask", site |-> s, snap |-> n] \in CallSet
    BY <1>0 DEF CallSet
  <2>2. call' \in [Calls -> CallSet] /\ RestoresTyped'
    BY <1>0, <1>7, <2>1 DEF RestoreSnapshot, RestoresTyped, SnapshotsTypeOK, CallSet
  <2> QED BY <1>0, <1>7, <2>2 DEF RestoreSnapshot, SnapshotsTypeOK, CallSet
<1>8. ASSUME NEW s \in Originals, NEW n \in Snaps, DeleteSnapshot(s, n) PROVE Typed
  <2>1. /\ kept' \in [SnapSites -> Seq(Snaps)] /\ stamped' \in [SnapSites -> Seq(Snaps)]
        /\ archive' \subseteq Snaps /\ blurred' \subseteq SnapSites
    BY <1>0, <1>8, DropEffect DEF DeleteSnapshot, SnapshotsTypeOK
  <2> QED BY <1>8, <2>1 DEF DeleteSnapshot, SnapshotsTypeOK, RestoresTyped
<1>9. ASSUME SitesCleared \/ UNCHANGED snapVars \/ \E s \in Originals : SiteEnds(s) PROVE Typed
  BY <1>9 DEF SitesCleared, SiteEnds, snapVars, SnapshotsTypeOK, RestoresTyped
<1> QED
  BY <1>1, <1>2, <1>3, <1>4, <1>5, <1>6, <1>7, <1>8, <1>9 DEF SnapshotsNext

\* A drop leaves the rows and the archives in step.
LEMMA DropRows ==
    ASSUME SnapshotsTypeOK, RowsInv, NEW s \in SnapSites, NEW n \in Range(kept[s]), Drop(s, n)
    PROVE  /\ \A t \in SnapSites :
                 /\ IsInjective(kept'[t]) /\ Range(kept'[t]) \subseteq archive'
                 /\ Range(kept'[t]) \subseteq Range(kept[t])
                 /\ kept[t] = <<>> => kept'[t] = <<>>
           /\ \A t, u \in SnapSites : t # u => \A m \in Range(kept'[t]) : m \notin Range(kept'[u])
<1>1. /\ IsInjective(kept'[s]) /\ Range(kept'[s]) = Range(kept[s]) \ {n} /\ archive' = archive \ {n}
      /\ \A t \in SnapSites : t # s => kept'[t] = kept[t]
  BY DropEffect
<1>2. \A t \in SnapSites : t # s => n \notin Range(kept[t])
  BY DEF RowsInv
<1>3. kept[s] # <<>>
  BY DEF Range
<1>4. \A t \in SnapSites : Range(kept'[t]) \subseteq Range(kept[t])
  BY <1>1
<1>5. \A t \in SnapSites : IsInjective(kept'[t]) /\ Range(kept'[t]) \subseteq archive'
  BY <1>1, <1>2 DEF RowsInv
<1> QED BY <1>1, <1>3, <1>4, <1>5 DEF RowsInv

\* Requests that take no snapshot, and leave the rows alone, disturb neither.
LEMMA RowsUndisturbed ==
    ASSUME RowsInv, UNCHANGED <<kept, drawn>>, archive \subseteq archive',
           \A s \in SnapSites : snapSite'[s] = "cleared" => snapSite[s] = "cleared" \/ kept[s] = <<>>,
           \A c \in Calls : call'[c].step \in Taking => call'[c] = call[c]
    PROVE  RowsInv'
<1>1. \A s \in SnapSites :
         /\ IsInjective(kept'[s]) /\ Range(kept'[s]) \subseteq archive'
         /\ snapSite'[s] = "cleared" => kept'[s] = <<>>
         /\ \A n \in Range(kept'[s]) : n <= drawn'
  BY DEF RowsInv
<1>2. \A s, t \in SnapSites : s # t => \A n \in Range(kept'[s]) : n \notin Range(kept'[t])
  BY DEF RowsInv
<1>3. \A c \in Calls : call'[c].step \in Taking =>
         /\ call'[c].site \in SnapSites /\ call'[c].snap \in Snaps /\ call'[c].snap <= drawn'
         /\ \A s \in SnapSites : call'[c].snap \notin Range(kept'[s])
  BY DEF RowsInv
<1>4. \A c, d \in Calls : c # d /\ call'[c].step \in Taking /\ call'[d].step \in Taking =>
         call'[c].snap # call'[d].snap
  BY DEF RowsInv
<1> QED BY <1>1, <1>2, <1>3, <1>4 DEF RowsInv

LEMMA RowsStep ==
    SnapshotsTypeOK /\ RestoresTyped /\ RowsInv /\ [SnapshotsNext]_snapVars => RowsInv'
<1> SUFFICES ASSUME SnapshotsTypeOK, RestoresTyped, RowsInv, [SnapshotsNext]_snapVars PROVE RowsInv'
  OBVIOUS
<1>0. Originals \subseteq SnapSites /\ call \in [Calls -> CallSet]
  BY DEF Originals, SnapshotsTypeOK, CallSet
<1>1. ASSUME NEW c \in Calls, NEW s \in Originals, NEW step \in {"take", "copy"}, TakeSnapshot(c, s, step)
      PROVE  RowsInv'
  <2>1. drawn' = drawn + 1 /\ drawn \in Nat /\ drawn' \in Snaps /\ snapSite' = snapSite /\ s \in SnapSites
    BY <1>0, <1>1, LimitAssumption DEF TakeSnapshot, SnapshotsTypeOK, Snaps
  <2>2. /\ call'[c].site = s /\ call'[c].snap = drawn'
        /\ \A d \in Calls : d # c => call'[d] = call[d]
    BY <1>0, <1>1 DEF TakeSnapshot
  <2>3. /\ \A t \in SnapSites :
              /\ IsInjective(kept'[t]) /\ Range(kept'[t]) \subseteq archive'
              /\ Range(kept'[t]) \subseteq Range(kept[t])
              /\ kept[t] = <<>> => kept'[t] = <<>>
        /\ \A t, u \in SnapSites : t # u => \A m \in Range(kept'[t]) : m \notin Range(kept'[u])
    <3>1. CASE UNCHANGED <<kept, archive>>
      BY <3>1 DEF RowsInv
    <3>2. CASE Full(s) /\ Drop(s, Head(kept[s]))
      <4>1. kept[s] \in Seq(Snaps) /\ Len(kept[s]) >= 1
        BY <2>1, <3>2, LimitAssumption DEF Full, SnapshotsTypeOK
      <4>2. Head(kept[s]) \in Range(kept[s])
        BY <4>1, RangeEquality
      <4> QED BY <2>1, <3>2, <4>2, DropRows
    <3> QED BY <1>1, <3>1, <3>2 DEF TakeSnapshot
  <2>4. \A t \in SnapSites : \A n \in Range(kept[t]) : n \in Nat /\ n <= drawn
    <3> SUFFICES ASSUME NEW t \in SnapSites, NEW n \in Range(kept[t]) PROVE n \in Nat /\ n <= drawn
      OBVIOUS
    <3>1. kept[t] \in Seq(Snaps)
      BY DEF SnapshotsTypeOK
    <3>2. n \in Snaps
      BY <3>1, RangeOfSeq
    <3> QED BY <3>2 DEF Snaps, RowsInv
  <2>5. \A t \in SnapSites : \A n \in Range(kept'[t]) : n <= drawn' /\ n # drawn'
    <3> SUFFICES ASSUME NEW t \in SnapSites, NEW n \in Range(kept'[t]) PROVE n <= drawn' /\ n # drawn'
      OBVIOUS
    <3>1. n \in Nat /\ n <= drawn
      BY <2>3, <2>4
    <3> QED BY <2>1, <3>1
  <2>6. \A d \in Calls : d # c /\ call[d].step \in Taking => call[d].snap <= drawn' /\ call[d].snap # drawn'
    <3> SUFFICES ASSUME NEW d \in Calls, call[d].step \in Taking
                 PROVE  call[d].snap <= drawn' /\ call[d].snap # drawn'
      OBVIOUS
    <3>1. call[d].snap \in Nat /\ call[d].snap <= drawn
      BY DEF RowsInv, Snaps
    <3> QED BY <2>1, <3>1
  <2>7. \A d \in Calls : call'[d].step \in Taking =>
           /\ call'[d].site \in SnapSites /\ call'[d].snap \in Snaps /\ call'[d].snap <= drawn'
           /\ \A t \in SnapSites : call'[d].snap \notin Range(kept'[t])
    <3> SUFFICES ASSUME NEW d \in Calls, call'[d].step \in Taking
                 PROVE  /\ call'[d].site \in SnapSites /\ call'[d].snap \in Snaps /\ call'[d].snap <= drawn'
                        /\ \A t \in SnapSites : call'[d].snap \notin Range(kept'[t])
      OBVIOUS
    <3>1. CASE d = c
      BY <2>1, <2>2, <2>5, <3>1
    <3>2. CASE d # c
      BY <2>2, <2>3, <2>6, <3>2 DEF RowsInv
    <3> QED BY <3>1, <3>2
  <2>8. \A d, e \in Calls : d # e /\ call'[d].step \in Taking /\ call'[e].step \in Taking =>
           call'[d].snap # call'[e].snap
    BY <2>2, <2>6 DEF RowsInv
  <2>9. \A t \in SnapSites : snapSite'[t] = "cleared" => kept'[t] = <<>>
    BY <2>1, <2>3 DEF RowsInv
  <2> QED BY <2>3, <2>5, <2>7, <2>8, <2>9 DEF RowsInv
<1>2. ASSUME NEW c \in Calls, SnapshotTaken(c) PROVE RowsInv'
  <2> DEFINE s == call[c].site
             n == call[c].snap
  <2>1. /\ s \in SnapSites /\ n \in Snaps /\ n <= drawn /\ \A t \in SnapSites : n \notin Range(kept[t])
        /\ \A d \in Calls : d # c /\ call[d].step \in Taking => call[d].snap # n
    BY <1>2 DEF SnapshotTaken, RowsInv
  <2>2. archive' = archive \cup {n} /\ drawn' = drawn /\ snapSite' = snapSite
    BY <1>2 DEF SnapshotTaken
  <2>3. \A d \in Calls : call'[d].step \in Taking => d # c /\ call'[d] = call[d]
    <3>1. ASSUME Returns(c) PROVE \A d \in Calls : call'[d].step \in Taking => d # c /\ call'[d] = call[d]
      <4>1. call'[c].step = "idle" /\ \A d \in Calls : d # c => call'[d] = call[d]
        BY <3>1, CallReturns DEF IdleCall
      <4> QED BY <4>1 DEF Taking
    <3>2. ASSUME Moves(c, "launch")
          PROVE  \A d \in Calls : call'[d].step \in Taking => d # c /\ call'[d] = call[d]
      <4>0. "launch" \in Steps
        BY DEF Steps
      <4>1. call'[c].step = "launch" /\ \A d \in Calls : d # c => call'[d] = call[d]
        BY <3>2, <4>0, CallMoves
      <4> QED BY <4>1 DEF Taking
    <3> QED BY <1>2, <3>1, <3>2 DEF SnapshotTaken
  <2> HIDE DEF s, n
  <2>4. CASE kept' = kept
    <3>1. archive \subseteq archive'
      BY <2>2
    <3>2. \A d \in Calls : call'[d].step \in Taking => call'[d] = call[d]
      BY <2>3
    <3> QED BY <2>2, <2>4, <3>1, <3>2, RowsUndisturbed
  <2>5. CASE snapSite[s] # "cleared" /\ kept' = [kept EXCEPT ![s] = Append(kept[s], n)]
    <3>1. kept \in [SnapSites -> Seq(Snaps)] /\ kept[s] \in Seq(Snaps)
      BY <2>1 DEF SnapshotsTypeOK
    <3>2. /\ kept'[s] = Append(kept[s], n) /\ \A t \in SnapSites : t # s => kept'[t] = kept[t]
      BY <2>5, <3>1, <2>1
    <3>3. Range(kept'[s]) = Range(kept[s]) \cup {n}
      BY <3>1, <3>2, RangeOfAppend
    <3>4. IsInjective(kept'[s])
      <4>1. IsInjective(kept[s]) /\ n \notin Range(kept[s])
        BY <2>1 DEF RowsInv
      <4> QED BY <3>1, <3>2, <4>1, InjectiveAppend
    <3>5. \A t \in SnapSites : IsInjective(kept'[t]) /\ Range(kept'[t]) \subseteq archive'
      BY <2>2, <3>2, <3>3, <3>4 DEF RowsInv
    <3>6. \A t \in SnapSites : (snapSite'[t] = "cleared" => kept'[t] = <<>>)
                               /\ \A m \in Range(kept'[t]) : m <= drawn'
      BY <2>1, <2>2, <2>5, <3>2, <3>3 DEF RowsInv
    <3>7. \A t, u \in SnapSites : t # u => \A m \in Range(kept'[t]) : m \notin Range(kept'[u])
      <4> SUFFICES ASSUME NEW t \in SnapSites, NEW u \in SnapSites, t # u, NEW m \in Range(kept'[t])
                   PROVE  m \notin Range(kept'[u])
        OBVIOUS
      <4>1. \A v, w \in SnapSites : v # w => \A x \in Range(kept[v]) : x \notin Range(kept[w])
        BY DEF RowsInv
      <4>2. CASE t = s
        BY <2>1, <3>2, <3>3, <4>1, <4>2
      <4>3. CASE t # s
        BY <2>1, <3>2, <3>3, <4>1, <4>3
      <4> QED BY <4>2, <4>3
    <3>8. \A d \in Calls : call'[d].step \in Taking =>
             /\ call'[d].site \in SnapSites /\ call'[d].snap \in Snaps /\ call'[d].snap <= drawn'
             /\ \A t \in SnapSites : call'[d].snap \notin Range(kept'[t])
      <4> SUFFICES ASSUME NEW d \in Calls, call'[d].step \in Taking
                   PROVE  /\ call'[d].site \in SnapSites /\ call'[d].snap \in Snaps /\ call'[d].snap <= drawn'
                          /\ \A t \in SnapSites : call'[d].snap \notin Range(kept'[t])
        OBVIOUS
      <4>1. d # c /\ call'[d] = call[d] /\ call[d].step \in Taking
        BY <2>3
      <4>2. /\ call[d].site \in SnapSites /\ call[d].snap \in Snaps /\ call[d].snap <= drawn
            /\ call[d].snap # n /\ \A t \in SnapSites : call[d].snap \notin Range(kept[t])
        BY <2>1, <4>1 DEF RowsInv
      <4> QED BY <2>2, <3>2, <3>3, <4>1, <4>2
    <3>9. \A d, e \in Calls : d # e /\ call'[d].step \in Taking /\ call'[e].step \in Taking =>
             call'[d].snap # call'[e].snap
      BY <2>3 DEF RowsInv
    <3> QED BY <3>5, <3>6, <3>7, <3>8, <3>9 DEF RowsInv
  <2> QED BY <1>2, <2>4, <2>5 DEF SnapshotTaken, s, n
<1>3. ASSUME NEW c \in Calls,
             TakeFails(c) \/ RestoreDone(c) \/ RestoreMissed(c) \/ RestoreFails(c) \/ CloneFails(c)
      PROVE  RowsInv'
  <2>1. Returns(c)
    BY <1>3 DEF TakeFails, RestoreDone, RestoreMissed, RestoreFails, CloneFails
  <2>2. call'[c].step = "idle" /\ \A d \in Calls : d # c => call'[d] = call[d]
    BY <2>1, CallReturns DEF IdleCall
  <2>3. \A d \in Calls : call'[d].step \in Taking => call'[d] = call[d]
    BY <2>2 DEF Taking
  <2>4. UNCHANGED <<kept, drawn, snapSite>> /\ archive \subseteq archive'
    BY <1>3 DEF TakeFails, RestoreDone, RestoreMissed, RestoreFails, CloneFails
  <2> QED BY <2>3, <2>4, RowsUndisturbed
<1>4. ASSUME NEW c \in Calls, ContentCleared(c) \/ ContentPut(c) PROVE RowsInv'
  <2>0. "cleared" \in Steps /\ "put" \in Steps
    BY DEF Steps
  <2>1. Moves(c, "cleared") \/ Moves(c, "put")
    BY <1>4 DEF ContentCleared, ContentPut
  <2>2. (call'[c].step = "cleared" \/ call'[c].step = "put") /\ \A d \in Calls : d # c => call'[d] = call[d]
    BY <2>0, <2>1, CallMoves
  <2>3. \A d \in Calls : call'[d].step \in Taking => call'[d] = call[d]
    BY <2>2 DEF Taking
  <2>4. UNCHANGED <<kept, drawn, snapSite, archive>>
    BY <1>4 DEF ContentCleared, ContentPut
  <2> QED BY <2>3, <2>4, RowsUndisturbed
<1>5. ASSUME NEW c \in Calls, NEW t \in SnapSites, CloneLaunched(c, t) PROVE RowsInv'
  <2>1. /\ \A d \in Calls : call'[d].step \in Taking => call'[d] = call[d]
        /\ UNCHANGED <<kept, drawn, archive>>
        /\ \A s \in SnapSites : snapSite'[s] = "cleared" => snapSite[s] = "cleared"
    BY <1>0, <1>5 DEF CloneLaunched, Taking, SnapshotsTypeOK
  <2> QED BY <2>1, RowsUndisturbed
<1>6. ASSUME NEW c \in Calls, NEW s \in Originals, NEW n \in Snaps, RestoreSnapshot(c, s, n) PROVE RowsInv'
  <2>1. /\ \A d \in Calls : call'[d].step \in Taking => call'[d] = call[d]
        /\ UNCHANGED <<kept, drawn, archive, snapSite>>
    BY <1>0, <1>6 DEF RestoreSnapshot, Taking
  <2> QED BY <2>1, RowsUndisturbed
<1>7. ASSUME NEW s \in Originals, NEW n \in Snaps, DeleteSnapshot(s, n) PROVE RowsInv'
  <2>1. s \in SnapSites /\ n \in Range(kept[s]) /\ Drop(s, n) /\ UNCHANGED <<snapSite, drawn, call>>
    BY <1>0, <1>7 DEF DeleteSnapshot
  <2>2. /\ \A t \in SnapSites :
              /\ IsInjective(kept'[t]) /\ Range(kept'[t]) \subseteq archive'
              /\ Range(kept'[t]) \subseteq Range(kept[t])
              /\ kept[t] = <<>> => kept'[t] = <<>>
        /\ \A t, u \in SnapSites : t # u => \A m \in Range(kept'[t]) : m \notin Range(kept'[u])
    BY <2>1, DropRows
  <2>3. \A t \in SnapSites : (snapSite'[t] = "cleared" => kept'[t] = <<>>)
                             /\ \A m \in Range(kept'[t]) : m <= drawn'
    BY <2>1, <2>2 DEF RowsInv
  <2>4. \A d \in Calls : call'[d].step \in Taking =>
           /\ call'[d].site \in SnapSites /\ call'[d].snap \in Snaps /\ call'[d].snap <= drawn'
           /\ \A t \in SnapSites : call'[d].snap \notin Range(kept'[t])
    BY <2>1, <2>2 DEF RowsInv
  <2>5. \A d, e \in Calls : d # e /\ call'[d].step \in Taking /\ call'[e].step \in Taking =>
           call'[d].snap # call'[e].snap
    BY <2>1 DEF RowsInv
  <2> QED BY <2>2, <2>3, <2>4, <2>5 DEF RowsInv
<1>8. ASSUME SitesCleared \/ UNCHANGED snapVars \/ \E s \in Originals : SiteEnds(s) PROVE RowsInv'
  <2>1. /\ UNCHANGED <<kept, drawn, archive, call>>
        /\ \A s \in SnapSites : snapSite'[s] = "cleared" => snapSite[s] = "cleared" \/ kept[s] = <<>>
    BY <1>8 DEF SitesCleared, SiteEnds, snapVars, SnapshotsTypeOK
  <2> QED BY <2>1, RowsUndisturbed
<1> QED BY <1>1, <1>2, <1>3, <1>4, <1>5, <1>6, <1>7, <1>8 DEF SnapshotsNext

\* A request that returns, or moves on to anything but a take, takes nothing.
LEMMA NoTakeBegins ==
    ASSUME SnapshotsTypeOK, NEW c \in Calls, NEW st \in Steps \ Taking,
           \/ Returns(c)
           \/ Moves(c, st)
           \/ \E s \in SnapSites, n \in Snaps : call' = [call EXCEPT ![c] = [step |-> "ask", site |-> s, snap |-> n]]
    PROVE  /\ call'[c].step \notin Taking
           /\ \A d \in Calls : d # c => call'[d] = call[d]
<1>1. ASSUME Returns(c)
      PROVE  call'[c].step \notin Taking /\ \A d \in Calls : d # c => call'[d] = call[d]
  <2>1. call'[c].step = "idle" /\ \A d \in Calls : d # c => call'[d] = call[d]
    BY <1>1, CallReturns DEF IdleCall
  <2> QED BY <2>1 DEF Taking
<1>2. ASSUME Moves(c, st)
      PROVE  call'[c].step \notin Taking /\ \A d \in Calls : d # c => call'[d] = call[d]
  <2>1. call'[c].step = st /\ \A d \in Calls : d # c => call'[d] = call[d]
    BY <1>2, CallMoves
  <2> QED BY <2>1
<1>3. ASSUME NEW s \in SnapSites, NEW n \in Snaps,
             call' = [call EXCEPT ![c] = [step |-> "ask", site |-> s, snap |-> n]]
      PROVE  call'[c].step \notin Taking /\ \A d \in Calls : d # c => call'[d] = call[d]
  BY <1>3 DEF SnapshotsTypeOK, Taking
<1> QED BY <1>1, <1>2, <1>3

----------------------------------------------------------------------------
\* The limit: a site whose snapshots are taken one at a time has room for the
\* one that is being taken.
LimitInv ==
    \A s \in SnapSites \ crowded :
       /\ Len(kept[s]) <= MaxSnapshots
       /\ SomeCall(s, Taking) => Len(kept[s]) < MaxSnapshots
       /\ \A c, d \in Calls : Waits(c, s, Taking) /\ Waits(d, s, Taking) => c = d

\* Requests that begin no take, and rows that grow no longer, break no limit.
LEMMA LimitUndisturbed ==
    ASSUME SnapshotsTypeOK, SnapshotsTypeOK', LimitInv, crowded' = crowded,
           \A s \in SnapSites : Len(kept'[s]) <= Len(kept[s]),
           \A c \in Calls : call'[c].step \in Taking => call'[c] = call[c]
    PROVE  LimitInv'
<1> SUFFICES ASSUME NEW s \in SnapSites \ crowded
             PROVE  /\ Len(kept'[s]) <= MaxSnapshots
                    /\ SomeCall(s, Taking)' => Len(kept'[s]) < MaxSnapshots
                    /\ \A c, d \in Calls : Waits(c, s, Taking)' /\ Waits(d, s, Taking)' => c = d
  BY DEF LimitInv
<1>1. Len(kept[s]) \in Nat /\ Len(kept'[s]) \in Nat /\ MaxSnapshots \in Nat
      /\ Len(kept'[s]) <= Len(kept[s])
  BY LimitAssumption DEF SnapshotsTypeOK
<1>2. /\ Len(kept[s]) <= MaxSnapshots
      /\ SomeCall(s, Taking) => Len(kept[s]) < MaxSnapshots
      /\ \A c, d \in Calls : Waits(c, s, Taking) /\ Waits(d, s, Taking) => c = d
  BY DEF LimitInv
<1>3. \A c \in Calls : Waits(c, s, Taking)' => Waits(c, s, Taking)
  BY DEF Waits
<1>4. SomeCall(s, Taking)' => SomeCall(s, Taking)
  BY <1>3 DEF SomeCall
<1> QED BY <1>1, <1>2, <1>3, <1>4

LEMMA LimitStep ==
    /\ SnapshotsTypeOK /\ RestoresTyped /\ RowsInv /\ LimitInv /\ SnapshotsTypeOK'
    /\ [SnapshotsNext]_snapVars
    => LimitInv'
<1> SUFFICES ASSUME SnapshotsTypeOK, RestoresTyped, RowsInv, LimitInv, SnapshotsTypeOK', [SnapshotsNext]_snapVars
             PROVE  LimitInv'
  OBVIOUS
<1>0. Originals \subseteq SnapSites /\ {"idle", "launch", "cleared", "put"} \subseteq Steps \ Taking
  BY DEF Originals, Steps, Taking
<1>a. \A s \in SnapSites : Len(kept[s]) \in Nat /\ Len(kept'[s]) \in Nat
  BY DEF SnapshotsTypeOK
<1>1. ASSUME NEW c \in Calls, NEW s \in Originals, NEW step \in {"take", "copy"}, TakeSnapshot(c, s, step)
      PROVE  LimitInv'
  <2>1. s \in SnapSites /\ crowded' = IF SomeCall(s, Taking) THEN crowded \cup {s} ELSE crowded
    BY <1>0, <1>1 DEF TakeSnapshot
  <2>2. /\ call'[c].site = s
        /\ \A d \in Calls : d # c => call'[d] = call[d]
    BY <1>1 DEF TakeSnapshot, SnapshotsTypeOK
  <2>3. /\ Len(kept'[s]) < MaxSnapshots \/ s \in crowded
        /\ \A t \in SnapSites : t # s => kept'[t] = kept[t]
    <3>1. CASE Full(s) /\ Drop(s, Head(kept[s]))
      <4>1. kept[s] \in Seq(Snaps) /\ Len(kept[s]) >= 1
        BY <2>1, <3>1, LimitAssumption DEF Full, SnapshotsTypeOK
      <4>2. Head(kept[s]) \in Range(kept[s])
        BY <4>1, RangeEquality
      <4>3. Len(kept'[s]) = Len(kept[s]) - 1 /\ \A t \in SnapSites : t # s => kept'[t] = kept[t]
        BY <2>1, <3>1, <4>2, DropEffect
      <4>4. s \in crowded \/ Len(kept[s]) <= MaxSnapshots
        BY <2>1 DEF LimitInv
      <4>5. Len(kept[s]) \in Nat /\ MaxSnapshots \in Nat
        BY <4>1, LimitAssumption
      <4> QED BY ONLY <4>3, <4>4, <4>5
    <3>2. CASE ~Full(s) /\ UNCHANGED <<kept, archive, stamped, blurred>>
      <4>1. ~(Len(kept[s]) >= MaxSnapshots) /\ kept' = kept
        BY <3>2 DEF Full
      <4>2. Len(kept[s]) \in Nat /\ MaxSnapshots \in Nat
        BY <1>a, <2>1, LimitAssumption
      <4> QED BY ONLY <4>1, <4>2
    <3> QED BY <1>1, <3>1, <3>2 DEF TakeSnapshot
  <2> SUFFICES ASSUME NEW t \in SnapSites \ crowded'
               PROVE  /\ Len(kept'[t]) <= MaxSnapshots
                      /\ SomeCall(t, Taking)' => Len(kept'[t]) < MaxSnapshots
                      /\ \A d, e \in Calls : Waits(d, t, Taking)' /\ Waits(e, t, Taking)' => d = e
    BY DEF LimitInv
  <2>4. CASE t = s
    <3>1. s \notin crowded /\ ~SomeCall(s, Taking)
      BY <2>1, <2>4
    <3>2. \A d \in Calls : Waits(d, s, Taking)' => d = c
      BY <2>2, <3>1 DEF SomeCall, Waits
    <3>3. Len(kept'[s]) < MaxSnapshots /\ Len(kept'[s]) \in Nat /\ MaxSnapshots \in Nat
      BY <1>a, <2>1, <2>3, <3>1, LimitAssumption
    <3>4. Len(kept'[s]) <= MaxSnapshots
      BY ONLY <3>3
    <3> QED BY <2>4, <3>2, <3>3, <3>4
  <2>5. CASE t # s
    <3>1. t \notin crowded /\ kept'[t] = kept[t]
      BY <2>1, <2>3, <2>5
    <3>2. \A d \in Calls : Waits(d, t, Taking)' => Waits(d, t, Taking)
      BY <2>2, <2>5 DEF Waits
    <3> QED BY <3>1, <3>2 DEF LimitInv, SomeCall
  <2> QED BY <2>4, <2>5
<1>2. ASSUME NEW c \in Calls, SnapshotTaken(c) PROVE LimitInv'
  <2> DEFINE s == call[c].site
             n == call[c].snap
  <2>1. s \in SnapSites /\ n \in Snaps /\ Waits(c, s, Taking) /\ crowded' = crowded
    BY <1>2 DEF SnapshotTaken, RowsInv, Waits
  <2>2. call'[c].step \notin Taking /\ \A d \in Calls : d # c => call'[d] = call[d]
    BY <1>0, <1>2, NoTakeBegins DEF SnapshotTaken
  <2>3. kept' = kept \/ kept' = [kept EXCEPT ![s] = Append(kept[s], n)]
    BY <1>2 DEF SnapshotTaken
  <2> HIDE DEF s, n
  <2> SUFFICES ASSUME NEW t \in SnapSites \ crowded
               PROVE  /\ Len(kept'[t]) <= MaxSnapshots
                      /\ SomeCall(t, Taking)' => Len(kept'[t]) < MaxSnapshots
                      /\ \A d, e \in Calls : Waits(d, t, Taking)' /\ Waits(e, t, Taking)' => d = e
    BY <2>1 DEF LimitInv
  <2>4. \A d \in Calls : Waits(d, t, Taking)' => Waits(d, t, Taking) /\ d # c
    BY <2>2 DEF Waits
  <2>5. CASE t = s
    <3>1. Len(kept[t]) < MaxSnapshots /\ \A d \in Calls : Waits(d, t, Taking) => d = c
      BY <2>1, <2>5 DEF LimitInv, SomeCall
    <3>2. \A d \in Calls : ~Waits(d, t, Taking)'
      BY <2>4, <3>1
    <3>3. Len(kept'[t]) = Len(kept[t]) \/ Len(kept'[t]) = Len(kept[t]) + 1
      BY <2>1, <2>3, <2>5 DEF SnapshotsTypeOK
    <3>4. Len(kept[t]) \in Nat /\ MaxSnapshots \in Nat
      BY <1>a, LimitAssumption
    <3>5. Len(kept'[t]) <= MaxSnapshots
      BY ONLY <3>1, <3>3, <3>4
    <3> QED BY <3>2, <3>5 DEF SomeCall
  <2>6. CASE t # s
    <3>1. kept'[t] = kept[t]
      BY <2>1, <2>3, <2>6 DEF SnapshotsTypeOK
    <3> QED BY <2>4, <3>1 DEF LimitInv, SomeCall
  <2> QED BY <2>5, <2>6
<1>3. ASSUME NEW c \in Calls,
             \/ TakeFails(c) \/ RestoreDone(c) \/ RestoreMissed(c) \/ RestoreFails(c) \/ CloneFails(c)
             \/ ContentCleared(c) \/ ContentPut(c)
             \/ \E t \in SnapSites : CloneLaunched(c, t)
             \/ \E s \in Originals, n \in Snaps : RestoreSnapshot(c, s, n)
      PROVE  LimitInv'
  <2>1. /\ UNCHANGED <<kept, crowded>>
        /\ \/ Returns(c) \/ Moves(c, "cleared") \/ Moves(c, "put")
           \/ \E s \in SnapSites, n \in Snaps : call' = [call EXCEPT ![c] = [step |-> "ask", site |-> s, snap |-> n]]
    <3>1. CASE TakeFails(c) \/ RestoreDone(c) \/ RestoreMissed(c) \/ RestoreFails(c) \/ CloneFails(c)
               \/ ContentCleared(c) \/ ContentPut(c)
      BY <3>1 DEF TakeFails, RestoreDone, RestoreMissed, RestoreFails, CloneFails, ContentCleared, ContentPut
    <3>2. CASE \E t \in SnapSites : CloneLaunched(c, t)
      <4>1. PICK t \in SnapSites : CloneLaunched(c, t)
        BY <3>2
      <4>2. call[c].snap \in Snaps
        BY <4>1 DEF CloneLaunched, RestoresTyped
      <4> QED BY <4>1, <4>2 DEF CloneLaunched
    <3>3. CASE \E s \in Originals, n \in Snaps : RestoreSnapshot(c, s, n)
      BY <1>0, <3>3 DEF RestoreSnapshot
    <3> QED BY <1>3, <3>1, <3>2, <3>3
  <2>2. call'[c].step \notin Taking /\ \A d \in Calls : d # c => call'[d] = call[d]
    BY <1>0, <2>1, NoTakeBegins
  <2>3. \A s \in SnapSites : Len(kept'[s]) <= Len(kept[s])
    BY <1>a, <2>1
  <2> QED BY <2>1, <2>2, <2>3, LimitUndisturbed
<1>4. ASSUME NEW s \in Originals, NEW n \in Snaps, DeleteSnapshot(s, n) PROVE LimitInv'
  <2>1. s \in SnapSites /\ n \in Range(kept[s]) /\ Drop(s, n) /\ UNCHANGED <<crowded, call>>
    BY <1>0, <1>4 DEF DeleteSnapshot
  <2>2. Len(kept'[s]) = Len(kept[s]) - 1 /\ \A t \in SnapSites : t # s => kept'[t] = kept[t]
    BY <2>1, DropEffect
  <2>3. \A t \in SnapSites : Len(kept'[t]) <= Len(kept[t])
    BY <1>a, <2>2
  <2> QED BY <2>1, <2>3, LimitUndisturbed
<1>5. ASSUME SitesCleared \/ UNCHANGED snapVars \/ \E s \in Originals : SiteEnds(s) PROVE LimitInv'
  <2>1. UNCHANGED <<kept, call, crowded>>
    BY <1>5 DEF SitesCleared, SiteEnds, snapVars
  <2>2. \A t \in SnapSites : Len(kept'[t]) <= Len(kept[t])
    BY <1>a, <2>1
  <2> QED BY <2>1, <2>2, LimitUndisturbed
<1> QED BY <1>1, <1>2, <1>3, <1>4, <1>5 DEF SnapshotsNext

----------------------------------------------------------------------------
\* The badge: one restore at a time is at work on a site, what it put is what
\* the site holds, and the last stamp tells it once no restore is under way.
BadgeInv ==
    /\ CloneSites \subseteq blurred
    /\ \A s \in Originals : snapSite[s] # "absent"
    /\ \A s \in Originals \ blurred :
          /\ \A c, d \in Calls : Waits(c, s, Restoring) /\ Waits(d, s, Restoring) => c = d
          /\ \A c \in Calls : Waits(c, s, {"put"}) => content[s] = call[c].snap
          /\ stamped[s] # <<>> /\ ~SomeCall(s, {"cleared", "put"}) => Last(stamped[s]) = content[s]

\* Steps that leave every restore and every content as they are.
LEMMA BadgeUndisturbed ==
    ASSUME BadgeInv, UNCHANGED content, blurred \subseteq blurred',
           \A s \in Originals : snapSite'[s] # "absent",
           \A s \in Originals \ blurred' :
              stamped'[s] # <<>> => stamped[s] # <<>> /\ Last(stamped'[s]) = Last(stamped[s]),
           \A c \in Calls : call[c].step \in Restoring \/ call'[c].step \in Restoring => call'[c] = call[c]
    PROVE  BadgeInv'
<1> SUFFICES ASSUME NEW s \in Originals \ blurred'
             PROVE  /\ \A c, d \in Calls : Waits(c, s, Restoring)' /\ Waits(d, s, Restoring)' => c = d
                    /\ \A c \in Calls : Waits(c, s, {"put"})' => content'[s] = call'[c].snap
                    /\ stamped'[s] # <<>> /\ ~SomeCall(s, {"cleared", "put"})' => Last(stamped'[s]) = content'[s]
  BY DEF BadgeInv
<1>1. s \in Originals \ blurred
  OBVIOUS
<1>2. \A c \in Calls : /\ Waits(c, s, Restoring)' => Waits(c, s, Restoring)
                       /\ Waits(c, s, {"put"})' => Waits(c, s, {"put"}) /\ call'[c] = call[c]
                       /\ Waits(c, s, {"cleared", "put"}) => Waits(c, s, {"cleared", "put"})'
  BY DEF Waits, Restoring
<1>3. SomeCall(s, {"cleared", "put"}) => SomeCall(s, {"cleared", "put"})'
  BY <1>2 DEF SomeCall
<1>4. stamped'[s] # <<>> => stamped[s] # <<>> /\ Last(stamped'[s]) = Last(stamped[s])
  OBVIOUS
<1> QED BY <1>1, <1>2, <1>3, <1>4 DEF BadgeInv

\* A step of the restore of one site leaves the other sites' badges as they are.
LEMMA BadgeElsewhere ==
    ASSUME BadgeInv, NEW c \in Calls, NEW s \in Originals \ blurred',
           s \in Originals \ blurred, content'[s] = content[s], stamped'[s] = stamped[s],
           call[c].site # s \/ call[c].step \notin Restoring, call'[c].site # s \/ call'[c].step \notin Restoring,
           \A d \in Calls : d # c => call'[d] = call[d]
    PROVE  /\ \A d, e \in Calls : Waits(d, s, Restoring)' /\ Waits(e, s, Restoring)' => d = e
           /\ \A d \in Calls : Waits(d, s, {"put"})' => content'[s] = call'[d].snap
           /\ stamped'[s] # <<>> /\ ~SomeCall(s, {"cleared", "put"})' => Last(stamped'[s]) = content'[s]
<1>1. \A d \in Calls : /\ Waits(d, s, Restoring)' => Waits(d, s, Restoring)
                       /\ Waits(d, s, {"put"})' => Waits(d, s, {"put"}) /\ call'[d] = call[d]
                       /\ Waits(d, s, {"cleared", "put"}) => Waits(d, s, {"cleared", "put"})'
  BY DEF Waits, Restoring
<1>2. SomeCall(s, {"cleared", "put"}) => SomeCall(s, {"cleared", "put"})'
  BY <1>1 DEF SomeCall
<1> QED BY <1>1, <1>2 DEF BadgeInv

LEMMA BadgeStep ==
    /\ SnapshotsTypeOK /\ RestoresTyped /\ RowsInv /\ BadgeInv /\ SnapshotsTypeOK'
    /\ [SnapshotsNext]_snapVars
    => BadgeInv'
<1> SUFFICES ASSUME SnapshotsTypeOK, RestoresTyped, RowsInv, BadgeInv, SnapshotsTypeOK', [SnapshotsNext]_snapVars
             PROVE  BadgeInv'
  OBVIOUS
<1>0. Originals \subseteq SnapSites /\ {"idle", "launch", "cleared", "put"} \subseteq Steps
  BY DEF Originals, Steps
<1>1. ASSUME NEW c \in Calls, NEW s \in Originals, NEW step \in {"take", "copy"}, TakeSnapshot(c, s, step)
      PROVE  BadgeInv'
  <2>1. /\ UNCHANGED <<content, snapSite>> /\ s \in SnapSites
        /\ call[c].step = "idle" /\ call'[c].step = step
        /\ \A d \in Calls : d # c => call'[d] = call[d]
    BY <1>0, <1>1 DEF TakeSnapshot, IdleCall, SnapshotsTypeOK
  <2>2. \A d \in Calls : call[d].step \in Restoring \/ call'[d].step \in Restoring => call'[d] = call[d]
    BY <2>1 DEF Restoring
  <2>3. /\ blurred \subseteq blurred'
        /\ \A t \in Originals \ blurred' :
              stamped'[t] # <<>> => stamped[t] # <<>> /\ Last(stamped'[t]) = Last(stamped[t])
    <3>1. CASE Full(s) /\ Drop(s, Head(kept[s]))
      <4>1. kept[s] \in Seq(Snaps) /\ Len(kept[s]) >= 1
        BY <2>1, <3>1, LimitAssumption DEF Full, SnapshotsTypeOK
      <4>2. Head(kept[s]) \in Range(kept[s])
        BY <4>1, RangeEquality
      <4>3. /\ blurred \subseteq blurred'
            /\ \A t \in SnapSites : t # s => stamped'[t] = stamped[t]
            /\ s \notin blurred' /\ stamped[s] # <<>> => Last(stamped'[s]) = Last(stamped[s])
            /\ stamped'[s] # <<>> => stamped[s] # <<>>
        BY <2>1, <3>1, <4>2, DropEffect
      <4> QED BY <1>0, <4>3
    <3>2. CASE UNCHANGED <<stamped, blurred>>
      BY <3>2
    <3> QED BY <1>1, <3>1, <3>2 DEF TakeSnapshot
  <2> QED BY <2>1, <2>2, <2>3, BadgeUndisturbed DEF BadgeInv
<1>2. ASSUME NEW c \in Calls, SnapshotTaken(c) \/ TakeFails(c) \/ CloneFails(c) PROVE BadgeInv'
  <2>1. /\ UNCHANGED <<content, snapSite, stamped, blurred>>
        /\ call[c].step \notin Restoring
        /\ Returns(c) \/ Moves(c, "launch")
    BY <1>2 DEF SnapshotTaken, TakeFails, CloneFails, Taking, Restoring
  <2>2. call'[c].step \notin Restoring /\ \A d \in Calls : d # c => call'[d] = call[d]
    <3>1. (call'[c].step = "idle" \/ call'[c].step = "launch") /\ \A d \in Calls : d # c => call'[d] = call[d]
      <4>1. ASSUME Returns(c) PROVE call'[c].step = "idle" /\ \A d \in Calls : d # c => call'[d] = call[d]
        BY <4>1, CallReturns DEF IdleCall
      <4>2. ASSUME Moves(c, "launch")
            PROVE  call'[c].step = "launch" /\ \A d \in Calls : d # c => call'[d] = call[d]
        <5>1. "launch" \in Steps
          BY <1>0
        <5> QED BY <4>2, <5>1, CallMoves
      <4> QED BY <2>1, <4>1, <4>2
    <3> QED BY <3>1 DEF Restoring
  <2>3. \A d \in Calls : call[d].step \in Restoring \/ call'[d].step \in Restoring => call'[d] = call[d]
    BY <2>1, <2>2
  <2>4. \A t \in Originals : snapSite'[t] # "absent"
    BY <2>1 DEF BadgeInv
  <2> QED BY <2>1, <2>3, <2>4, BadgeUndisturbed
<1>3. ASSUME NEW c \in Calls, NEW s \in Originals, NEW n \in Snaps, RestoreSnapshot(c, s, n) PROVE BadgeInv'
  <2>1. /\ UNCHANGED <<content, snapSite, stamped>>
        /\ call[c].step = "idle" /\ call'[c].step = "ask" /\ call'[c].site = s
        /\ \A d \in Calls : d # c => call'[d] = call[d]
        /\ blurred' = IF SomeCall(s, Restoring) THEN blurred \cup {s} ELSE blurred
    BY <1>3 DEF RestoreSnapshot, IdleCall, SnapshotsTypeOK
  <2> SUFFICES ASSUME NEW t \in Originals \ blurred'
               PROVE  /\ \A d, e \in Calls : Waits(d, t, Restoring)' /\ Waits(e, t, Restoring)' => d = e
                      /\ \A d \in Calls : Waits(d, t, {"put"})' => content'[t] = call'[d].snap
                      /\ stamped'[t] # <<>> /\ ~SomeCall(t, {"cleared", "put"})' => Last(stamped'[t]) = content'[t]
    BY <2>1 DEF BadgeInv
  <2>2. t \in Originals \ blurred
    BY <2>1
  <2>3. CASE t # s
    <3>1. /\ content'[t] = content[t] /\ stamped'[t] = stamped[t]
          /\ call[c].step \notin Restoring /\ call'[c].site # t
      BY <2>1, <2>3 DEF Restoring
    <3>2. \A d \in Calls : d # c => call'[d] = call[d]
      BY <2>1
    <3> QED BY <2>2, <3>1, <3>2, BadgeElsewhere
  <2>4. CASE t = s
    <3>1. \A d \in Calls : ~Waits(d, t, Restoring)
      BY <2>1, <2>4 DEF SomeCall
    <3>2. \A d \in Calls : Waits(d, t, Restoring)' => d = c
      BY <2>1, <3>1 DEF Waits
    <3>3. \A d \in Calls : ~Waits(d, t, {"put"})' /\ ~Waits(d, t, {"cleared", "put"})
      BY <2>1, <3>1 DEF Waits, Restoring
    <3>4. stamped[t] # <<>> => Last(stamped[t]) = content[t]
      BY <2>2, <3>3 DEF BadgeInv, SomeCall
    <3> QED BY <2>1, <3>2, <3>3, <3>4
  <2> QED BY <2>3, <2>4
<1>4. ASSUME NEW c \in Calls, NEW what, NEW st \in {"cleared", "put"},
             call[c].step \in {"ask", "cleared"}, Holds(call[c].site, what), Moves(c, st),
             UNCHANGED <<snapSite, stamped, blurred>>,
             st = "put" => what = call[c].snap
      PROVE  BadgeInv'
  <2>1. st \in Steps
    BY <1>0
  <2>2. /\ call'[c].step = st /\ call'[c].site = call[c].site /\ call'[c].snap = call[c].snap
        /\ \A d \in Calls : d # c => call'[d] = call[d]
    BY <1>4, <2>1, CallMoves
  <2> SUFFICES ASSUME NEW t \in Originals \ blurred'
               PROVE  /\ \A d, e \in Calls : Waits(d, t, Restoring)' /\ Waits(e, t, Restoring)' => d = e
                      /\ \A d \in Calls : Waits(d, t, {"put"})' => content'[t] = call'[d].snap
                      /\ stamped'[t] # <<>> /\ ~SomeCall(t, {"cleared", "put"})' => Last(stamped'[t]) = content'[t]
    BY <1>4 DEF BadgeInv
  <2>3. t \in Originals \ blurred
    BY <1>4
  <2>4. CASE t # call[c].site
    <3>1. content'[t] = content[t]
      BY <1>4, <2>4 DEF Holds
    <3>2. call'[c].site # t /\ call[c].site # t /\ stamped'[t] = stamped[t]
      BY <1>4, <2>2, <2>4
    <3> QED BY <2>2, <2>3, <3>1, <3>2, BadgeElsewhere
  <2>5. CASE t = call[c].site
    <3>1. Waits(c, t, Restoring) /\ Waits(c, t, {"cleared", "put"})'
      BY <1>4, <2>2, <2>5 DEF Waits, Restoring
    <3>2. \A d \in Calls : Waits(d, t, Restoring) => d = c
      BY <2>3, <3>1 DEF BadgeInv
    <3>3. \A d \in Calls : Waits(d, t, Restoring)' => d = c
      BY <2>2, <3>2 DEF Waits
    <3>4. \A d \in Calls : Waits(d, t, {"put"})' => d = c /\ st = "put"
      BY <2>2, <3>3 DEF Waits, Restoring
    <3>5. content'[t] = what
      BY <1>4, <2>5 DEF Holds
    <3>6. SomeCall(t, {"cleared", "put"})'
      BY <3>1 DEF SomeCall
    <3> QED BY <1>4, <2>2, <3>3, <3>4, <3>5, <3>6
  <2> QED BY <2>4, <2>5
<1>5. ASSUME NEW c \in Calls, ContentCleared(c) \/ ContentPut(c) PROVE BadgeInv'
  <2>1. CASE ContentCleared(c)
    <3>1. /\ call[c].step \in {"ask", "cleared"} /\ Holds(call[c].site, Emptied) /\ Moves(c, "cleared")
          /\ UNCHANGED <<snapSite, stamped, blurred>>
      BY <2>1 DEF ContentCleared
    <3> QED BY <1>4, <3>1
  <2>2. CASE ContentPut(c)
    <3>1. /\ call[c].step \in {"ask", "cleared"} /\ Holds(call[c].site, call[c].snap) /\ Moves(c, "put")
          /\ UNCHANGED <<snapSite, stamped, blurred>>
      BY <2>2 DEF ContentPut
    <3> QED BY <1>4, <3>1
  <2> QED BY <1>5, <2>1, <2>2
<1>6. ASSUME NEW c \in Calls, RestoreDone(c) \/ RestoreMissed(c) \/ RestoreFails(c) PROVE BadgeInv'
  <2>1. /\ UNCHANGED <<content, snapSite>> /\ blurred \subseteq blurred' /\ Returns(c)
        /\ call[c].step \in Restoring
        /\ \A t \in SnapSites : t # call[c].site => stamped'[t] = stamped[t]
    BY <1>6 DEF RestoreDone, RestoreMissed, RestoreFails, Stamp, Restoring, SnapshotsTypeOK
  <2>2. call'[c].step \notin Restoring /\ \A d \in Calls : d # c => call'[d] = call[d]
    <3>1. call'[c].step = "idle" /\ \A d \in Calls : d # c => call'[d] = call[d]
      BY <2>1, CallReturns DEF IdleCall
    <3> QED BY <3>1 DEF Restoring
  <2> SUFFICES ASSUME NEW t \in Originals \ blurred'
               PROVE  /\ \A d, e \in Calls : Waits(d, t, Restoring)' /\ Waits(e, t, Restoring)' => d = e
                      /\ \A d \in Calls : Waits(d, t, {"put"})' => content'[t] = call'[d].snap
                      /\ stamped'[t] # <<>> /\ ~SomeCall(t, {"cleared", "put"})' => Last(stamped'[t]) = content'[t]
    BY <2>1 DEF BadgeInv
  <2>3. t \in Originals \ blurred /\ t \in SnapSites
    BY <1>0, <2>1
  <2>4. CASE t # call[c].site
    <3>1. content'[t] = content[t] /\ stamped'[t] = stamped[t]
      BY <2>1, <2>3, <2>4
    <3> QED BY <2>2, <2>3, <2>4, <3>1, BadgeElsewhere
  <2>5. CASE t = call[c].site
    <3>1. /\ call[c].step = "put" /\ call[c].snap \in Snaps
          /\ stamped' = [stamped EXCEPT ![t] = Append(RemoveFirst(stamped[t], call[c].snap), call[c].snap)]
      BY <1>6, <2>5 DEF RestoreDone, RestoreMissed, RestoreFails, Stamp, RestoresTyped, Restoring
    <3>2. Last(stamped'[t]) = call[c].snap
      <4>1. stamped[t] \in Seq(Snaps) /\ stamped \in [SnapSites -> Seq(Snaps)]
        BY <2>3 DEF SnapshotsTypeOK
      <4>2. RemoveFirst(stamped[t], call[c].snap) \in Seq(Snaps)
        BY <3>1, <4>1, RemoveFirstEffect
      <4>3. Last(Append(RemoveFirst(stamped[t], call[c].snap), call[c].snap)) = call[c].snap
        BY <3>1, <4>2, AppendProperties DEF Last
      <4> QED BY <2>3, <3>1, <4>1, <4>3
    <3>3. Waits(c, t, Restoring) /\ Waits(c, t, {"put"})
      BY <2>5, <3>1 DEF Waits, Restoring
    <3>4. /\ content[t] = call[c].snap
          /\ \A d \in Calls : Waits(d, t, Restoring) => d = c
      BY <2>3, <3>3 DEF BadgeInv
    <3>5. \A d \in Calls : ~Waits(d, t, Restoring)'
      BY <2>2, <3>4 DEF Waits
    <3>6. \A d \in Calls : ~Waits(d, t, {"put"})'
      BY <3>5 DEF Waits, Restoring
    <3> QED BY <2>1, <3>2, <3>4, <3>5, <3>6
  <2> QED BY <2>4, <2>5
<1>7. ASSUME NEW c \in Calls, NEW t \in SnapSites, CloneLaunched(c, t) PROVE BadgeInv'
  <2>1. /\ UNCHANGED <<content, stamped, blurred>>
        /\ t \notin Originals /\ snapSite' = [snapSite EXCEPT ![t] = "running"]
        /\ call[c].step = "launch" /\ call'[c].site = t
        /\ \A d \in Calls : d # c => call'[d] = call[d]
    BY <1>7 DEF CloneLaunched, BadgeInv, SnapshotsTypeOK
  <2>2. \A s \in Originals : snapSite'[s] # "absent"
    BY <1>0, <2>1 DEF SnapshotsTypeOK, BadgeInv
  <2> SUFFICES ASSUME NEW s \in Originals \ blurred'
               PROVE  /\ \A d, e \in Calls : Waits(d, s, Restoring)' /\ Waits(e, s, Restoring)' => d = e
                      /\ \A d \in Calls : Waits(d, s, {"put"})' => content'[s] = call'[d].snap
                      /\ stamped'[s] # <<>> /\ ~SomeCall(s, {"cleared", "put"})' => Last(stamped'[s]) = content'[s]
    BY <2>1, <2>2 DEF BadgeInv
  <2>3. call[c].step \notin Restoring /\ call'[c].site # s /\ s \in Originals \ blurred
    BY <2>1 DEF Restoring
  <2> QED BY <2>1, <2>3, BadgeElsewhere
<1>8. ASSUME NEW s \in Originals, NEW n \in Snaps, DeleteSnapshot(s, n) PROVE BadgeInv'
  <2>1. s \in SnapSites /\ n \in Range(kept[s]) /\ Drop(s, n) /\ UNCHANGED <<content, snapSite, call>>
    BY <1>0, <1>8 DEF DeleteSnapshot
  <2>2. /\ blurred \subseteq blurred'
        /\ \A t \in SnapSites : t # s => stamped'[t] = stamped[t]
        /\ s \notin blurred' /\ stamped[s] # <<>> => Last(stamped'[s]) = Last(stamped[s])
        /\ stamped'[s] # <<>> => stamped[s] # <<>>
    BY <2>1, DropEffect
  <2>3. \A t \in Originals \ blurred' :
           stamped'[t] # <<>> => stamped[t] # <<>> /\ Last(stamped'[t]) = Last(stamped[t])
    BY <1>0, <2>2
  <2> QED BY <2>1, <2>2, <2>3, BadgeUndisturbed DEF BadgeInv
<1>9. ASSUME SitesCleared \/ UNCHANGED snapVars \/ \E s \in Originals : SiteEnds(s) PROVE BadgeInv'
  <2>1. /\ UNCHANGED <<content, stamped, call, blurred>>
        /\ \A s \in Originals : snapSite'[s] # "absent"
    BY <1>0, <1>9 DEF SitesCleared, SiteEnds, snapVars, SnapshotsTypeOK, BadgeInv
  <2>2. \A t \in Originals \ blurred' :
           stamped'[t] # <<>> => stamped[t] # <<>> /\ Last(stamped'[t]) = Last(stamped[t])
    BY <2>1
  <2> QED BY <2>1, <2>2, BadgeUndisturbed
<1> QED BY <1>1, <1>2, <1>3, <1>5, <1>6, <1>7, <1>8, <1>9 DEF SnapshotsNext

----------------------------------------------------------------------------
SnapshotsInv == SnapshotsTypeOK /\ RestoresTyped /\ RowsInv /\ LimitInv /\ BadgeInv

LEMMA SnapshotsBegin == SnapshotsInit => SnapshotsInv
<1> SUFFICES ASSUME SnapshotsInit PROVE LimitInv /\ BadgeInv
  BY SnapshotsStart DEF SnapshotsInv
<1>1. \A s \in SnapSites : Len(kept[s]) = 0 /\ stamped[s] = <<>>
  BY DEF SnapshotsInit
<1>2. \A c \in Calls : call[c].step = "idle"
  BY DEF SnapshotsInit, IdleCall
<1>3. LimitInv
  BY <1>1, <1>2, LimitAssumption DEF LimitInv, SomeCall, Waits, Taking
<1>4. \A s \in Originals : snapSite[s] # "absent"
  BY DEF SnapshotsInit, Originals
<1>5. BadgeInv
  BY <1>1, <1>2, <1>4 DEF SnapshotsInit, BadgeInv, SomeCall, Waits, Restoring, Originals
<1> QED BY <1>3, <1>5

LEMMA SnapshotsStep == SnapshotsInv /\ [SnapshotsNext]_snapVars => SnapshotsInv'
  BY SnapshotsTypeStep, RowsStep, LimitStep, BadgeStep DEF SnapshotsInv

\* The invariant of the snapshots, inductive part by part.
THEOREM SnapshotsCorrect == SnapshotsSpec => []SnapshotsInv
  BY SnapshotsBegin, SnapshotsStep, PTL DEF SnapshotsSpec

\* The rows, archives, stamps and requests stay of their kinds (snapshot.service.ts).
THEOREM SnapshotsTypeCorrect == SnapshotsSpec => []SnapshotsTypeOK
<1>1. SnapshotsInv => SnapshotsTypeOK
  BY DEF SnapshotsInv
<1> QED BY <1>1, SnapshotsCorrect, PTL

LEMMA LimitFollows == SnapshotsInv => SnapshotLimit
  BY DEF SnapshotsInv, LimitInv, SnapshotLimit

\* No site whose snapshots are taken one at a time keeps more of them than the
\* limit (takeSnapshot counts the rows before it awaits the archive).
THEOREM LimitKept == SnapshotsSpec => []SnapshotLimit
  BY LimitFollows, SnapshotsCorrect, PTL

LEMMA RowsFollow == SnapshotsInv => RowsHaveArchives
<1> SUFFICES ASSUME SnapshotsInv, NEW s \in SnapSites
             PROVE  /\ Range(kept[s]) \subseteq archive
                    /\ snapSite[s] = "cleared" => kept[s] = <<>>
                    /\ Cardinality(Range(kept[s])) = Len(kept[s])
  BY DEF RowsHaveArchives
<1>1. kept[s] \in Seq(Snaps) /\ IsInjective(kept[s])
  BY DEF SnapshotsInv, SnapshotsTypeOK, RowsInv
<1>2. Cardinality(Range(kept[s])) = Len(kept[s])
  BY <1>1, InjectiveCounts
<1> QED BY <1>2 DEF SnapshotsInv, RowsInv

\* Every row of a snapshot has its archive on disk and stands once, and no row
\* outlives its site (the order of archive and row in takeSnapshot and
\* deleteSnapshot, and the foreign key).
THEOREM RowsBacked == SnapshotsSpec => []RowsHaveArchives
  BY RowsFollow, SnapshotsCorrect, PTL

LEMMA BadgeFollows == SnapshotsInv => BadgeTellsContent
  BY DEF SnapshotsInv, BadgeInv, BadgeTellsContent, LastRestored

\* The snapshot badged as restored last is what the site holds, whatever else
\* is taken, deleted, cloned or expires meanwhile, as long as the site's restores
\* came one at a time and each of them was completed (restoreSnapshotToSite
\* stamps after the provisioner has answered, a 404 included).
THEOREM BadgeCorrect == SnapshotsSpec => []BadgeTellsContent
  BY BadgeFollows, SnapshotsCorrect, PTL

(***************************************************************************)
(* Boards, for any projects, columns and cards.  What the invariant needs  *)
(* beside the order is that the lists of rows are finite, which is no      *)
(* assumption: they start empty and grow by one.                           *)
(***************************************************************************)

\* The rows of S are numbered from 0 without a gap.
Filled(S, at) == {at[x] : x \in S} = 0..(Cardinality(S) - 1)

\* As many different places as there are rows, none past the last: no gap.
LEMMA OrderFills ==
    ASSUME NEW S, IsFiniteSet(S), NEW f \in [S -> 0..(Cardinality(S) - 1)],
           \A a, b \in S : a # b => f[a] # f[b],
           NEW at, \A x \in S : at[x] = f[x]
    PROVE  Filled(S, at)
<1> DEFINE T == 0..(Cardinality(S) - 1)
<1>1. Cardinality(S) \in Nat
  BY FS_CardinalityType
<1>2. IsFiniteSet(T) /\ Cardinality(T) = Cardinality(S)
  <2>1. 0 \in Int /\ Cardinality(S) - 1 \in Int
    BY <1>1
  <2>2. IsFiniteSet(T) /\ Cardinality(T) = IF 0 > Cardinality(S) - 1 THEN 0 ELSE Cardinality(S) - 1 - 0 + 1
    BY <2>1, FS_Interval
  <2> HIDE DEF T
  <2> QED BY <1>1, <2>2
<1>3. f \in Injection(S, T)
  BY DEF Injection, IsInjective
<1> HIDE DEF T
<1>4. f \in Surjection(S, T)
  BY <1>2, <1>3, FS_Injection
<1>5. \A y \in T : \E x \in S : f[x] = y
  BY <1>4 DEF Surjection
<1>6. \A x \in S : f[x] \in T
  BY DEF T
<1>7. {at[x] : x \in S} = T
  BY <1>5, <1>6
<1> QED BY <1>7 DEF Filled, T

\* A row numbered with the count of the others goes to their end.
LEMMA OneMore ==
    ASSUME NEW S, IsFiniteSet(S), NEW at, Filled(S, at), NEW x, x \notin S,
           NEW bt, bt[x] = Cardinality(S), \A y \in S : bt[y] = at[y]
    PROVE  Filled(S \cup {x}, bt)
<1>1. Cardinality(S) \in Nat /\ Cardinality(S \cup {x}) = Cardinality(S) + 1
  BY FS_CardinalityType, FS_AddElement
<1>2. {bt[y] : y \in S \cup {x}} = {at[y] : y \in S} \cup {Cardinality(S)}
  OBVIOUS
<1>3. 0..(Cardinality(S) - 1) \cup {Cardinality(S)} = 0..(Cardinality(S) + 1 - 1)
  BY ONLY <1>1
<1> QED BY <1>1, <1>2, <1>3 DEF Filled

LEMMA SameOrder ==
    ASSUME NEW S, NEW at, Filled(S, at), NEW bt, \A y \in S : bt[y] = at[y]
    PROVE  Filled(S, bt)
<1>1. {bt[y] : y \in S} = {at[y] : y \in S}
  OBVIOUS
<1> QED BY <1>1 DEF Filled

LEMMA EmptyOrder == ASSUME NEW at PROVE Filled({}, at)
<1>1. Cardinality({}) = 0 /\ 0..(0 - 1) = {}
  BY FS_EmptySet
<1> QED BY <1>1 DEF Filled

\* New places for the rows S that leave no gap, whatever writes them.
Fills(f, S) ==
    /\ IsFiniteSet(S) /\ DOMAIN f = S /\ \A x \in S : f[x] \in Nat
    /\ \A at : (\A x \in S : at[x] = f[x]) => Filled(S, at)

\* What sequentialPositions gives the rows it is given.
LEMMA RenumberingsFill ==
    ASSUME NEW S, NEW at, NEW f, IsFiniteSet(S), f \in Renumberings(S, at)
    PROVE  Fills(f, S)
<1>1. f \in [S -> 0..(Cardinality(S) - 1)] /\ \A a, b \in S : a # b => f[a] # f[b]
  BY DEF Renumberings
<1>2. Cardinality(S) \in Nat
  BY FS_CardinalityType
<1>3. \A x \in S : f[x] \in Nat
  BY <1>1, <1>2
<1>4. ASSUME NEW bt, \A x \in S : bt[x] = f[x] PROVE Filled(S, bt)
  BY <1>1, <1>4, OrderFills
<1> QED BY <1>1, <1>3, <1>4 DEF Fills

\* What moveWithinList gives a card and the cards around it.
LEMMA MovesFill ==
    ASSUME NEW S, NEW at, NEW x, NEW index, NEW f, IsFiniteSet(S), f \in MoveWithinList(S, at, x, index)
    PROVE  Fills(f, S \cup {x})
<1>1. /\ f \in [S \cup {x} -> 0..Cardinality(S \ {x})]
      /\ \A a, b \in S \cup {x} : a # b => f[a] # f[b]
  BY DEF MoveWithinList
<1>2. IsFiniteSet(S \ {x}) /\ (S \ {x}) \cup {x} = S \cup {x}
  BY FS_Subset
<1>3. /\ IsFiniteSet(S \cup {x}) /\ Cardinality(S \ {x}) \in Nat
      /\ Cardinality(S \cup {x}) = Cardinality(S \ {x}) + 1
  <2>1. x \notin S \ {x}
    OBVIOUS
  <2> QED BY <1>2, <2>1, FS_AddElement, FS_CardinalityType
<1>4. 0..Cardinality(S \ {x}) = 0..(Cardinality(S \cup {x}) - 1)
  BY ONLY <1>3
<1>5. f \in [S \cup {x} -> 0..(Cardinality(S \cup {x}) - 1)]
  BY <1>1, <1>4
<1>6. \A y \in S \cup {x} : f[y] \in Nat
  BY <1>1, <1>3
<1>7. ASSUME NEW bt, \A y \in S \cup {x} : bt[y] = f[y] PROVE Filled(S \cup {x}, bt)
  BY <1>1, <1>3, <1>5, <1>7, OrderFills
<1> QED BY <1>1, <1>3, <1>6, <1>7 DEF Fills

\* Whatever list a caller sends, each column of the board gets a position.
LEMMA ReorderedTyped ==
    ASSUME NEW owned, IsFiniteSet(owned), NEW S, NEW ids \in Seq(S), NEW f \in Reordered(owned, ids)
    PROVE  DOMAIN f = owned /\ \A x \in owned : f[x] \in Nat
<1> DEFINE listed == Listed(owned, ids)
           rest == {k \in owned : \A i \in listed : ids[i] # k}
<1>1. f \in [owned -> 0..(Cardinality(listed) + Cardinality(rest) - 1)]
  BY DEF Reordered
<1>2. IsFiniteSet(listed) /\ IsFiniteSet(rest)
  <2>1. IsFiniteSet(1..Len(ids)) /\ listed \subseteq 1..Len(ids) /\ rest \subseteq owned
    BY FS_Interval DEF Listed
  <2> QED BY <2>1, FS_Subset
<1>3. Cardinality(listed) \in Nat /\ Cardinality(rest) \in Nat
  BY <1>2, FS_CardinalityType
<1> HIDE DEF listed, rest
<1> QED BY <1>1, <1>3

\* A list that names no column twice leaves the board without a gap.
LEMMA ReorderedFill ==
    ASSUME NEW owned, IsFiniteSet(owned), NEW S, NEW ids \in Seq(S), ~NamesTwice(owned, ids),
           NEW f \in Reordered(owned, ids), NEW at, \A x \in owned : at[x] = f[x]
    PROVE  Filled(owned, at)
<1> DEFINE listed == Listed(owned, ids)
           rest == {k \in owned : \A i \in listed : ids[i] # k}
           n == Cardinality(listed)
           below(i) == {j \in listed : j < i}
<1>1. /\ f \in [owned -> 0..(n + Cardinality(rest) - 1)]
      /\ \A i \in listed : (\A j \in listed : j > i => ids[j] # ids[i]) => f[ids[i]] = Cardinality(below(i))
      /\ \A a, b \in rest : f[a] >= n /\ (a # b => f[a] # f[b])
  BY DEF Reordered
<1>2. /\ listed \subseteq 1..Len(ids) /\ listed \subseteq Nat
      /\ \A i \in listed : ids[i] \in owned
      /\ \A i, j \in listed : ids[i] = ids[j] => i = j
  BY DEF Listed, NamesTwice
<1>3. /\ IsFiniteSet(listed) /\ IsFiniteSet(rest) /\ IsFiniteSet(owned \ rest)
      /\ n \in Nat /\ Cardinality(rest) \in Nat /\ Cardinality(owned) \in Nat
  <2>1. IsFiniteSet(1..Len(ids)) /\ rest \subseteq owned /\ owned \ rest \subseteq owned
    BY FS_Interval
  <2>2. IsFiniteSet(listed) /\ IsFiniteSet(rest) /\ IsFiniteSet(owned \ rest)
    BY <1>2, <2>1, FS_Subset
  <2> QED BY <2>2, FS_CardinalityType
<1>4. \A x \in owned \ rest : \E i \in listed : ids[i] = x
  OBVIOUS
<1>5. \A i \in listed : ids[i] \in owned \ rest
  BY <1>2
<1>6. \A i \in listed : f[ids[i]] = Cardinality(below(i))
  <2> TAKE i \in listed
  <2>1. \A j \in listed : j > i => ids[j] # ids[i]
    BY <1>2
  <2> QED BY <1>1, <2>1
<1> HIDE DEF listed, rest
<1>7. Cardinality(owned) = n + Cardinality(rest)
  <2> DEFINE g == [i \in listed |-> ids[i]]
  <2>1. g \in Bijection(listed, owned \ rest)
    <3>1. g \in [listed -> owned \ rest] /\ \A i, j \in listed : g[i] = g[j] => i = j
      BY <1>2, <1>5
    <3>2. \A x \in owned \ rest : \E i \in listed : g[i] = x
      BY <1>4
    <3> QED BY <3>1, <3>2 DEF Bijection, Injection, Surjection, IsInjective
  <2>2. Cardinality(owned \ rest) = n
    BY <1>3, <2>1, FS_Bijection DEF ExistsBijection
  <2>3. Cardinality(owned \ rest) = Cardinality(owned) - Cardinality(owned \cap rest)
    BY FS_Difference
  <2>4. owned \cap rest = rest
    BY DEF rest
  <2>5. n = Cardinality(owned) - Cardinality(rest)
    BY <2>2, <2>3, <2>4
  <2> HIDE DEF n
  <2> QED BY <1>3, <2>5
<1>8. ASSUME NEW i \in listed PROVE Cardinality(below(i)) \in Nat /\ Cardinality(below(i)) < n
  <2>1. below(i) \subseteq listed /\ i \notin below(i)
    BY <1>2
  <2>2. /\ IsFiniteSet(below(i)) /\ Cardinality(below(i)) <= n
        /\ n = Cardinality(below(i)) => listed = below(i)
    BY <1>3, <2>1, FS_Subset
  <2>3. Cardinality(below(i)) \in Nat /\ Cardinality(below(i)) # n
    BY <2>1, <2>2, FS_CardinalityType
  <2> HIDE DEF n, below
  <2> QED BY <1>3, <2>2, <2>3
<1>9. ASSUME NEW i \in listed, NEW j \in listed, i < j PROVE Cardinality(below(i)) # Cardinality(below(j))
  <2>0. below(i) \subseteq below(j)
    <3> SUFFICES ASSUME NEW k \in listed, k < i PROVE k < j
      OBVIOUS
    <3>1. k \in Nat /\ i \in Nat /\ j \in Nat
      BY <1>2
    <3> QED BY ONLY <1>9, <3>1, k < i
  <2>1. below(i) \subseteq below(j) /\ i \in below(j) /\ i \notin below(i) /\ below(j) \subseteq listed
    <3>1. i \in Nat /\ ~(i < i)
      BY <1>2
    <3> QED BY <1>9, <2>0, <3>1
  <2>2. IsFiniteSet(below(j))
    BY <1>3, <2>1, FS_Subset
  <2>3. Cardinality(below(j)) = Cardinality(below(i)) => below(j) = below(i)
    BY <2>1, <2>2, FS_Subset
  <2> QED BY <2>1, <2>3
<1>10. ASSUME NEW a \in owned, NEW b \in owned, a # b PROVE f[a] # f[b]
  <2>1. CASE a \in rest /\ b \in rest
    BY <1>1, <1>10, <2>1
  <2>2. ASSUME NEW x \in rest, NEW y \in owned \ rest PROVE f[x] # f[y]
    <3>1. PICK i \in listed : ids[i] = y
      BY <1>4
    <3>2. f[y] = Cardinality(below(i))
      BY <1>6, <3>1
    <3>3. f[y] \in Nat /\ f[y] < n
      BY <1>8, <3>2
    <3>4. f[x] >= n
      BY <1>1
    <3> HIDE DEF n, below
    <3> QED BY <1>3, <3>3, <3>4
  <2>3. CASE a \notin rest /\ b \notin rest
    <3>1. PICK i \in listed : ids[i] = a
      BY <1>4, <2>3
    <3>2. PICK j \in listed : ids[j] = b
      BY <1>4, <2>3
    <3>3. i < j \/ j < i
      BY <1>2, <1>10, <3>1, <3>2
    <3>4. f[a] = Cardinality(below(i)) /\ f[b] = Cardinality(below(j))
      BY <1>6, <3>1, <3>2
    <3> HIDE DEF below
    <3> QED BY <1>9, <3>3, <3>4
  <2> QED BY <2>1, <2>2, <2>3
<1>11. f \in [owned -> 0..(Cardinality(owned) - 1)]
  <2>1. 0..(n + Cardinality(rest) - 1) = 0..(Cardinality(owned) - 1)
    <3>1. n \in Nat /\ Cardinality(rest) \in Nat
      BY <1>3
    <3> HIDE DEF n
    <3> QED BY ONLY <1>7, <3>1
  <2>2. f \in [owned -> 0..(n + Cardinality(rest) - 1)]
    BY <1>1
  <2> HIDE DEF n
  <2> QED BY <2>1, <2>2
<1> QED BY <1>10, <1>11, OrderFills

----------------------------------------------------------------------------
\* A card is in a column of a project that is there; boards and columns are finite.
Placed ==
    /\ \A k \in Columns : column[k].project # NoProject => column[k].project \in project
    /\ \A c \in Cards : card[c] # NoCardRow =>
          /\ card[c].column \in Columns /\ card[c].project \in project
          /\ card[c].project = column[card[c].column].project
    /\ \A p \in Projects : IsFiniteSet(ColumnsOf(p))
    /\ \A k \in Columns : IsFiniteSet(CardsIn(k))

BoardInv ==
    /\ BoardTypeOK /\ Placed
    /\ \A k \in Columns : Filled(CardsIn(k), CardAt)
    /\ \A p \in Projects \ doubled : Filled(ColumnsOf(p), ColumnAt)

LEMMA BoardStarts == BoardInit => BoardInv
<1> SUFFICES ASSUME BoardInit PROVE BoardInv
  OBVIOUS
<1>1. BoardTypeOK
  BY DEF BoardInit, BoardTypeOK, NoColumnRow, NoCardRow
<1>2. (\A p \in Projects : ColumnsOf(p) = {}) /\ \A k \in Columns : CardsIn(k) = {}
  BY NoColumnAssumption DEF BoardInit, ColumnsOf, CardsIn, NoColumnRow, NoCardRow
<1>3. Placed
  BY <1>2, FS_EmptySet DEF BoardInit, Placed, NoColumnRow
<1> QED BY <1>1, <1>2, <1>3, EmptyOrder DEF BoardInv

\* What stands of a row without a column.
LEMMA NoCards ==
    ASSUME BoardTypeOK, Placed, NEW c \in Cards
    PROVE  card[c] = NoCardRow <=> card[c].column = NoColumn
  BY NoColumnAssumption DEF Placed, NoCardRow

\* Columns whose cards, and projects whose columns, stay as they were keep their order.
LEMMA CardsStay ==
    ASSUME BoardInv, NEW k \in Columns, CardsIn(k)' = CardsIn(k), \A c \in CardsIn(k) : card'[c].position = card[c].position
    PROVE  IsFiniteSet(CardsIn(k)') /\ Filled(CardsIn(k), CardAt)'
<1>1. Filled(CardsIn(k), CardAt) /\ IsFiniteSet(CardsIn(k))
  BY DEF BoardInv, Placed
<1>2. \A c \in CardsIn(k) : CardAt'[c] = CardAt[c]
  BY DEF CardAt, CardsIn
<1>3. Filled(CardsIn(k), CardAt')
  BY <1>1, <1>2, SameOrder
<1> QED BY <1>1, <1>3 DEF Filled

LEMMA ColumnsStay ==
    ASSUME BoardInv, NEW p \in Projects, ColumnsOf(p)' = ColumnsOf(p),
           \A k \in ColumnsOf(p) : column'[k].position = column[k].position
    PROVE  IsFiniteSet(ColumnsOf(p)') /\ (p \notin doubled => Filled(ColumnsOf(p), ColumnAt)')
<1>1. (p \notin doubled => Filled(ColumnsOf(p), ColumnAt)) /\ IsFiniteSet(ColumnsOf(p))
  BY DEF BoardInv, Placed
<1>2. \A k \in ColumnsOf(p) : ColumnAt'[k] = ColumnAt[k]
  BY DEF ColumnAt, ColumnsOf
<1>3. p \notin doubled => Filled(ColumnsOf(p), ColumnAt')
  BY <1>1, <1>2, SameOrder
<1> QED BY <1>1, <1>3 DEF Filled

LEMMA CreateColumnStep ==
    ASSUME BoardInv, NEW k \in Columns, NEW p \in Projects, CreateColumn(k, p)
    PROVE  BoardInv'
<1>1. /\ p \in project /\ column[k] = NoColumnRow /\ UNCHANGED <<project, card, doubled>>
      /\ column' = [column EXCEPT ![k] = [project |-> p, position |-> Cardinality(ColumnsOf(p))]]
  BY DEF CreateColumn
<1>2. BoardTypeOK /\ Placed /\ IsFiniteSet(ColumnsOf(p)) /\ Cardinality(ColumnsOf(p)) \in Nat
  BY FS_CardinalityType DEF BoardInv, Placed
<1>3. BoardTypeOK'
  BY <1>1, <1>2 DEF BoardTypeOK
<1>4. /\ k \notin ColumnsOf(p) /\ ColumnsOf(p)' = ColumnsOf(p) \cup {k}
      /\ \A q \in Projects : q # p => ColumnsOf(q)' = ColumnsOf(q) /\ k \notin ColumnsOf(q)
  BY <1>1, <1>2, NoColumnAssumption DEF ColumnsOf, NoColumnRow, BoardTypeOK
<1>5. \A c \in Cards : card[c] # NoCardRow => card[c].column # k
  BY <1>1, <1>2, NoColumnAssumption DEF Placed, NoColumnRow, BoardTypeOK
<1>6. /\ column'[k] = [project |-> p, position |-> Cardinality(ColumnsOf(p))]
      /\ \A x \in Columns : x # k => column'[x] = column[x]
  BY <1>1, <1>2 DEF BoardTypeOK
<1>7. \A x \in Columns : IsFiniteSet(CardsIn(x)') /\ Filled(CardsIn(x), CardAt)'
  <2> TAKE x \in Columns
  <2>1. CardsIn(x)' = CardsIn(x) /\ \A c \in CardsIn(x) : card'[c].position = card[c].position
    BY <1>1 DEF CardsIn
  <2> QED BY <2>1, CardsStay
<1>8. \A q \in Projects : IsFiniteSet(ColumnsOf(q)') /\ (q \notin doubled => Filled(ColumnsOf(q), ColumnAt)')
  <2> TAKE q \in Projects
  <2>1. CASE q # p
    <3>1. ColumnsOf(q)' = ColumnsOf(q) /\ \A x \in ColumnsOf(q) : column'[x].position = column[x].position
      BY <1>4, <1>6, <2>1 DEF ColumnsOf
    <3> QED BY <3>1, ColumnsStay
  <2>2. CASE q = p
    <3>1. IsFiniteSet(ColumnsOf(p) \cup {k})
      BY <1>2, FS_AddElement
    <3>2. ColumnAt'[k] = Cardinality(ColumnsOf(p)) /\ \A x \in ColumnsOf(p) : ColumnAt'[x] = ColumnAt[x]
      <4>1. column'[k].position = Cardinality(ColumnsOf(p))
        BY <1>6
      <4>2. \A x \in ColumnsOf(p) : x \in Columns /\ column'[x] = column[x]
        BY <1>4, <1>6 DEF ColumnsOf
      <4> QED BY <4>1, <4>2 DEF ColumnAt
    <3>3. p \notin doubled => Filled(ColumnsOf(p), ColumnAt)
      BY DEF BoardInv
    <3>4. p \notin doubled => Filled(ColumnsOf(p) \cup {k}, ColumnAt')
      BY <1>2, <1>4, <3>2, <3>3, OneMore
    <3> QED BY <1>4, <2>2, <3>1, <3>4 DEF Filled
  <2> QED BY <2>1, <2>2
<1>9. Placed'
  <2>1. \A x \in Columns : column'[x].project # NoProject => column'[x].project \in project'
    BY <1>1, <1>2, <1>6 DEF Placed
  <2>2. \A c \in Cards : card'[c] # NoCardRow =>
           /\ card'[c].column \in Columns /\ card'[c].project \in project'
           /\ card'[c].project = column'[card'[c].column].project
    BY <1>1, <1>2, <1>5, <1>6 DEF Placed
  <2> QED BY <1>7, <1>8, <2>1, <2>2 DEF Placed
<1> QED BY <1>1, <1>3, <1>7, <1>8, <1>9 DEF BoardInv

\* Steps that leave the projects and the columns alone.
LEMMA CardStep ==
    ASSUME BoardInv, UNCHANGED <<project, column, doubled>>, BoardTypeOK',
           \A c \in Cards : card'[c] # NoCardRow =>
              /\ card'[c].column \in Columns /\ card'[c].project \in project
              /\ card'[c].project = column[card'[c].column].project,
           \A k \in Columns : IsFiniteSet(CardsIn(k)') /\ Filled(CardsIn(k), CardAt)'
    PROVE  BoardInv'
<1>1. \A p \in Projects : IsFiniteSet(ColumnsOf(p)') /\ (p \notin doubled => Filled(ColumnsOf(p), ColumnAt)')
  <2> TAKE p \in Projects
  <2>1. ColumnsOf(p)' = ColumnsOf(p) /\ \A k \in ColumnsOf(p) : column'[k].position = column[k].position
    BY DEF ColumnsOf
  <2> QED BY <2>1, ColumnsStay
<1>2. \A k \in Columns : column'[k].project # NoProject => column'[k].project \in project'
  BY DEF BoardInv, Placed
<1>3. Placed'
  BY <1>1, <1>2 DEF Placed
<1> QED BY <1>1, <1>3 DEF BoardInv

LEMMA CreateCardStep ==
    ASSUME BoardInv, NEW c \in Cards, NEW k \in Columns, CreateCard(c, k)
    PROVE  BoardInv'
<1>1. /\ card[c] = NoCardRow /\ column[k].project # NoProject /\ UNCHANGED <<project, column, doubled>>
      /\ card' = [card EXCEPT ![c] = [column |-> k, project |-> column[k].project,
                                      position |-> Cardinality(CardsIn(k))]]
  BY DEF CreateCard
<1>2. BoardTypeOK /\ Placed /\ IsFiniteSet(CardsIn(k)) /\ Cardinality(CardsIn(k)) \in Nat
  BY FS_CardinalityType DEF BoardInv, Placed
<1>3. /\ card'[c] = [column |-> k, project |-> column[k].project, position |-> Cardinality(CardsIn(k))]
      /\ \A d \in Cards : d # c => card'[d] = card[d]
  BY <1>1, <1>2 DEF BoardTypeOK
<1>4. BoardTypeOK'
  BY <1>1, <1>2 DEF BoardTypeOK
<1>5. card[c].column = NoColumn
  BY <1>1 DEF NoCardRow
<1>6. /\ c \notin CardsIn(k) /\ CardsIn(k)' = CardsIn(k) \cup {c}
      /\ \A x \in Columns : x # k => CardsIn(x)' = CardsIn(x) /\ c \notin CardsIn(x)
  BY <1>3, <1>5, NoColumnAssumption DEF CardsIn
<1>7. \A x \in Columns : IsFiniteSet(CardsIn(x)') /\ Filled(CardsIn(x), CardAt)'
  <2> TAKE x \in Columns
  <2>1. CASE x # k
    <3>1. CardsIn(x)' = CardsIn(x) /\ \A d \in CardsIn(x) : card'[d].position = card[d].position
      BY <1>3, <1>6, <2>1 DEF CardsIn
    <3> QED BY <3>1, CardsStay
  <2>2. CASE x = k
    <3>1. IsFiniteSet(CardsIn(k) \cup {c})
      BY <1>2, FS_AddElement
    <3>2. CardAt'[c] = Cardinality(CardsIn(k)) /\ \A d \in CardsIn(k) : CardAt'[d] = CardAt[d]
      <4>1. card'[c].position = Cardinality(CardsIn(k))
        BY <1>3
      <4>2. \A d \in CardsIn(k) : d \in Cards /\ card'[d] = card[d]
        BY <1>3, <1>6 DEF CardsIn
      <4> QED BY <4>1, <4>2 DEF CardAt
    <3>3. Filled(CardsIn(k), CardAt)
      BY DEF BoardInv
    <3>4. Filled(CardsIn(k) \cup {c}, CardAt')
      BY <1>2, <1>6, <3>2, <3>3, OneMore
    <3> QED BY <1>6, <2>2, <3>1, <3>4 DEF Filled
  <2> QED BY <2>1, <2>2
<1>8. \A d \in Cards : card'[d] # NoCardRow =>
         /\ card'[d].column \in Columns /\ card'[d].project \in project
         /\ card'[d].project = column[card'[d].column].project
  BY <1>1, <1>2, <1>3 DEF Placed
<1> QED BY <1>1, <1>4, <1>7, <1>8, CardStep

CardRows == [column: Columns \cup {NoColumn}, project: Projects \cup {NoProject}, position: Nat]

\* What writing a position does to a card.
LEMMA CardRowWritten ==
    ASSUME NEW r \in CardRows, NEW n \in Nat, NEW s, s = [r EXCEPT !.position = n]
    PROVE  s \in CardRows /\ s.column = r.column /\ s.project = r.project /\ s.position = n
BY DEF CardRows

LEMMA DeleteCardStep ==
    ASSUME BoardInv, NEW c \in Cards, DeleteCard(c)
    PROVE  BoardInv'
<1> DEFINE k == card[c].column
           S == CardsIn(k) \ {c}
<1>1. card[c] # NoCardRow /\ UNCHANGED <<project, column, doubled>>
  BY DEF DeleteCard
<1>2. PICK f \in Renumberings(S, CardAt) :
         card' = [x \in Cards |->
                    CASE x = c -> NoCardRow
                      [] x \in DOMAIN f -> [card[x] EXCEPT !.position = f[x]]
                      [] OTHER -> card[x]]
  BY DEF DeleteCard
<1>3. BoardTypeOK /\ Placed /\ k \in Columns /\ IsFiniteSet(S)
  <2>1. BoardTypeOK /\ Placed /\ k \in Columns
    BY <1>1 DEF BoardInv, Placed
  <2>2. IsFiniteSet(CardsIn(k))
    BY <2>1 DEF Placed
  <2> QED BY <2>1, <2>2, FS_Subset
<1>4. /\ DOMAIN f = S /\ \A x \in S : f[x] \in Nat
      /\ \A bt : (\A x \in S : bt[x] = f[x]) => Filled(S, bt)
  <2>1. Fills(f, S)
    BY <1>3, RenumberingsFill
  <2> QED BY <2>1 DEF Fills
<1>5. /\ card'[c] = NoCardRow
      /\ \A x \in S : x \in Cards /\ card'[x] = [card[x] EXCEPT !.position = f[x]]
      /\ \A x \in Cards : x # c /\ x \notin S => card'[x] = card[x]
  BY <1>2, <1>4 DEF CardsIn
<1> HIDE DEF S, k
<1>a. \A x \in Cards : card[x] \in CardRows
  BY <1>3 DEF BoardTypeOK, CardRows
<1>b. \A x \in S : /\ card'[x].column = card[x].column /\ card'[x].project = card[x].project
                   /\ card'[x].position = f[x] /\ card'[x] \in CardRows
  <2> TAKE x \in S
  <2>1. card[x] \in CardRows /\ f[x] \in Nat /\ card'[x] = [card[x] EXCEPT !.position = f[x]]
    BY <1>4, <1>5, <1>a
  <2> QED BY ONLY <2>1, CardRowWritten
<1>6. \A x \in Cards : x # c =>
         /\ card'[x].column = card[x].column /\ card'[x].project = card[x].project
         /\ card'[x] # NoCardRow => card[x] # NoCardRow
  <2> TAKE x \in Cards
  <2>1. x # c => card'[x].column = card[x].column /\ card'[x].project = card[x].project
    BY <1>5, <1>b
  <2>2. x \in S => card[x].column = k /\ card[x] # NoCardRow
    BY <1>3, NoColumnAssumption DEF S, CardsIn, NoCardRow
  <2> QED BY <1>5, <2>1, <2>2
<1>7. BoardTypeOK'
  <2>1. NoCardRow \in CardRows
    BY DEF NoCardRow, CardRows
  <2>2. \A x \in Cards : card'[x] \in CardRows
    BY <1>5, <1>a, <1>b, <2>1
  <2>3. card' \in [Cards -> CardRows]
    BY <1>2, <2>2
  <2> QED BY <1>1, <1>3, <2>3 DEF BoardTypeOK, CardRows
<1>8. \A j \in Columns : IsFiniteSet(CardsIn(j)') /\ Filled(CardsIn(j), CardAt)'
  <2> TAKE j \in Columns
  <2>0. card'[c].column = NoColumn /\ NoColumn \notin Columns /\ c \in Cards
    BY <1>5, NoColumnAssumption DEF NoCardRow
  <2>1. CASE j # k
    <3>1. CardsIn(j)' = CardsIn(j)
      BY <1>6, <2>0, <2>1 DEF CardsIn, k
    <3>2. \A x \in CardsIn(j) : x \in Cards /\ x \notin S /\ x # c
      BY <2>1 DEF CardsIn, S, k
    <3>3. \A x \in CardsIn(j) : card'[x].position = card[x].position
      BY <1>5, <3>2
    <3> QED BY <3>1, <3>3, CardsStay
  <2>2. CASE j = k
    <3>1. CardsIn(j)' = S
      BY <1>6, <2>0, <2>2 DEF CardsIn, S
    <3>2. \A x \in S : CardAt'[x] = f[x]
      BY <1>5, <1>b DEF CardAt
    <3>3. Filled(S, CardAt')
      BY <1>4, <3>2
    <3> QED BY <1>3, <3>1, <3>3 DEF Filled
  <2> QED BY <2>1, <2>2
<1>9. \A x \in Cards : card'[x] # NoCardRow =>
         /\ card'[x].column \in Columns /\ card'[x].project \in project
         /\ card'[x].project = column[card'[x].column].project
  <2> TAKE x \in Cards
  <2>1. card'[x] # NoCardRow => x # c
    BY <1>5
  <2> QED BY <1>3, <1>6, <2>1 DEF Placed
<1> QED BY <1>1, <1>7, <1>8, <1>9, CardStep

LEMMA MoveCardStep ==
    ASSUME BoardInv, NEW c \in Cards, NEW k \in Columns, NEW index, MoveCard(c, k, index)
    PROVE  BoardInv'
<1> DEFINE old == card[c].column
           S == CardsIn(k)
           left == CardsIn(old) \ ({c} \cup S)
<1>1. card[c] # NoCardRow /\ column[k].project = card[c].project /\ UNCHANGED <<project, column, doubled>>
  BY ZenonT(60) DEF MoveCard
<1>2. PICK f \in MoveWithinList(S, CardAt, c, index), g \in Renumberings(left, CardAt) :
         card' = [x \in Cards |->
                    CASE x = c -> [card[x] EXCEPT !.column = k, !.position = f[x]]
                      [] x # c /\ x \in DOMAIN f -> [card[x] EXCEPT !.position = f[x]]
                      [] x \in DOMAIN g -> [card[x] EXCEPT !.position = g[x]]
                      [] OTHER -> card[x]]
  BY DEF MoveCard
<1>3. /\ BoardTypeOK /\ Placed /\ old \in Columns /\ IsFiniteSet(S) /\ IsFiniteSet(left)
      /\ card \in [Cards -> CardRows]
  <2>1. BoardTypeOK /\ Placed /\ old \in Columns
    BY <1>1 DEF BoardInv, Placed
  <2>2. IsFiniteSet(CardsIn(old)) /\ IsFiniteSet(S)
    BY <2>1 DEF Placed
  <2> QED BY <2>1, <2>2, FS_Subset DEF BoardTypeOK, CardRows
<1> HIDE DEF S, left, old
<1>4. /\ DOMAIN f = S \cup {c} /\ \A x \in S \cup {c} : f[x] \in Nat
      /\ IsFiniteSet(S \cup {c})
      /\ \A bt : (\A x \in S \cup {c} : bt[x] = f[x]) => Filled(S \cup {c}, bt)
  <2>1. IsFiniteSet(S) /\ f \in MoveWithinList(S, CardAt, c, index)
    BY <1>3
  <2>2. Fills(f, S \cup {c})
    BY <2>1, MovesFill
  <2> QED BY <2>2 DEF Fills
<1>5. /\ DOMAIN g = left /\ \A x \in left : g[x] \in Nat
      /\ \A bt : (\A x \in left : bt[x] = g[x]) => Filled(left, bt)
  <2>1. Fills(g, left)
    BY <1>3, RenumberingsFill
  <2> QED BY <2>1 DEF Fills
<1>6. /\ S \subseteq Cards /\ left \subseteq Cards /\ c \notin left
      /\ \A x \in S : card[x].column = k
      /\ \A x \in left : card[x].column = old /\ x \notin S
  BY SMTT(30) DEF CardsIn, S, left
<1>7. /\ card'[c] = [card[c] EXCEPT !.column = k, !.position = f[c]]
      /\ \A x \in S : x # c => card'[x] = [card[x] EXCEPT !.position = f[x]]
      /\ \A x \in left : card'[x] = [card[x] EXCEPT !.position = g[x]]
      /\ \A x \in Cards : x # c /\ x \notin S /\ x \notin left => card'[x] = card[x]
  BY <1>2, <1>4, <1>5, <1>6
<1>a. \A x \in Cards : card[x] \in CardRows
  BY <1>3
<1>b. /\ card'[c] \in CardRows /\ card'[c].column = k
      /\ card'[c].project = card[c].project /\ card'[c].position = f[c]
  <2>1. card[c] \in CardRows /\ f[c] \in Nat /\ card'[c] = [card[c] EXCEPT !.column = k, !.position = f[c]]
    BY <1>4, <1>7, <1>a
  <2>2. k \in Columns
    OBVIOUS
  <2> QED BY ONLY <2>1, <2>2 DEF CardRows
<1>c. \A x \in S : x # c => /\ card'[x] \in CardRows /\ card'[x].column = card[x].column
                            /\ card'[x].project = card[x].project /\ card'[x].position = f[x]
  <2> SUFFICES ASSUME NEW x \in S, x # c
               PROVE  /\ card'[x] \in CardRows /\ card'[x].column = card[x].column
                      /\ card'[x].project = card[x].project /\ card'[x].position = f[x]
    OBVIOUS
  <2>1. card[x] \in CardRows /\ f[x] \in Nat /\ card'[x] = [card[x] EXCEPT !.position = f[x]]
    BY <1>4, <1>6, <1>7, <1>a
  <2> QED BY ONLY <2>1, CardRowWritten
<1>d. \A x \in left : /\ card'[x] \in CardRows /\ card'[x].column = card[x].column
                      /\ card'[x].project = card[x].project /\ card'[x].position = g[x]
  <2> TAKE x \in left
  <2>1. card[x] \in CardRows /\ g[x] \in Nat /\ card'[x] = [card[x] EXCEPT !.position = g[x]]
    BY <1>5, <1>6, <1>7, <1>a
  <2> QED BY ONLY <2>1, CardRowWritten
<1>8. /\ card'[c].column = k /\ card'[c].project = card[c].project /\ card'[c].position = f[c]
      /\ \A x \in S : card'[x].position = f[x]
      /\ \A x \in left : card'[x].position = g[x]
      /\ \A x \in Cards : x # c => card'[x].column = card[x].column /\ card'[x].project = card[x].project
  <2>1. \A x \in S : card'[x].position = f[x]
    BY <1>b, <1>c
  <2>2. \A x \in Cards : x # c => card'[x].column = card[x].column /\ card'[x].project = card[x].project
    BY <1>7, <1>c, <1>d
  <2> QED BY <1>b, <1>d, <2>1, <2>2
<1>9. BoardTypeOK'
  <2>4. \A x \in Cards : card'[x] \in CardRows
    BY SMTT(30), <1>7, <1>a, <1>b, <1>c, <1>d
  <2>5. card' \in [Cards -> CardRows]
    BY <1>2, <2>4
  <2> QED BY <1>1, <1>3, <2>5 DEF BoardTypeOK, CardRows
<1>10. \A j \in Columns : IsFiniteSet(CardsIn(j)') /\ Filled(CardsIn(j), CardAt)'
  <2> TAKE j \in Columns
  <2>1. CASE j = k
    <3>1. CardsIn(j)' = S \cup {c}
      BY <1>8, <2>1 DEF CardsIn, S
    <3>2. \A x \in S \cup {c} : CardAt'[x] = f[x]
      BY <1>6, <1>8 DEF CardAt
    <3>3. Filled(S \cup {c}, CardAt')
      BY <1>4, <3>2
    <3> QED BY <1>4, <3>1, <3>3 DEF Filled
  <2>2. CASE j # k /\ j = old
    <3>1. CardsIn(j) \ {c} = left
      BY <2>2 DEF CardsIn, S, left
    <3>2. CardsIn(j)' = left
      BY <1>8, <2>2, <3>1 DEF CardsIn
    <3>3. \A x \in left : CardAt'[x] = g[x]
      BY <1>6, <1>8 DEF CardAt
    <3>4. Filled(left, CardAt')
      BY <1>5, <3>3
    <3> QED BY <1>3, <3>2, <3>4 DEF Filled
  <2>3. CASE j # k /\ j # old
    <3>1. CardsIn(j)' = CardsIn(j)
      BY <1>8, <2>3 DEF CardsIn, old
    <3>2. \A x \in CardsIn(j) : x \in Cards /\ x # c /\ x \notin S /\ x \notin left
      BY <1>6, <2>3 DEF CardsIn, old
    <3>3. \A x \in CardsIn(j) : card'[x].position = card[x].position
      BY <1>7, <3>2
    <3> QED BY <3>1, <3>3, CardsStay
  <2> QED BY <2>1, <2>2, <2>3
<1>11. \A x \in Cards : card'[x] # NoCardRow =>
         /\ card'[x].column \in Columns /\ card'[x].project \in project
         /\ card'[x].project = column[card'[x].column].project
  <2> SUFFICES ASSUME NEW x \in Cards, card'[x] # NoCardRow
               PROVE  /\ card'[x].column \in Columns /\ card'[x].project \in project
                      /\ card'[x].project = column[card'[x].column].project
    OBVIOUS
  <2>1. CASE x = c
    BY <1>1, <1>3, <1>8, <2>1 DEF Placed
  <2>2. CASE x # c
    <3>1. card[x] # NoCardRow
      <4>1. x \in S \/ x \in left => card[x].column \in Columns
        BY <1>3, <1>6
      <4> QED BY <1>7, <2>2, <4>1, NoColumnAssumption DEF NoCardRow
    <3> QED BY <1>3, <1>8, <2>2, <3>1 DEF Placed
  <2> QED BY <2>1, <2>2
<1> QED BY <1>1, <1>9, <1>10, <1>11, CardStep

LEMMA DeleteColumnStep ==
    ASSUME BoardInv, NEW k \in Columns, DeleteColumn(k)
    PROVE  BoardInv'
<1> DEFINE p == column[k].project
           S == ColumnsOf(p) \ {k}
           Rows == [project: Projects \cup {NoProject}, position: Nat]
<1>1. /\ p # NoProject /\ UNCHANGED <<project, doubled>>
      /\ card' = [c \in Cards |-> IF c \in CardsIn(k) THEN NoCardRow ELSE card[c]]
  BY DEF DeleteColumn
<1>2. PICK f \in Renumberings(S, ColumnAt) :
         column' = [x \in Columns |->
                      CASE x = k -> NoColumnRow
                        [] x \in DOMAIN f -> [column[x] EXCEPT !.position = f[x]]
                        [] OTHER -> column[x]]
  BY DEF DeleteColumn
<1>3. /\ BoardTypeOK /\ Placed /\ p \in Projects /\ IsFiniteSet(S)
      /\ \A x \in Columns : column[x] \in Rows
  <2>1. BoardTypeOK /\ Placed /\ p \in project /\ project \subseteq Projects
    BY <1>1 DEF BoardInv, Placed, BoardTypeOK
  <2>2. IsFiniteSet(ColumnsOf(p))
    BY <2>1 DEF Placed
  <2> QED BY <2>1, <2>2, FS_Subset DEF BoardTypeOK
<1> HIDE DEF p, S, Rows
<1>4. /\ DOMAIN f = S /\ \A x \in S : f[x] \in Nat
      /\ \A bt : (\A x \in S : bt[x] = f[x]) => Filled(S, bt)
  <2>1. Fills(f, S)
    BY <1>3, RenumberingsFill
  <2> QED BY <2>1 DEF Fills
<1>5. /\ S \subseteq Columns /\ k \notin S /\ \A x \in S : column[x].project = p
  BY DEF ColumnsOf, S
<1>6. /\ column'[k] = NoColumnRow
      /\ \A x \in S : column'[x] = [column[x] EXCEPT !.position = f[x]]
      /\ \A x \in Columns : x # k /\ x \notin S => column'[x] = column[x]
  BY <1>2, <1>4, <1>5
<1>7. /\ \A x \in S : column'[x].position = f[x]
      /\ \A x \in Columns : x # k => column'[x].project = column[x].project
  <2>1. \A x \in S : column'[x].position = f[x] /\ column'[x].project = column[x].project
    BY <1>3, <1>5, <1>6 DEF Rows
  <2> QED BY <1>6, <2>1
<1>8. BoardTypeOK'
  <2>1. \A x \in Columns : column'[x] \in Rows
    <3> TAKE x \in Columns
    <3>1. column[x] \in Rows
      BY <1>3
    <3>2. CASE x = k
      BY <1>6, <3>2 DEF Rows, NoColumnRow
    <3>3. CASE x \in S
      BY <1>4, <1>6, <3>1, <3>3 DEF Rows
    <3>4. CASE x # k /\ x \notin S
      BY <1>6, <3>1, <3>4
    <3> QED BY <3>2, <3>3, <3>4
  <2>2. column' \in [Columns -> Rows]
    BY <1>2, <2>1
  <2>3. card' \in [Cards -> [column: Columns \cup {NoColumn}, project: Projects \cup {NoProject}, position: Nat]]
    BY <1>1, <1>3 DEF BoardTypeOK, NoCardRow
  <2> QED BY <1>1, <1>3, <2>2, <2>3 DEF BoardTypeOK, Rows
<1>9. \A c \in Cards : /\ card[c].column = k => card'[c] = NoCardRow
                       /\ card[c].column # k => card'[c] = card[c]
  BY <1>1 DEF CardsIn
<1>10. \A j \in Columns : IsFiniteSet(CardsIn(j)') /\ Filled(CardsIn(j), CardAt)'
  <2> TAKE j \in Columns
  <2>0. NoCardRow.column = NoColumn /\ NoColumn \notin Columns
    BY NoColumnAssumption DEF NoCardRow
  <2>1. CASE j = k
    <3>1. CardsIn(j)' = {}
      BY <1>9, <2>0, <2>1 DEF CardsIn
    <3>2. Filled({}, CardAt')
      BY EmptyOrder
    <3> QED BY <3>1, <3>2, FS_EmptySet DEF Filled
  <2>2. CASE j # k
    <3>1. CardsIn(j)' = CardsIn(j) /\ \A c \in CardsIn(j) : card'[c].position = card[c].position
      BY <1>9, <2>0, <2>2 DEF CardsIn
    <3> QED BY <3>1, CardsStay
  <2> QED BY <2>1, <2>2
<1>11. \A q \in Projects : IsFiniteSet(ColumnsOf(q)') /\ (q \notin doubled => Filled(ColumnsOf(q), ColumnAt)')
  <2> TAKE q \in Projects
  <2>0. column'[k].project = NoProject /\ NoProject \notin Projects
    BY <1>6, NoColumnAssumption DEF NoColumnRow
  <2>1. CASE q # p
    <3>1. ColumnsOf(q)' = ColumnsOf(q)
      BY <1>7, <2>0, <2>1 DEF ColumnsOf, p
    <3>2. \A x \in ColumnsOf(q) : x \in Columns /\ x # k /\ x \notin S
      BY <1>5, <2>1 DEF ColumnsOf, p
    <3>3. \A x \in ColumnsOf(q) : column'[x].position = column[x].position
      BY <1>6, <3>2
    <3> QED BY <3>1, <3>3, ColumnsStay
  <2>2. CASE q = p
    <3>1. ColumnsOf(q)' = S
      BY <1>7, <2>0, <2>2 DEF ColumnsOf, S
    <3>2. \A x \in S : ColumnAt'[x] = f[x]
      BY <1>5, <1>7 DEF ColumnAt
    <3>3. Filled(S, ColumnAt')
      BY <1>4, <3>2
    <3> QED BY <1>3, <3>1, <3>3 DEF Filled
  <2> QED BY <2>1, <2>2
<1>12. Placed'
  <2>1. \A x \in Columns : column'[x].project # NoProject => column'[x].project \in project'
    BY <1>1, <1>3, <1>6, <1>7 DEF Placed, NoColumnRow
  <2>2. \A c \in Cards : card'[c] # NoCardRow =>
           /\ card'[c].column \in Columns /\ card'[c].project \in project'
           /\ card'[c].project = column'[card'[c].column].project
    BY <1>1, <1>3, <1>7, <1>9 DEF Placed
  <2> QED BY <1>10, <1>11, <2>1, <2>2 DEF Placed
<1> QED BY <1>1, <1>8, <1>10, <1>11, <1>12 DEF BoardInv

LEMMA ReorderColumnsStep ==
    ASSUME BoardInv, NEW p \in Projects, NEW ids \in Seq(Columns), ReorderColumns(p, ids)
    PROVE  BoardInv'
<1> DEFINE S == ColumnsOf(p)
           Rows == [project: Projects \cup {NoProject}, position: Nat]
<1>1. /\ UNCHANGED <<project, card>> /\ doubled \subseteq doubled' /\ doubled' \subseteq doubled \cup {p}
      /\ p \notin doubled' => ~NamesTwice(S, ids)
  BY DEF ReorderColumns
<1>2. PICK f \in Reordered(S, ids) :
         column' = [k \in Columns |-> IF k \in DOMAIN f
                                      THEN [column[k] EXCEPT !.position = f[k]] ELSE column[k]]
  BY DEF ReorderColumns, Place
<1>3. /\ BoardTypeOK /\ Placed /\ IsFiniteSet(S) /\ S \subseteq Columns
      /\ \A x \in Columns : column[x] \in Rows
  BY DEF BoardInv, Placed, BoardTypeOK, ColumnsOf
<1>4. \A x \in S : column[x].project = p
  BY DEF ColumnsOf
<1> HIDE DEF S, Rows
<1>5. DOMAIN f = S /\ \A x \in S : f[x] \in Nat
  BY <1>3, ReorderedTyped
<1>6. /\ \A x \in S : column'[x] = [column[x] EXCEPT !.position = f[x]]
      /\ \A x \in Columns : x \notin S => column'[x] = column[x]
  BY <1>2, <1>3, <1>5
<1>7. /\ \A x \in S : column'[x].position = f[x]
      /\ \A x \in Columns : column'[x].project = column[x].project
  <2>1. \A x \in S : column'[x].position = f[x] /\ column'[x].project = column[x].project
    BY <1>3, <1>6 DEF Rows
  <2> QED BY <1>6, <2>1
<1>8. BoardTypeOK'
  <2>1. \A x \in Columns : column'[x] \in Rows
    <3> TAKE x \in Columns
    <3>1. column[x] \in Rows
      BY <1>3
    <3> QED BY <1>5, <1>6, <3>1 DEF Rows
  <2>2. column' \in [Columns -> Rows]
    BY <1>2, <2>1
  <2> QED BY <1>1, <1>3, <2>2 DEF BoardTypeOK, Rows
<1>9. \A j \in Columns : IsFiniteSet(CardsIn(j)') /\ Filled(CardsIn(j), CardAt)'
  <2> TAKE j \in Columns
  <2>1. CardsIn(j)' = CardsIn(j) /\ \A c \in CardsIn(j) : card'[c].position = card[c].position
    BY <1>1 DEF CardsIn
  <2> QED BY <2>1, CardsStay
<1>10. \A q \in Projects : IsFiniteSet(ColumnsOf(q)') /\ (q \notin doubled' => Filled(ColumnsOf(q), ColumnAt)')
  <2> TAKE q \in Projects
  <2>0. ColumnsOf(q)' = ColumnsOf(q)
    BY <1>7 DEF ColumnsOf
  <2>1. CASE q # p
    <3>1. \A x \in ColumnsOf(q) : x \in Columns /\ x \notin S
      BY <1>4, <2>1 DEF ColumnsOf
    <3>2. \A x \in ColumnsOf(q) : column'[x].position = column[x].position
      BY <1>6, <3>1
    <3>3. IsFiniteSet(ColumnsOf(q)') /\ (q \notin doubled => Filled(ColumnsOf(q), ColumnAt)')
      BY <2>0, <3>2, ColumnsStay
    <3> QED BY <1>1, <3>3
  <2>2. CASE q = p
    <3>1. \A x \in S : ColumnAt'[x] = f[x]
      BY <1>3, <1>7 DEF ColumnAt
    <3>2. p \notin doubled' => Filled(S, ColumnAt')
      BY <1>1, <1>3, <3>1, ReorderedFill
    <3> QED BY <1>3, <2>0, <2>2, <3>2 DEF Filled, S
  <2> QED BY <2>1, <2>2
<1>11. Placed'
  <2>1. \A x \in Columns : column'[x].project # NoProject => column'[x].project \in project'
    BY <1>1, <1>3, <1>7 DEF Placed
  <2>2. \A c \in Cards : card'[c] # NoCardRow =>
           /\ card'[c].column \in Columns /\ card'[c].project \in project'
           /\ card'[c].project = column'[card'[c].column].project
    BY <1>1, <1>3, <1>7 DEF Placed
  <2> QED BY <1>9, <1>10, <2>1, <2>2 DEF Placed
<1> QED BY <1>8, <1>9, <1>10, <1>11 DEF BoardInv

LEMMA DeleteProjectStep ==
    ASSUME BoardInv, NEW p \in Projects, DeleteProject(p)
    PROVE  BoardInv'
<1>1. /\ project' = project \ {p} /\ doubled' = doubled
      /\ card' = [c \in Cards |-> IF card[c].project = p THEN NoCardRow ELSE card[c]]
      /\ column' = [k \in Columns |-> IF k \in ColumnsOf(p) THEN NoColumnRow ELSE column[k]]
  BY DEF DeleteProject
<1>2. BoardTypeOK /\ Placed /\ NoProject \notin Projects /\ NoColumn \notin Columns
  BY NoColumnAssumption DEF BoardInv
<1>3. BoardTypeOK'
  BY <1>1, <1>2 DEF BoardTypeOK, NoCardRow, NoColumnRow
<1>4. \A k \in Columns : /\ column[k].project = p => column'[k] = NoColumnRow
                         /\ column[k].project # p => column'[k] = column[k]
  BY <1>1 DEF ColumnsOf
<1>5. \A c \in Cards : /\ card[c].project = p => card'[c] = NoCardRow
                       /\ card[c].project # p => card'[c] = card[c]
  BY <1>1
<1>6. \A j \in Columns : IsFiniteSet(CardsIn(j)') /\ Filled(CardsIn(j), CardAt)'
  <2> TAKE j \in Columns
  <2>0. /\ NoCardRow.column = NoColumn
        /\ \A c \in Cards : card[c].column = j => card[c].project = column[j].project
    <3>1. NoCardRow.column = NoColumn
      BY DEF NoCardRow
    <3> QED BY <1>2, <3>1 DEF Placed
  <2>1. CASE column[j].project = p
    <3>1. CardsIn(j)' = {}
      BY <1>2, <1>5, <2>0, <2>1 DEF CardsIn
    <3>2. Filled({}, CardAt')
      BY EmptyOrder
    <3> QED BY <3>1, <3>2, FS_EmptySet DEF Filled
  <2>2. CASE column[j].project # p
    <3>1. CardsIn(j)' = CardsIn(j) /\ \A c \in CardsIn(j) : card'[c].position = card[c].position
      BY <1>2, <1>5, <2>0, <2>2 DEF CardsIn
    <3> QED BY <3>1, CardsStay
  <2> QED BY <2>1, <2>2
<1>7. \A q \in Projects : IsFiniteSet(ColumnsOf(q)') /\ (q \notin doubled => Filled(ColumnsOf(q), ColumnAt)')
  <2> TAKE q \in Projects
  <2>0. NoColumnRow.project = NoProject
    BY DEF NoColumnRow
  <2>1. CASE q = p
    <3>1. ColumnsOf(q)' = {}
      BY <1>2, <1>4, <2>0, <2>1 DEF ColumnsOf
    <3>2. Filled({}, ColumnAt')
      BY EmptyOrder
    <3> QED BY <3>1, <3>2, FS_EmptySet DEF Filled
  <2>2. CASE q # p
    <3>1. ColumnsOf(q)' = ColumnsOf(q) /\ \A k \in ColumnsOf(q) : column'[k].position = column[k].position
      BY <1>2, <1>4, <2>0, <2>2 DEF ColumnsOf
    <3> QED BY <3>1, ColumnsStay
  <2> QED BY <2>1, <2>2
<1>8. Placed'
  <2>1. \A x \in Columns : column'[x].project # NoProject => column'[x].project \in project'
    BY <1>1, <1>2, <1>4 DEF Placed, NoColumnRow
  <2>2. \A c \in Cards : card'[c] # NoCardRow =>
           /\ card'[c].column \in Columns /\ card'[c].project \in project'
           /\ card'[c].project = column'[card'[c].column].project
    BY <1>1, <1>2, <1>4, <1>5 DEF Placed
  <2> QED BY <1>6, <1>7, <2>1, <2>2 DEF Placed
<1> QED BY <1>1, <1>3, <1>6, <1>7, <1>8 DEF BoardInv

LEMMA BoardSteps == BoardInv /\ [BoardNext]_boardVars => BoardInv'
<1> SUFFICES ASSUME BoardInv, [BoardNext]_boardVars PROVE BoardInv'
  OBVIOUS
<1>1. ASSUME NEW p \in Projects, NEW ids \in SeqOf(Columns, MaxListed), ReorderColumns(p, ids) PROVE BoardInv'
  <2>1. ids \in Seq(Columns)
    BY DEF SeqOf
  <2> QED BY <1>1, <2>1, ReorderColumnsStep
<1>2. CASE UNCHANGED boardVars
  BY <1>2 DEF boardVars, BoardInv, BoardTypeOK, Placed, ColumnsOf, CardsIn, Filled, CardAt, ColumnAt
<1>3. ASSUME NEW c \in Cards, NEW k \in Columns, NEW index \in 0..MaxIndex, MoveCard(c, k, index) PROVE BoardInv'
  BY <1>3, MoveCardStep
<1> QED
  BY <1>1, <1>2, <1>3, CreateColumnStep, DeleteColumnStep, CreateCardStep, DeleteCardStep, DeleteProjectStep
  DEF BoardNext

\* The invariant of the boards, inductive action by action.
THEOREM BoardCorrect == BoardSpec => []BoardInv
  BY BoardStarts, BoardSteps, PTL DEF BoardSpec

\* Projects, columns and cards stay of their kinds, every position a natural number.
THEOREM BoardTypeCorrect == BoardSpec => []BoardTypeOK
<1>1. BoardInv => BoardTypeOK
  BY DEF BoardInv
<1> QED BY <1>1, BoardCorrect, PTL

LEMMA OrdersFollow == BoardInv => CardsInOrder /\ ColumnsInOrder
  BY DEF BoardInv, Placed, Filled, CardsInOrder, ColumnsInOrder

\* The cards of every column are numbered without a gap, in a project that is
\* there, for any number of projects, columns and cards (board.service.ts).
THEOREM CardsStayInOrder == BoardSpec => []CardsInOrder
  BY OrdersFollow, BoardCorrect, PTL

\* So are the columns of every board no list of which named one twice.
THEOREM ColumnsStayInOrder == BoardSpec => []ColumnsInOrder
  BY OrdersFollow, BoardCorrect, PTL
=============================================================================
