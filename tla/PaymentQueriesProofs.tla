------------------------- MODULE PaymentQueriesProofs -------------------------
(***************************************************************************)
(* Proofs about the payment requests: for every set of requests and chats, *)
(* every promise is resolved exactly once and exactly when its request is  *)
(* over, and chat errors are reported exactly for the chat-bound handlers  *)
(* that fail and for the chat the caller named; every delivered invoice    *)
(* carries what convert_invoice makes of the server's amounts and the      *)
(* first four valid suggested tips, in order, for every list of tips.      *)
(***************************************************************************)
EXTENDS PaymentQueries, FiniteSetTheorems, WellFoundedInduction, TLAPS

-----------------------------------------------------------------------------
(* The inductive invariant *)

\* The life of a request: its promise is untouched until the request is
\* over; no handler exists before the call; and a handler's dialog_id_ is
\* the chat the caller named (GetPaymentReceiptQuery::send sets it before
\* its early on_error).
Lifecycle ==
    \A r \in Requests :
        /\ phase[r] # "done" => outcome[r] = "none"
        /\ phase[r] = "idle" => handler[r] = "none"
        /\ phase[r] \in {"pending", "updates"} => handler[r] \in Handlers
        /\ handler[r] # "none" => dialogId[r] = target[r]

IInv ==
    /\ TypeOK
    /\ Lifecycle
    /\ ResolvedOnceWhenDone
    /\ DialogErrorsReported

\* The invariant at one request; the requests do not share state but the
\* set of reported chat errors, whose pairs name their request.
InvAt(r) ==
    /\ phase[r] # "done" => outcome[r] = "none"
    /\ phase[r] = "idle" => handler[r] = "none"
    /\ phase[r] \in {"pending", "updates"} => handler[r] \in Handlers
    /\ handler[r] # "none" => dialogId[r] = target[r]
    /\ settled[r] = IF phase[r] = "done" THEN 1 ELSE 0
    /\ \A d \in Dialogs \cup {NoDialog} :
           <<r, d>> \in reported
               <=> handler[r] \in DialogHandlers /\ outcome[r] = "error" /\ d = target[r]

\* A step of request r leaves every other request as it was.
OnlyAt(r) ==
    \A s \in Requests \ {r} :
        /\ handler'[s] = handler[s]
        /\ target'[s] = target[s]
        /\ dialogId'[s] = dialogId[s]
        /\ phase'[s] = phase[s]
        /\ outcome'[s] = outcome[s]
        /\ settled'[s] = settled[s]
        /\ \A d \in Dialogs \cup {NoDialog} : <<s, d>> \in reported' <=> <<s, d>> \in reported

-----------------------------------------------------------------------------
(* Lemmas: the invariant request by request *)

\* The inductive invariant is the type invariant and the invariant at
\* every request.
LEMMA IInvByRequest == IInv <=> TypeOK /\ \A r \in Requests : InvAt(r)
BY DEF IInv, Lifecycle, ResolvedOnceWhenDone, DialogErrorsReported, InvAt

\* A well-typed step of request r that keeps the invariant at r keeps it
\* everywhere.
LEMMA StepAt ==
    ASSUME IInv, TypeOK', NEW r \in Requests, OnlyAt(r), InvAt(r)'
    PROVE  IInv'
<1>1. \A s \in Requests \ {r} : InvAt(s)'
    BY IInvByRequest DEF OnlyAt, InvAt
<1>2. \A s \in Requests : InvAt(s)'
    BY <1>1
<1> QED
    BY <1>2 DEF IInv, Lifecycle, ResolvedOnceWhenDone, DialogErrorsReported, InvAt

\* create_handler(...)->send(...) on a fresh promise.
LEMMA SendQueryKeeps ==
    ASSUME IInv, NEW r \in Requests, phase[r] = "idle", NEW h \in Handlers,
           NEW t \in Dialogs \cup {NoDialog}, SendQuery(r, h, t, t), UNCHANGED closing
    PROVE  IInv'
<1>1. InvAt(r)
    BY IInvByRequest
<1>2. TypeOK'
    BY DEF IInv, TypeOK, SendQuery, Handlers
<1>3. OnlyAt(r)
    BY DEF IInv, TypeOK, SendQuery, OnlyAt
<1>4. InvAt(r)'
    BY <1>1 DEF IInv, TypeOK, SendQuery, InvAt, Handlers
<1> QED
    BY <1>2, <1>3, <1>4, StepAt

\* A validation error rejects a fresh promise without a handler.
LEMMA RejectKeeps ==
    ASSUME IInv, NEW r \in Requests, phase[r] = "idle",
           NEW t \in Dialogs \cup {NoDialog}, Reject(r, t), UNCHANGED closing
    PROVE  IInv'
<1>1. InvAt(r)
    BY IInvByRequest
<1>2. TypeOK'
    BY DEF IInv, TypeOK, Reject, Resolve
<1>3. OnlyAt(r)
    BY DEF IInv, TypeOK, Reject, Resolve, OnlyAt
<1>4. InvAt(r)'
    BY <1>1 DEF IInv, TypeOK, Reject, Resolve, InvAt, DialogHandlers
<1> QED
    BY <1>2, <1>3, <1>4, StepAt

\* on_error of a handler whose query is in flight.
LEMMA OnErrorKeeps ==
    ASSUME IInv, NEW r \in Requests, phase[r] = "pending", OnError(r),
           UNCHANGED <<handler, target, dialogId, closing>>
    PROVE  IInv'
<1>1. InvAt(r)
    BY IInvByRequest
<1>2. TypeOK'
    BY DEF IInv, TypeOK, OnError, Resolve
<1>3. OnlyAt(r)
    BY DEF IInv, TypeOK, OnError, Resolve, OnlyAt
<1>2a. /\ handler[r] \in Handlers /\ dialogId[r] = target[r] /\ outcome[r] = "none"
       /\ \A d \in Dialogs \cup {NoDialog} : <<r, d>> \notin reported
    BY <1>1 DEF InvAt, Handlers, DialogHandlers, PlainHandlers
<1>4. InvAt(r)'
    <2>1. /\ phase'[r] = "done" /\ outcome'[r] = "error" /\ settled'[r] = 1
        BY <1>1 DEF IInv, TypeOK, OnError, Resolve, InvAt
    <2>2. \A d \in Dialogs \cup {NoDialog} :
              <<r, d>> \in reported' <=> handler[r] \in DialogHandlers /\ d = target[r]
        BY <1>2a DEF OnError
    <2> QED
        BY <1>2a, <2>1, <2>2 DEF OnError, InvAt
<1> QED
    BY <1>2, <1>3, <1>4, StepAt

\* A promise fulfilled with a value by on_result or by the updates lambda.
LEMMA FulfilKeeps ==
    ASSUME IInv, NEW r \in Requests, phase[r] \in {"pending", "updates"},
           NEW o \in {"value", "paid", "verification_needed"}, Resolve(r, o),
           UNCHANGED <<reported, handler, target, dialogId, closing>>
    PROVE  IInv'
<1>1. InvAt(r)
    BY IInvByRequest
<1>2. TypeOK'
    BY DEF IInv, TypeOK, Resolve
<1>3. OnlyAt(r)
    BY DEF IInv, TypeOK, Resolve, OnlyAt
<1>4. InvAt(r)'
    BY <1>1 DEF IInv, TypeOK, Resolve, InvAt
<1> QED
    BY <1>2, <1>3, <1>4, StepAt

\* GetPaymentReceiptQuery::send for a chat without access: dialog_id_ is
\* set, then on_error reports the chat and rejects the promise.
LEMMA ReceiptEarlyErrorKeeps ==
    ASSUME IInv, NEW r \in Requests, phase[r] = "idle", NEW d \in Dialogs,
           GetPaymentReceiptQuerySend(r, d, FALSE), UNCHANGED closing
    PROVE  IInv'
<1>1. InvAt(r)
    BY IInvByRequest
<1>2. /\ handler' = [handler EXCEPT ![r] = "GetPaymentReceiptQuery"]
      /\ target' = [target EXCEPT ![r] = d]
      /\ dialogId' = [dialogId EXCEPT ![r] = d]
      /\ reported' = reported \cup {<<r, d>>}
      /\ Resolve(r, "error")
    BY DEF GetPaymentReceiptQuerySend
<1>3. TypeOK'
    BY <1>2 DEF IInv, TypeOK, Resolve, Handlers, DialogHandlers
<1>4. OnlyAt(r)
    BY <1>2 DEF IInv, TypeOK, Resolve, OnlyAt
<1>5. \A x \in Dialogs \cup {NoDialog} : <<r, x>> \notin reported
    BY <1>1 DEF InvAt
<1>6. InvAt(r)'
    BY <1>1, <1>2, <1>5 DEF IInv, TypeOK, Resolve, InvAt, DialogHandlers, Handlers
<1> QED
    BY <1>3, <1>4, <1>6, StepAt

\* SendPaymentFormQuery::on_result with a paymentResult: the promise moves
\* into the lambda given to UpdatesManager::on_get_updates, unresolved.
LEMMA ToUpdatesKeeps ==
    ASSUME IInv, NEW r \in Requests, phase[r] = "pending",
           phase' = [phase EXCEPT ![r] = "updates"],
           UNCHANGED <<outcome, settled, reported, handler, target, dialogId, closing>>
    PROVE  IInv'
<1>1. InvAt(r)
    BY IInvByRequest
<1>2. TypeOK'
    BY DEF IInv, TypeOK
<1>3. OnlyAt(r)
    BY DEF IInv, TypeOK, OnlyAt
<1>4. InvAt(r)'
    BY <1>1 DEF IInv, TypeOK, InvAt
<1> QED
    BY <1>2, <1>3, <1>4, StepAt

-----------------------------------------------------------------------------
(* The invariant is inductive *)

\* The answers of on_result and on_error keep the invariant.
LEMMA AnswerKeeps ==
    ASSUME IInv, NEW r \in Requests, NEW rep \in Replies, Answer(r, rep)
    PROVE  IInv'
<1> DEFINE h == handler[r]
<1>1. phase[r] = "pending" /\ UNCHANGED <<handler, target, dialogId, closing>>
    BY DEF Answer
<1>2. CASE rep \in {"error", "unparsable"}
    BY <1>1, <1>2, OnErrorKeeps DEF Answer
<1>3. CASE rep \notin {"error", "unparsable"} /\ h = "GetPaymentFormQuery"
    <2>1. FormOnResult(r, rep)
        BY <1>3 DEF Answer
    <2>2. CASE rep = "ok"
        BY <1>1, <2>1, <2>2, FulfilKeeps DEF FormOnResult, FulfilWithInvoice
    <2>3. CASE rep # "ok"
        BY <1>1, <2>1, <2>3, OnErrorKeeps DEF FormOnResult
    <2> QED
        BY <2>2, <2>3
<1>4. CASE rep \notin {"error", "unparsable"} /\ h = "GetPaymentReceiptQuery"
    <2>1. ReceiptOnResult(r, rep)
        BY <1>4 DEF Answer
    <2>2. CASE rep = "ok"
        BY <1>1, <2>1, <2>2, FulfilKeeps DEF ReceiptOnResult, FulfilWithInvoice
    <2>3. CASE rep # "ok"
        BY <1>1, <2>1, <2>3, OnErrorKeeps DEF ReceiptOnResult
    <2> QED
        BY <2>2, <2>3
<1>5. CASE rep \notin {"error", "unparsable"} /\ h = "SendPaymentFormQuery"
    <2>1. SendPaymentFormOnResult(r, rep)
        BY <1>5 DEF Answer
    <2>2. CASE rep = "paid"
        BY <1>1, <2>1, <2>2, ToUpdatesKeeps DEF SendPaymentFormOnResult
    <2>3. CASE rep # "paid"
        BY <1>1, <2>1, <2>3, FulfilKeeps DEF SendPaymentFormOnResult
    <2> QED
        BY <2>2, <2>3
<1>6. CASE rep \notin {"error", "unparsable"}
           /\ h \notin {"GetPaymentFormQuery", "GetPaymentReceiptQuery", "SendPaymentFormQuery"}
    <2>1. Fulfil(r)
        BY <1>6 DEF Answer
    <2> QED
        BY <1>1, <2>1, FulfilKeeps DEF Fulfil
<1> QED
    BY <1>2, <1>3, <1>4, <1>5, <1>6

\* Every step of the callers, the handlers, the transport and the shutdown
\* keeps the invariant.
LEMMA IInvStep == IInv /\ [Next]_vars => IInv'
<1> SUFFICES ASSUME IInv, [Next]_vars PROVE IInv'
    OBVIOUS
<1>0. ASSUME NEW r \in Requests, Callable(r) PROVE phase[r] = "idle"
    BY <1>0 DEF Callable
<1>1. ASSUME NEW r \in Requests, NEW valid \in BOOLEAN, AnswerShippingQuery(r, valid)
      PROVE  IInv'
    BY <1>0, <1>1, SendQueryKeeps, RejectKeeps, ConstantsAssumption, Zenon
    DEF AnswerShippingQuery, Handlers, PlainHandlers
<1>2. ASSUME NEW r \in Requests,
             NEW h \in {"SetBotPreCheckoutAnswerQuery", "GetSavedInfoQuery",
                        "ClearSavedInfoQuery", "GetBankCardInfoQuery"},
             PlainRequest(r, h)
      PROVE  IInv'
    BY <1>0, <1>2, SendQueryKeeps DEF PlainRequest, Handlers, PlainHandlers
<1>3. ASSUME NEW r \in Requests, NEW valid \in BOOLEAN, ExportInvoice(r, valid)
      PROVE  IInv'
    BY <1>0, <1>3, SendQueryKeeps, RejectKeeps DEF ExportInvoice, Handlers, PlainHandlers
<1>4. ASSUME NEW in \in InvoiceInputs PROVE InvoiceDialog(in) \in Dialogs \cup {NoDialog}
    BY DEF InvoiceInputs, InvoiceDialog
<1>5. ASSUME NEW r \in Requests, NEW in \in InvoiceInputs, GetPaymentForm(r, in)
      PROVE  IInv'
    BY <1>0, <1>4, <1>5, SendQueryKeeps, RejectKeeps
    DEF GetPaymentForm, Handlers, DialogHandlers
<1>6. ASSUME NEW r \in Requests, NEW in \in InvoiceInputs, NEW clean \in BOOLEAN,
             ValidateOrderInfo(r, in, clean)
      PROVE  IInv'
    BY <1>0, <1>4, <1>6, SendQueryKeeps, RejectKeeps
    DEF ValidateOrderInfo, Handlers, DialogHandlers
<1>7. ASSUME NEW r \in Requests, NEW in \in InvoiceInputs, NEW c \in Credentials,
             SendPaymentForm(r, in, c)
      PROVE  IInv'
    BY <1>0, <1>4, <1>7, SendQueryKeeps, RejectKeeps
    DEF SendPaymentForm, Handlers, DialogHandlers
<1>8. ASSUME NEW r \in Requests, NEW d \in Dialogs, NEW found \in BOOLEAN,
             NEW access \in BOOLEAN, GetPaymentReceipt(r, d, found, access)
      PROVE  IInv'
    <2>1. phase[r] = "idle" /\ UNCHANGED closing
        BY <1>0, <1>8 DEF GetPaymentReceipt
    <2>2. CASE found /\ access
        BY <1>8, <2>1, <2>2, SendQueryKeeps
        DEF GetPaymentReceipt, GetPaymentReceiptQuerySend, Handlers, DialogHandlers
    <2>3. CASE found /\ ~access
        <3>1. GetPaymentReceiptQuerySend(r, d, FALSE)
            BY <1>8, <2>3, Zenon DEF GetPaymentReceipt
        <3> QED
            BY <2>1, <3>1, ReceiptEarlyErrorKeeps, Zenon
    <2>4. CASE ~found
        BY <1>8, <2>1, <2>4, RejectKeeps DEF GetPaymentReceipt
    <2> QED
        BY <2>2, <2>3, <2>4
<1>9. ASSUME NEW r \in Requests, NEW rep \in Replies, Answer(r, rep) PROVE IInv'
    BY <1>9, AnswerKeeps
<1>10. ASSUME NEW r \in Requests, UpdatesApplied(r) PROVE IInv'
    BY <1>10, FulfilKeeps DEF UpdatesApplied
<1>11. ASSUME NEW r \in Requests, Cancel(r) PROVE IInv'
    BY <1>11, OnErrorKeeps DEF Cancel
<1>12. CASE Close
    BY <1>12 DEF Close, IInv, TypeOK, Lifecycle, ResolvedOnceWhenDone, DialogErrorsReported
<1>13. CASE UNCHANGED vars
    BY <1>13 DEF vars, IInv, TypeOK, Lifecycle, ResolvedOnceWhenDone, DialogErrorsReported
<1> QED
    BY <1>1, <1>2, <1>3, <1>5, <1>6, <1>7, <1>8, <1>9, <1>10, <1>11, <1>12, <1>13
    DEF Next

-----------------------------------------------------------------------------
(* Theorems *)

\* The initial state, where no call has been made, satisfies the invariant.
LEMMA InitIInv == Init => IInv
<1> SUFFICES ASSUME Init PROVE IInv
    OBVIOUS
<1>1. TypeOK
    BY Zenon DEF Init, TypeOK
<1>2. Lifecycle /\ ResolvedOnceWhenDone
    BY DEF Init, Lifecycle, ResolvedOnceWhenDone
<1>3. DialogErrorsReported
    BY DEF Init, DialogErrorsReported
<1> QED
    BY <1>1, <1>2, <1>3 DEF IInv

\* The requests stay well typed.
THEOREM TypeCorrect == Spec => []TypeOK
BY InitIInv, IInvStep, PTL DEF Spec, IInv

\* Every promise of a payment API call is resolved exactly once, exactly
\* when its request is over: no on_result path both calls on_error and
\* fulfils, and the promise SendPaymentFormQuery moves into the updates
\* lambda is neither lost nor resolved twice.
THEOREM ResolvedOnce == Spec => []ResolvedOnceWhenDone
<1>1. Spec => []IInv
    BY InitIInv, IInvStep, PTL DEF Spec
<1> QED
    BY <1>1, PTL DEF IInv

\* on_get_dialog_error is called exactly for the chat-bound handlers that
\* fail, with the chat the caller named, and never for a validation error
\* or a plain handler.
THEOREM ChatErrorsReported == Spec => []DialogErrorsReported
<1>1. Spec => []IInv
    BY InitIInv, IInvStep, PTL DEF Spec
<1> QED
    BY <1>1, PTL DEF IInv
-----------------------------------------------------------------------------
(* The amounts of delivered invoices *)

\* What a fulfilled form or receipt can carry: an invoice of the server,
\* its convert_invoice translation, and the tip 0 of a form or the repaired
\* tip_amount of a receipt.
Deliveries ==
    UNION {{[raw |-> ri, invoice |-> ConvertInvoice(ri), tip |-> t] :
               t \in {0, ReceiptTip(ri.tip)}} : ri \in RawInvoices}

\* Every promise holds nothing or such a delivery.
DeliveredConverted == delivered \in [Requests -> {NoInvoice} \cup Deliveries]

\* convert_labeled_price keeps an in-range amount and clamps one out of
\* range to +-Sentinel, which is not 0 and has the amount's sign; an
\* invalid maximum tip and an invalid tip_amount become 0, itself valid.
LEMMA ConvertAmounts ==
    ASSUME NEW raw \in RawInvoices
    PROVE  LET inv == ConvertInvoice(raw)
           IN  /\ IF CheckCurrencyAmount(raw.price) THEN inv.price = raw.price
                                                    ELSE /\ inv.price # 0
                                                         /\ (inv.price < 0) = (raw.price < 0)
               /\ ValidTip(inv.maxTip)
               /\ ValidTip(0) /\ ValidTip(ReceiptTip(raw.tip))
<1>1. raw.price \in Int /\ raw.maxTip \in Int /\ raw.tip \in Int
    BY ConstantsAssumption
<1>2. MaxAmount \in Nat /\ Sentinel \in Nat \ {0}
    BY ConstantsAssumption
<1> QED
    BY <1>1, <1>2
    DEF ConvertInvoice, ConvertLabeledPrice, CheckCurrencyAmount, ValidTip, ReceiptTip

\* A delivery passes the amount checks of DeliveredAmountsSane.
LEMMA DeliveryAmountsSane ==
    ASSUME NEW d \in Deliveries
    PROVE  LET raw == d.raw
               inv == d.invoice
           IN  /\ IF CheckCurrencyAmount(raw.price) THEN inv.price = raw.price
                                                    ELSE /\ inv.price # 0
                                                         /\ (inv.price < 0) = (raw.price < 0)
               /\ ValidTip(inv.maxTip) /\ ValidTip(d.tip)
<1>1. PICK ri \in RawInvoices :
          \E t \in {0, ReceiptTip(ri.tip)} :
              d = [raw |-> ri, invoice |-> ConvertInvoice(ri), tip |-> t]
    BY DEF Deliveries
<1>2. PICK t \in {0, ReceiptTip(ri.tip)} :
          d = [raw |-> ri, invoice |-> ConvertInvoice(ri), tip |-> t]
    BY <1>1
<1> QED
    BY <1>2, ConvertAmounts

\* Fulfilling request r with an invoice of the server and the tip of a form
\* or of a receipt keeps every promise holding nothing or a delivery.
LEMMA FulfilDelivers ==
    ASSUME DeliveredConverted, NEW r \in Requests, NEW raw \in RawInvoices,
           NEW t \in {0, ReceiptTip(raw.tip)}, FulfilWithInvoice(r, raw, t)
    PROVE  DeliveredConverted'
<1>1. [raw |-> raw, invoice |-> ConvertInvoice(raw), tip |-> t] \in Deliveries
    BY DEF Deliveries
<1> QED
    BY <1>1 DEF FulfilWithInvoice, DeliveredConverted

\* Every step keeps every promise holding nothing or a delivery: only the
\* on_result of GetPaymentFormQuery and GetPaymentReceiptQuery deliver an
\* invoice, and each delivers the translation of what the server sent.
LEMMA DeliveredStep == DeliveredConverted /\ [Next]_vars => DeliveredConverted'
<1> SUFFICES ASSUME DeliveredConverted, [Next]_vars PROVE DeliveredConverted'
    OBVIOUS
<1>1. ASSUME NEW r \in Requests, NEW rep \in Replies, Answer(r, rep)
      PROVE  DeliveredConverted'
    <2>1. CASE rep \in {"error", "unparsable"}
        BY <1>1, <2>1 DEF Answer, OnError, DeliveredConverted
    <2>2. CASE rep \notin {"error", "unparsable"} /\ handler[r] = "GetPaymentFormQuery"
        <3>1. FormOnResult(r, rep)
            BY <1>1, <2>2 DEF Answer
        <3>2. CASE rep = "ok"
            BY <3>1, <3>2, FulfilDelivers DEF FormOnResult
        <3>3. CASE rep # "ok"
            BY <3>1, <3>3 DEF FormOnResult, OnError, DeliveredConverted
        <3> QED
            BY <3>2, <3>3
    <2>3. CASE rep \notin {"error", "unparsable"} /\ handler[r] = "GetPaymentReceiptQuery"
        <3>1. ReceiptOnResult(r, rep)
            BY <1>1, <2>3 DEF Answer
        <3>2. CASE rep = "ok"
            BY <3>1, <3>2, FulfilDelivers DEF ReceiptOnResult
        <3>3. CASE rep # "ok"
            BY <3>1, <3>3 DEF ReceiptOnResult, OnError, DeliveredConverted
        <3> QED
            BY <3>2, <3>3
    <2>4. CASE rep \notin {"error", "unparsable"}
               /\ handler[r] \notin {"GetPaymentFormQuery", "GetPaymentReceiptQuery"}
        <3>1. SendPaymentFormOnResult(r, rep) \/ Fulfil(r)
            BY <1>1, <2>4 DEF Answer
        <3> QED
            BY <3>1 DEF SendPaymentFormOnResult, Fulfil, DeliveredConverted
    <2> QED
        BY <2>1, <2>2, <2>3, <2>4
<1>2. ASSUME NEW r \in Requests,
             \/ \E valid \in BOOLEAN : AnswerShippingQuery(r, valid)
             \/ \E h \in {"SetBotPreCheckoutAnswerQuery", "GetSavedInfoQuery",
                          "ClearSavedInfoQuery", "GetBankCardInfoQuery"} : PlainRequest(r, h)
             \/ \E valid \in BOOLEAN : ExportInvoice(r, valid)
             \/ \E in \in InvoiceInputs : GetPaymentForm(r, in)
             \/ \E in \in InvoiceInputs, clean \in BOOLEAN : ValidateOrderInfo(r, in, clean)
             \/ \E in \in InvoiceInputs, c \in Credentials : SendPaymentForm(r, in, c)
             \/ \E d \in Dialogs, found, access \in BOOLEAN : GetPaymentReceipt(r, d, found, access)
             \/ UpdatesApplied(r)
             \/ Cancel(r)
             \/ Close
      PROVE  DeliveredConverted'
    <2>1. UNCHANGED delivered
        BY <1>2 DEF AnswerShippingQuery, PlainRequest, ExportInvoice, GetPaymentForm,
                    ValidateOrderInfo, SendPaymentForm, GetPaymentReceipt,
                    GetPaymentReceiptQuerySend, SendQuery, Reject, UpdatesApplied, Cancel,
                    OnError, Close
    <2> QED
        BY <2>1 DEF DeliveredConverted
<1>3. CASE UNCHANGED vars
    BY <1>3 DEF vars, DeliveredConverted
<1> QED
    BY <1>1, <1>2, <1>3 DEF Next

\* Every amount a payment form or receipt delivers to the client is what
\* convert_labeled_price, convert_invoice and GetPaymentReceiptQuery make
\* of the server's amounts: an in-range price kept, one out of range
\* clamped to a nonzero amount of its sign, and valid tips, for every bound
\* and clamp (DeliveredAmountsSane).
THEOREM DeliveredAmountsSaneHolds == Spec => []DeliveredAmountsSane
<1>1. Init => DeliveredConverted
    BY DEF Init, DeliveredConverted
<1>2. DeliveredConverted => DeliveredAmountsSane
    <2> SUFFICES ASSUME DeliveredConverted, NEW r \in Requests, delivered[r] # NoInvoice
                 PROVE  LET raw == delivered[r].raw
                            inv == delivered[r].invoice
                        IN  /\ IF CheckCurrencyAmount(raw.price)
                               THEN inv.price = raw.price
                               ELSE /\ inv.price # 0
                                    /\ (inv.price < 0) = (raw.price < 0)
                            /\ ValidTip(inv.maxTip) /\ ValidTip(delivered[r].tip)
        BY DEF DeliveredAmountsSane
    <2>1. delivered[r] \in Deliveries
        BY DEF DeliveredConverted
    <2> QED
        BY <2>1, DeliveryAmountsSane
<1>3. Spec => []DeliveredConverted
    BY <1>1, DeliveredStep, PTL DEF Spec
<1> QED
    BY <1>2, <1>3, PTL

-----------------------------------------------------------------------------
(* The suggested tips: what td::remove_if and resize(4) keep *)

\* The valid tips among the first i of s, by index.
ValidUpTo(s, i) == {j \in 1..i : ValidTip(s[j])}

\* The index of the k-th valid tip of s: the valid index with k valid tips
\* up to it.
TipAt(s, k) == CHOOSE j \in Nat \ {0} : ValidTip(s[j]) /\ Cardinality(ValidUpTo(s, j)) = k

\* The closed form of the scan of RemoveIf: the k-th kept tip is the k-th
\* valid one.
Scanned(s, i) == [k \in 1..Cardinality(ValidUpTo(s, i)) |-> s[TipAt(s, k)]]

\* The valid tips up to i form a finite set.
LEMMA ValidUpToFinite ==
    ASSUME NEW s, NEW i \in Nat
    PROVE  /\ IsFiniteSet(ValidUpTo(s, i))
           /\ Cardinality(ValidUpTo(s, i)) \in Nat
<1>1. IsFiniteSet(1..i)
    BY FS_Interval
<1>2. IsFiniteSet(ValidUpTo(s, i))
    BY <1>1, FS_Subset DEF ValidUpTo
<1> QED
    BY <1>2, FS_CardinalityType

\* One more tip scanned adds its index when it is valid.
LEMMA ValidUpToStep ==
    ASSUME NEW s, NEW i \in Nat \ {0}
    PROVE  /\ ValidTip(s[i]) =>
                 /\ ValidUpTo(s, i) = ValidUpTo(s, i - 1) \cup {i}
                 /\ Cardinality(ValidUpTo(s, i)) = Cardinality(ValidUpTo(s, i - 1)) + 1
           /\ ~ValidTip(s[i]) => ValidUpTo(s, i) = ValidUpTo(s, i - 1)
<1>1. i - 1 \in Nat
    OBVIOUS
<1>2. ValidTip(s[i]) => ValidUpTo(s, i) = ValidUpTo(s, i - 1) \cup {i}
    BY DEF ValidUpTo
<1>3. i \notin ValidUpTo(s, i - 1)
    BY DEF ValidUpTo
<1>4. ValidTip(s[i]) => Cardinality(ValidUpTo(s, i)) = Cardinality(ValidUpTo(s, i - 1)) + 1
    BY <1>1, <1>2, <1>3, ValidUpToFinite, FS_AddElement
<1>5. ~ValidTip(s[i]) => ValidUpTo(s, i) = ValidUpTo(s, i - 1)
    BY DEF ValidUpTo
<1> QED
    BY <1>2, <1>4, <1>5

\* The valid tips up to j are among those up to i, for j <= i.
LEMMA ValidUpToMono ==
    ASSUME NEW s, NEW i \in Nat, NEW j \in 0..i
    PROVE  /\ ValidUpTo(s, j) \subseteq ValidUpTo(s, i)
           /\ Cardinality(ValidUpTo(s, j)) <= Cardinality(ValidUpTo(s, i))
<1>1. ValidUpTo(s, j) \subseteq ValidUpTo(s, i)
    BY DEF ValidUpTo
<1> QED
    BY <1>1, ValidUpToFinite, FS_Subset

\* A valid tip is counted by its own index and by no earlier one: the count
\* of valid tips strictly grows at each valid index.
LEMMA RankStrict ==
    ASSUME NEW s, NEW i \in Nat \ {0}, NEW j \in 0..(i - 1), ValidTip(s[i])
    PROVE  Cardinality(ValidUpTo(s, j)) < Cardinality(ValidUpTo(s, i))
<1>1. Cardinality(ValidUpTo(s, j)) <= Cardinality(ValidUpTo(s, i - 1))
    BY ValidUpToMono
<1>2. Cardinality(ValidUpTo(s, i)) = Cardinality(ValidUpTo(s, i - 1)) + 1
    BY ValidUpToStep
<1>3. Cardinality(ValidUpTo(s, j)) \in Nat /\ Cardinality(ValidUpTo(s, i - 1)) \in Nat
    BY ValidUpToFinite
<1> QED
    BY <1>1, <1>2, <1>3

\* The k-th valid tip of s is at the index i that makes the count of valid
\* tips k.
LEMMA TipAtNew ==
    ASSUME NEW s, NEW i \in Nat \ {0}, ValidTip(s[i])
    PROVE  TipAt(s, Cardinality(ValidUpTo(s, i))) = i
<1>1. ASSUME NEW j \in Nat \ {0}, ValidTip(s[j]),
             Cardinality(ValidUpTo(s, j)) = Cardinality(ValidUpTo(s, i))
      PROVE  j = i
    <2>1. Cardinality(ValidUpTo(s, i)) \in Nat /\ Cardinality(ValidUpTo(s, j)) \in Nat
        BY ValidUpToFinite
    <2>2. ~(j < i)
        <3> SUFFICES ASSUME j < i PROVE FALSE
            OBVIOUS
        <3>1. j \in 0..(i - 1)
            OBVIOUS
        <3> QED
            BY <1>1, <2>1, <3>1, RankStrict
    <2>3. ~(i < j)
        <3> SUFFICES ASSUME i < j PROVE FALSE
            OBVIOUS
        <3>1. i \in 0..(j - 1)
            OBVIOUS
        <3> QED
            BY <1>1, <2>1, <3>1, RankStrict
    <2> QED
        BY <2>2, <2>3
<1> QED
    BY <1>1 DEF TipAt

\* Nothing scanned, nothing kept.
LEMMA ScannedZero ==
    ASSUME NEW s
    PROVE  Scanned(s, 0) = << >>
<1>1. ValidUpTo(s, 0) = {}
    BY DEF ValidUpTo
<1>2. Cardinality(ValidUpTo(s, 0)) = 0
    BY <1>1, FS_EmptySet
<1>3. 1..0 = {}
    OBVIOUS
<1> QED
    BY <1>2, <1>3 DEF Scanned

\* The closed form follows the scan: a valid tip is appended, an invalid
\* one is skipped.
LEMMA ScannedStep ==
    ASSUME NEW s, NEW i \in Nat \ {0}
    PROVE  /\ ValidTip(s[i]) => Scanned(s, i) = Append(Scanned(s, i - 1), s[i])
           /\ ~ValidTip(s[i]) => Scanned(s, i) = Scanned(s, i - 1)
<1>1. ASSUME ValidTip(s[i])
      PROVE  Scanned(s, i) = Append(Scanned(s, i - 1), s[i])
    <2> DEFINE c == Cardinality(ValidUpTo(s, i - 1))
    <2>1. c \in Nat /\ Cardinality(ValidUpTo(s, i)) = c + 1
        BY <1>1, ValidUpToStep, ValidUpToFinite
    <2>2. TipAt(s, c + 1) = i
        BY <1>1, <2>1, TipAtNew
    <2> QED
        BY <2>1, <2>2 DEF Scanned
<1>2. ~ValidTip(s[i]) => Scanned(s, i) = Scanned(s, i - 1)
    BY ValidUpToStep DEF Scanned
<1> QED
    BY <1>1, <1>2


\* The scan of RemoveIf's LET, as TLAPS reads a recursive function.
ScanOf(s) ==
    CHOOSE scan : scan = [i \in 0..Len(s) |->
                            IF i = 0 THEN << >>
                            ELSE IF ValidTip(s[i]) THEN Append(scan[i - 1], s[i])
                                                   ELSE scan[i - 1]]

\* Every nonempty set of naturals has a least element.
LEMMA NatLeast ==
    ASSUME NEW T \in SUBSET Nat, T # {}
    PROVE  \E x \in T : \A y \in T : ~(y < x)
<1>1. \E x \in T : \A y \in T : ~(<<y, x>> \in OpToRel(<, Nat))
    BY NatLessThanWellFounded, WFMin, Zenon
<1> QED
    BY <1>1, Zenon DEF OpToRel

\* The scan satisfies its recursive definition: the closed form does, so a
\* function that does exists; and RemoveIf is its last entry.
LEMMA ScanDef ==
    ASSUME NEW s \in Seq(Int)
    PROVE  /\ RemoveIf(s) = ScanOf(s)[Len(s)]
           /\ \A i \in 0..Len(s) :
                  ScanOf(s)[i] = IF i = 0 THEN << >>
                                 ELSE IF ValidTip(s[i]) THEN Append(ScanOf(s)[i - 1], s[i])
                                                        ELSE ScanOf(s)[i - 1]
<1> DEFINE Body(f) == [i \in 0..Len(s) |->
                          IF i = 0 THEN << >>
                          ELSE IF ValidTip(s[i]) THEN Append(f[i - 1], s[i])
                                                 ELSE f[i - 1]]
           G == [i \in 0..Len(s) |-> Scanned(s, i)]
<1>1. ASSUME NEW i \in 0..Len(s)
      PROVE  G[i] = Body(G)[i]
    <2>1. CASE i = 0
        BY <2>1, ScannedZero
    <2>2. CASE i # 0
        <3>1. G[i - 1] = Scanned(s, i - 1)
            BY <2>2
        <3> QED
            BY <2>2, <3>1, ScannedStep
    <2> QED
        BY <2>1, <2>2, Zenon
<1>2. G = Body(G)
    BY <1>1, Zenon
<1>3. ScanOf(s) = Body(ScanOf(s))
    BY <1>2, Zenon DEF ScanOf
<1>4. RemoveIf(s) = ScanOf(s)[Len(s)]
    BY Zenon DEF RemoveIf, ScanOf
<1> QED
    BY <1>3, <1>4, Zenon

\* td::remove_if keeps exactly the valid tips in their order: the scan is
\* the closed form at every step, by induction on the steps (the least step
\* where they differ cannot be 0, nor follow one where they agree).
LEMMA RemoveIfClosed ==
    ASSUME NEW s \in Seq(Int)
    PROVE  RemoveIf(s) = Scanned(s, Len(s))
<1> DEFINE T == {i \in 0..Len(s) : ScanOf(s)[i] # Scanned(s, i)}
<1>1. T = {}
    <2> SUFFICES ASSUME T # {} PROVE FALSE
        OBVIOUS
    <2>0. T \in SUBSET Nat
        OBVIOUS
    <2>1. PICK x \in T : \A y \in T : ~(y < x)
        BY <2>0, NatLeast, Zenon
    <2>2. CASE x = 0
        <3>1. ScanOf(s)[0] = << >>
            BY ScanDef
        <3> QED
            BY <2>1, <2>2, <3>1, ScannedZero
    <2>3. CASE x # 0
        <3>1. x - 1 \in 0..Len(s) /\ x - 1 < x /\ x \in Nat \ {0}
            BY <2>1, <2>3
        <3>2. ScanOf(s)[x - 1] = Scanned(s, x - 1)
            BY <2>1, <3>1
        <3>3. ScanOf(s)[x] = IF ValidTip(s[x]) THEN Append(ScanOf(s)[x - 1], s[x])
                                                ELSE ScanOf(s)[x - 1]
            BY <2>1, <3>1, ScanDef
        <3>4. ScanOf(s)[x] = Scanned(s, x)
            BY <3>1, <3>2, <3>3, ScannedStep
        <3> QED
            BY <2>1, <3>4
    <2> QED
        BY <2>2, <2>3
<1> QED
    BY <1>1, ScanDef

\* Every count up to that of the valid tips up to i is reached at a valid
\* index up to i: the count grows by steps of one.
LEMMA TipExists ==
    ASSUME NEW s, NEW i \in Nat
    PROVE  \A k \in 1..Cardinality(ValidUpTo(s, i)) :
               \E j \in 1..i : ValidTip(s[j]) /\ Cardinality(ValidUpTo(s, j)) = k
<1> DEFINE Reached(n) == \A k \in 1..Cardinality(ValidUpTo(s, n)) :
                             \E j \in 1..n : ValidTip(s[j]) /\ Cardinality(ValidUpTo(s, j)) = k
           T == {n \in Nat : ~Reached(n)}
<1>1. T = {}
    <2> SUFFICES ASSUME T # {} PROVE FALSE
        OBVIOUS
    <2>1. PICK x \in T : \A y \in T : ~(y < x)
        BY NatLeast, Zenon
    <2>2. CASE x = 0
        <3>1. ValidUpTo(s, 0) = {}
            BY DEF ValidUpTo
        <3>2. Cardinality(ValidUpTo(s, 0)) = 0
            BY <3>1, FS_EmptySet
        <3> QED
            BY <2>1, <2>2, <3>2
    <2>3. CASE x # 0
        <3> DEFINE c == Cardinality(ValidUpTo(s, x - 1))
        <3>1. x \in Nat \ {0} /\ x - 1 \in Nat /\ c \in Nat
            BY <2>1, <2>3, ValidUpToFinite
        <3>2. Reached(x - 1)
            BY <2>1, <3>1
        <3>3. CASE ValidTip(s[x])
            <4>1. Cardinality(ValidUpTo(s, x)) = c + 1
                BY <3>1, <3>3, ValidUpToStep
            <4>2. Reached(x)
                BY <3>1, <3>2, <3>3, <4>1
            <4> QED
                BY <2>1, <4>2
        <3>4. CASE ~ValidTip(s[x])
            <4>1. ValidUpTo(s, x) = ValidUpTo(s, x - 1)
                BY <3>1, <3>4, ValidUpToStep
            <4>2. Reached(x)
                BY <3>1, <3>2, <4>1
            <4> QED
                BY <2>1, <4>2
        <3> QED
            BY <3>3, <3>4
    <2> QED
        BY <2>2, <2>3
<1> QED
    BY <1>1

\* The k-th valid tip up to i exists: TipAt names a valid index up to i
\* with k valid tips up to it.
LEMMA TipAtFound ==
    ASSUME NEW s, NEW i \in Nat, NEW k \in 1..Cardinality(ValidUpTo(s, i))
    PROVE  /\ TipAt(s, k) \in 1..i
           /\ ValidTip(s[TipAt(s, k)])
           /\ Cardinality(ValidUpTo(s, TipAt(s, k))) = k
<1>1. PICK j \in 1..i : ValidTip(s[j]) /\ Cardinality(ValidUpTo(s, j)) = k
    BY TipExists
<1>2. TipAt(s, k) = j
    BY <1>1, TipAtNew
<1> QED
    BY <1>1, <1>2

\* KeptTipIndices counts the valid tips by ValidUpTo: the rank of a valid
\* index is the number of valid tips up to it.
LEMMA KeptByCount ==
    ASSUME NEW s \in Seq(Int)
    PROVE  /\ \A i \in 1..Len(s) :
                  {j \in ValidUpTo(s, Len(s)) : j <= i} = ValidUpTo(s, i)
           /\ KeptTipIndices(s) =
                  {i \in ValidUpTo(s, Len(s)) : Cardinality(ValidUpTo(s, i)) <= 4}
<1>1. \A i \in 1..Len(s) : {j \in ValidUpTo(s, Len(s)) : j <= i} = ValidUpTo(s, i)
    BY DEF ValidUpTo
<1>2. {i \in DOMAIN s : ValidTip(s[i])} = ValidUpTo(s, Len(s))
    BY DEF ValidUpTo
<1>3. ValidUpTo(s, Len(s)) \subseteq 1..Len(s)
    BY DEF ValidUpTo
<1> QED
    BY <1>1, <1>2, <1>3, Zenon DEF KeptTipIndices

\* convert_invoice's tips are the first min(c, 4) valid tips, c the count
\* of valid ones.
LEMMA ConvertTipsClosed ==
    ASSUME NEW s \in Seq(Int)
    PROVE  LET c == Cardinality(ValidUpTo(s, Len(s)))
           IN  ConvertTips(s) = [k \in 1..(IF c > 4 THEN 4 ELSE c) |-> s[TipAt(s, k)]]
<1> DEFINE c == Cardinality(ValidUpTo(s, Len(s)))
<1>1. c \in Nat
    BY ValidUpToFinite
<1>2. RemoveIf(s) = [k \in 1..c |-> s[TipAt(s, k)]]
    BY RemoveIfClosed DEF Scanned
<1>3. CASE c > 4
    <2>1. Len(RemoveIf(s)) = c
        BY <1>1, <1>2
    <2>2. ConvertTips(s) = SubSeq(RemoveIf(s), 1, 4)
        BY <1>3, <2>1 DEF ConvertTips
    <2> QED
        BY <1>1, <1>2, <1>3, <2>2
<1>4. CASE ~(c > 4)
    <2>1. Len(RemoveIf(s)) = c
        BY <1>1, <1>2
    <2>2. ConvertTips(s) = RemoveIf(s)
        BY <1>4, <2>1 DEF ConvertTips
    <2> QED
        BY <1>2, <1>4, <2>2
<1> QED
    BY <1>3, <1>4

\* The tips convert_invoice keeps are the first four valid ones of the
\* server's list, in its order: the statement of DeliveredTipsSane for one
\* list of tips, for every list and every bound on the amounts.
LEMMA ConvertTipsSane ==
    ASSUME NEW s \in Seq(Int)
    PROVE  LET tips == ConvertTips(s)
               kept == KeptTipIndices(s)
           IN  /\ Len(tips) = Cardinality(kept)
               /\ \A k \in 1..Len(tips) :
                      \E i \in kept : /\ Cardinality({j \in kept : j <= i}) = k
                                      /\ tips[k] = s[i]
<1> DEFINE n == Len(s)
           V(i) == ValidUpTo(s, i)
           c == Cardinality(V(n))
           m == IF c > 4 THEN 4 ELSE c
           kept == KeptTipIndices(s)
<1>1. n \in Nat /\ c \in Nat /\ m \in 0..c /\ m <= 4
    BY ValidUpToFinite
<1>2. ConvertTips(s) = [k \in 1..m |-> s[TipAt(s, k)]]
    BY ConvertTipsClosed
<1>3. kept = {i \in V(n) : Cardinality(V(i)) <= 4}
    BY KeptByCount
<1>4. \A i \in V(n) : i \in 1..n /\ ValidTip(s[i])
    BY DEF ValidUpTo
\* kept is a prefix of the valid tips: those up to the fourth, or all.
<1>5. Cardinality(kept) = m
    <2>1. CASE c > 4
        <3> DEFINE t == TipAt(s, 4)
        <3>1. t \in 1..n /\ ValidTip(s[t]) /\ Cardinality(V(t)) = 4
            BY <1>1, <2>1, TipAtFound
        <3>2. ASSUME NEW i \in kept PROVE i \in V(t)
            <4>1. i \in 1..n /\ ValidTip(s[i]) /\ Cardinality(V(i)) <= 4
                BY <1>3, <1>4
            <4>2. ~(t < i)
                <5> SUFFICES ASSUME t < i PROVE FALSE
                    OBVIOUS
                <5>1. t \in 0..(i - 1) /\ i \in Nat \ {0}
                    BY <3>1, <4>1
                <5>2. Cardinality(V(t)) < Cardinality(V(i))
                    BY <4>1, <5>1, RankStrict
                <5>3. Cardinality(V(i)) \in Nat
                    BY <5>1, ValidUpToFinite
                <5> QED
                    BY <3>1, <4>1, <5>2, <5>3
            <4> QED
                BY <3>1, <4>1, <4>2 DEF ValidUpTo
        <3>3. ASSUME NEW i \in V(t) PROVE i \in kept
            <4>1. i \in 0..t /\ t \in Nat
                BY <3>1 DEF ValidUpTo
            <4>2. V(t) \subseteq V(n) /\ Cardinality(V(i)) <= Cardinality(V(t))
                BY <1>1, <3>1, <4>1, ValidUpToMono
            <4> QED
                BY <1>3, <3>1, <4>2
        <3>4. kept = V(t)
            BY <3>2, <3>3, Zenon
        <3> QED
            BY <2>1, <3>1, <3>4
    <2>2. CASE ~(c > 4)
        <3>1. ASSUME NEW i \in V(n) PROVE Cardinality(V(i)) <= 4
            <4>1. i \in 0..n
                BY <1>4
            <4>2. Cardinality(ValidUpTo(s, i)) <= Cardinality(ValidUpTo(s, n))
                BY <1>1, <4>1, ValidUpToMono
            <4>3. Cardinality(ValidUpTo(s, i)) \in Nat
                BY <4>1, ValidUpToFinite
            <4> QED
                BY <1>1, <2>2, <4>2, <4>3
        <3>2. kept = V(n)
            BY <1>3, <3>1
        <3> QED
            BY <2>2, <3>2
    <2> QED
        BY <2>1, <2>2
\* The k-th kept tip is the k-th valid one, and kept up to it are the
\* valid ones up to it.
<1>6. ASSUME NEW k \in 1..m
      PROVE  \E i \in kept : /\ Cardinality({j \in kept : j <= i}) = k
                             /\ ConvertTips(s)[k] = s[i]
    <2> DEFINE i == TipAt(s, k)
    <2>1. i \in 1..n /\ ValidTip(s[i]) /\ Cardinality(V(i)) = k
        <3>1. k \in 1..c
            BY <1>1
        <3> QED
            BY <1>1, <3>1, TipAtFound
    <2>2. i \in V(n)
        BY <2>1 DEF ValidUpTo
    <2>3. i \in kept
        BY <1>1, <1>3, <2>1, <2>2
    <2>4. {j \in kept : j <= i} = V(i)
        <3>1. ASSUME NEW j \in kept, j <= i PROVE j \in V(i)
            BY <1>3, <1>4, <3>1 DEF ValidUpTo
        <3>2. ASSUME NEW j \in V(i) PROVE j \in kept /\ j <= i
            <4>1. j \in 0..i /\ j <= i
                BY <2>1 DEF ValidUpTo
            <4>2. V(i) \subseteq V(n) /\ Cardinality(V(j)) <= Cardinality(V(i))
                BY <1>1, <2>1, <4>1, ValidUpToMono
            <4>3. Cardinality(V(j)) \in Nat
                BY <4>1, ValidUpToFinite
            <4>4. j \in V(n) /\ Cardinality(V(j)) <= 4
                BY <1>1, <2>1, <4>2, <4>3
            <4> QED
                BY <1>3, <4>1, <4>4
        <3> QED
            BY <3>1, <3>2
    <2>5. ConvertTips(s)[k] = s[i]
        BY <1>2
    <2> QED
        BY <2>1, <2>3, <2>4, <2>5, Zenon
<1>7. Len(ConvertTips(s)) = m
    BY <1>1, <1>2
<1> QED
    BY <1>5, <1>6, <1>7, Zenon

\* Every delivered invoice suggests the first four valid tips of the
\* server's list, in its order, for every list the server may send
\* (DeliveredTipsSane): td::remove_if and resize(4) in convert_invoice.
THEOREM DeliveredTipsSaneHolds == Spec => []DeliveredTipsSane
<1>1. DeliveredConverted => DeliveredTipsSane
    <2> SUFFICES ASSUME DeliveredConverted, NEW r \in Requests, delivered[r] # NoInvoice
                 PROVE  LET raw == delivered[r].raw
                            inv == delivered[r].invoice
                            kept == KeptTipIndices(raw.tips)
                        IN  /\ Len(inv.tips) = Cardinality(kept)
                            /\ \A k \in 1..Len(inv.tips) :
                                   \E i \in kept : /\ Cardinality({j \in kept : j <= i}) = k
                                                   /\ inv.tips[k] = raw.tips[i]
        BY Zenon DEF DeliveredTipsSane
    <2>1. PICK ri \in RawInvoices :
              \E t \in {0, ReceiptTip(ri.tip)} :
                  delivered[r] = [raw |-> ri, invoice |-> ConvertInvoice(ri), tip |-> t]
        BY DEF DeliveredConverted, Deliveries
    <2>2. delivered[r].raw = ri /\ delivered[r].invoice.tips = ConvertTips(ri.tips)
        BY <2>1 DEF ConvertInvoice
    <2>3. ri.tips \in Seq(Int)
        BY ConstantsAssumption
    <2>4. delivered[r].raw.tips \in Seq(Int)
          /\ delivered[r].invoice.tips = ConvertTips(delivered[r].raw.tips)
        BY <2>2, <2>3
    <2> DEFINE s == delivered[r].raw.tips
    <2>5. LET kept == KeptTipIndices(s)
          IN  /\ Len(ConvertTips(s)) = Cardinality(kept)
              /\ \A k \in 1..Len(ConvertTips(s)) :
                     \E i \in kept : /\ Cardinality({j \in kept : j <= i}) = k
                                     /\ ConvertTips(s)[k] = s[i]
        BY <2>4, ConvertTipsSane, Zenon
    <2> QED
        BY <2>4, <2>5, Zenon
<1>2. Init => DeliveredConverted
    BY DEF Init, DeliveredConverted
<1>3. Spec => []DeliveredConverted
    BY <1>2, DeliveredStep, PTL DEF Spec
<1> QED
    BY <1>1, <1>3, PTL
=============================================================================
