--------------------------- MODULE PaymentQueries ---------------------------
(***************************************************************************)
(* The payment requests of Payments.cpp: each API function validates its   *)
(* input, creates one Td::ResultHandler and sends one network query; the   *)
(* handler's on_result translates the answer (the invoice amounts through  *)
(* convert_invoice) and fulfils the promise, its on_error reports the      *)
(* error to MessagesManager::on_get_dialog_error, for the handlers bound   *)
(* to a chat, and then rejects the promise.  SendPaymentFormQuery hands    *)
(* its promise to UpdatesManager::on_get_updates, which fulfils it once    *)
(* the updates of the answer are applied.                                  *)
(*                                                                         *)
(* Requests are the promises of the API calls; each is used once.  The     *)
(* transport (NetQuery, Td::on_result) and the shutdown that cancels the   *)
(* pending queries are outside the sources and follow the design's        *)
(* Query Dispatcher.                                                       *)
(***************************************************************************)
EXTENDS Integers, Sequences, FiniteSets

CONSTANTS
    Requests,      \* the promises of the API calls
    Dialogs,       \* chats an invoice message or a receipt can be in
    NoDialog,      \* DialogId(): the invalid chat of an invoice given by name
    MaxAmount,     \* the bound of check_currency_amount (misc.cpp)
    Sentinel,      \* 1 << 40, the clamp of convert_labeled_price
    RawInvoices    \* invoices the server may send: [price, maxTip, tips, tip]

ASSUME ConstantsAssumption ==
    /\ NoDialog \notin Dialogs
    /\ MaxAmount \in Nat
    /\ Sentinel \in Nat \ {0}
    /\ RawInvoices \subseteq [price : Int, maxTip : Int, tips : Seq(Int), tip : Int]

VARIABLES
    handler,    \* the ResultHandler class created for a request, or "none"
    target,     \* the chat the request is about, as the caller named it
    dialogId,   \* the handler's dialog_id_ field
    phase,      \* "idle", "pending" (query sent), "updates" (promise given
                \* to UpdatesManager) or "done"
    outcome,    \* "none", "error", or the value the promise was fulfilled
                \* with: "value", or the paymentResult of a sent form
                \* ("paid", or "verification_needed" with its url)
    settled,    \* how many times the promise was resolved
    delivered,  \* the raw and translated invoice a promise was fulfilled with
    reported,   \* <<request, chat>> pairs passed to on_get_dialog_error
    closing     \* G()->close_flag()

vars == <<handler, target, dialogId, phase, outcome, settled, delivered,
          reported, closing>>

-----------------------------------------------------------------------------
(* Handlers and answers *)

DialogHandlers == {"GetPaymentFormQuery", "ValidateRequestedInfoQuery",
                   "SendPaymentFormQuery", "GetPaymentReceiptQuery"}
PlainHandlers == {"SetBotShippingAnswerQuery", "SetBotPreCheckoutAnswerQuery",
                  "GetSavedInfoQuery", "ClearSavedInfoQuery",
                  "ExportInvoiceQuery", "GetBankCardInfoQuery"}
Handlers == DialogHandlers \cup PlainHandlers

\* What the network layer delivers to on_result or on_error.  A reply that
\* fetch_result cannot parse is "unparsable"; "bad_provider" and
\* "bad_seller" are forms and receipts with an invalid user id.
Replies == {"error", "unparsable", "ok", "bad_provider", "bad_seller",
            "paid", "verification"}

NoInvoice == [none |-> TRUE]

\* An invoice given by message or by name (InputInvoice); "found" is the
\* result of get_invoice_message_id and "access" of get_input_peer.
InvoiceInputs == [by : {"message"}, dialog : Dialogs, found : BOOLEAN, access : BOOLEAN]
                 \cup [by : {"name"}]

\* The cases of td_api::InputCredentials, and the checks of the saved one.
Credentials == {"null", "saved_unclean", "saved_no_temp_password", "saved",
                "new", "google_pay", "apple_pay"}

-----------------------------------------------------------------------------
(* Protocol translation *)

\* check_currency_amount (misc.cpp, outside the sources).
CheckCurrencyAmount(a) == -MaxAmount <= a /\ a <= MaxAmount

\* A tip amount convert_invoice keeps.
ValidTip(a) == a >= 0 /\ CheckCurrencyAmount(a)

\* A plausible bug: an amount out of range clamped to +2^40 whatever its sign.
ConvertLabeledPriceUnsigned(a) ==
    IF CheckCurrencyAmount(a) THEN a ELSE Sentinel

\* convert_labeled_price: an amount out of range becomes +-2^40.
ConvertLabeledPrice(a) ==
    IF CheckCurrencyAmount(a) THEN a ELSE (IF a < 0 THEN -1 ELSE 1) * Sentinel

\* td::remove_if of the invalid tips of s: one pass from the front that
\* keeps the valid ones in their order.
RemoveIf(s) ==
    LET scan[i \in 0..Len(s)] ==
            IF i = 0 THEN << >>
            ELSE IF ValidTip(s[i]) THEN Append(scan[i - 1], s[i]) ELSE scan[i - 1]
    IN  scan[Len(s)]

\* A plausible bug: the suggested tips are cut to 5, not 4.
ConvertTipsOffByOne(tips) ==
    LET kept == RemoveIf(tips)
    IN  IF Len(kept) > 5 THEN SubSeq(kept, 1, 5) ELSE kept

\* remove_if of the invalid suggested tips, then resize(4).
ConvertTips(tips) ==
    LET kept == RemoveIf(tips)
    IN  IF Len(kept) > 4 THEN SubSeq(kept, 1, 4) ELSE kept

\* convert_invoice: the price through convert_labeled_price, an invalid
\* maximum tip replaced by 0 and the suggested tips filtered.
ConvertInvoice(raw) ==
    [price  |-> ConvertLabeledPrice(raw.price),
     maxTip |-> IF ValidTip(raw.maxTip) THEN raw.maxTip ELSE 0,
     tips   |-> ConvertTips(raw.tips)]

\* GetPaymentReceiptQuery's repair of an invalid tip_amount.
ReceiptTip(a) == IF ValidTip(a) THEN a ELSE 0

\* get_input_invoice_info: the chat of the invoice, or a validation error.
InvoiceInfoOk(in) == in.by = "name" \/ (in.found /\ in.access)
InvoiceDialog(in) == IF in.by = "message" THEN in.dialog ELSE NoDialog

-----------------------------------------------------------------------------
(* Resolving a promise *)

Resolve(r, o) ==
    /\ outcome' = [outcome EXCEPT ![r] = o]
    /\ settled' = [settled EXCEPT ![r] = @ + 1]
    /\ phase' = [phase EXCEPT ![r] = "done"]

\* ResultHandler::on_error: the chat-bound handlers first report the error
\* for dialog_id_, then every handler rejects its promise.
OnError(r) ==
    /\ reported' = IF handler[r] \in DialogHandlers
                   THEN reported \cup {<<r, dialogId[r]>>} ELSE reported
    /\ Resolve(r, "error")
    /\ UNCHANGED delivered

\* Fulfilling a promise with an answer that carries no invoice.
Fulfil(r) ==
    /\ Resolve(r, "value")
    /\ UNCHANGED <<delivered, reported>>

\* Fulfilling a promise with a translated invoice and tip.
FulfilWithInvoice(r, raw, tip) ==
    /\ Resolve(r, "value")
    /\ delivered' = [delivered EXCEPT ![r] = [raw |-> raw, invoice |-> ConvertInvoice(raw),
                                             tip |-> tip]]
    /\ UNCHANGED reported

\* A validation error reported through the promise before any handler exists.
Reject(r, t) ==
    /\ target' = [target EXCEPT ![r] = t]
    /\ Resolve(r, "error")
    /\ UNCHANGED <<handler, dialogId, delivered, reported>>

\* create_handler<h>(promise)->send(...): the query is on the network.
SendQuery(r, h, t, d) ==
    /\ handler' = [handler EXCEPT ![r] = h]
    /\ target' = [target EXCEPT ![r] = t]
    /\ dialogId' = [dialogId EXCEPT ![r] = d]
    /\ phase' = [phase EXCEPT ![r] = "pending"]
    /\ UNCHANGED <<outcome, settled, delivered, reported>>

-----------------------------------------------------------------------------
(* Plausible bugs, each replacing one definition below in a mutation check *)

\* dialog_id_ assigned after the early return of a chat without access.
GetPaymentReceiptQuerySendLate(r, d, access) ==
    IF access
    THEN SendQuery(r, "GetPaymentReceiptQuery", d, d)
    ELSE /\ handler' = [handler EXCEPT ![r] = "GetPaymentReceiptQuery"]
         /\ target' = [target EXCEPT ![r] = d]
         /\ dialogId' = [dialogId EXCEPT ![r] = NoDialog]
         /\ reported' = reported \cup {<<r, NoDialog>>}
         /\ Resolve(r, "error")
         /\ UNCHANGED delivered

\* The "return" before on_error dropped: an invalid user id is reported
\* and the form is delivered all the same.
FormOnResultNoReturn(r, rep) ==
    IF rep = "ok"
    THEN \E raw \in RawInvoices : FulfilWithInvoice(r, raw, 0)
    ELSE /\ reported' = reported \cup {<<r, dialogId[r]>>}
         /\ outcome' = [outcome EXCEPT ![r] = "value"]
         /\ settled' = [settled EXCEPT ![r] = @ + 2]
         /\ phase' = [phase EXCEPT ![r] = "done"]
         /\ \E raw \in RawInvoices :
                delivered' = [delivered EXCEPT ![r] = [raw |-> raw, invoice |-> ConvertInvoice(raw),
                                                         tip |-> 0]]

\* The promise of a paid form not handed on to the updates.
SendPaymentFormOnResultLost(r, rep) ==
    IF rep = "paid"
    THEN /\ phase' = [phase EXCEPT ![r] = "done"]
         /\ UNCHANGED <<outcome, settled, delivered, reported>>
    ELSE /\ Resolve(r, "verification_needed")
         /\ UNCHANGED <<delivered, reported>>

-----------------------------------------------------------------------------
(* Initial state: no call made *)

Init ==
    /\ handler = [r \in Requests |-> "none"]
    /\ target = [r \in Requests |-> NoDialog]
    /\ dialogId = [r \in Requests |-> NoDialog]
    /\ phase = [r \in Requests |-> "idle"]
    /\ outcome = [r \in Requests |-> "none"]
    /\ settled = [r \in Requests |-> 0]
    /\ delivered = [r \in Requests |-> NoInvoice]
    /\ reported = {}
    /\ closing = FALSE

-----------------------------------------------------------------------------
(* API functions: validation, then one handler and its query *)

\* A call of the client, made while Td is running, with a fresh promise.
Callable(r) == ~closing /\ phase[r] = "idle"

\* answer_shipping_query: every option, title and price part must be set,
\* clean UTF-8 and a currency amount.
AnswerShippingQuery(r, valid) ==
    /\ Callable(r)
    /\ IF valid THEN SendQuery(r, "SetBotShippingAnswerQuery", NoDialog, NoDialog)
                ELSE Reject(r, NoDialog)
    /\ UNCHANGED closing

\* answer_pre_checkout_query, get_saved_order_info, delete_saved_order_info,
\* delete_saved_credentials and get_bank_card_info: no validation.
PlainRequest(r, h) ==
    /\ Callable(r)
    /\ SendQuery(r, h, NoDialog, NoDialog)
    /\ UNCHANGED closing

\* export_invoice: the invoice must be set and pass
\* InputInvoice::process_input_message_invoice.
ExportInvoice(r, valid) ==
    /\ Callable(r)
    /\ IF valid THEN SendQuery(r, "ExportInvoiceQuery", NoDialog, NoDialog)
                ELSE Reject(r, NoDialog)
    /\ UNCHANGED closing

\* get_payment_form: get_input_invoice_info, then GetPaymentFormQuery with
\* dialog_id_ the invoice's chat (DialogId() for an invoice by name).
GetPaymentForm(r, in) ==
    /\ Callable(r)
    /\ IF InvoiceInfoOk(in)
       THEN SendQuery(r, "GetPaymentFormQuery", InvoiceDialog(in), InvoiceDialog(in))
       ELSE Reject(r, InvoiceDialog(in))
    /\ UNCHANGED closing

\* validate_order_info: the invoice, then the strings of the order info.
ValidateOrderInfo(r, in, clean) ==
    /\ Callable(r)
    /\ IF InvoiceInfoOk(in) /\ clean
       THEN SendQuery(r, "ValidateRequestedInfoQuery", InvoiceDialog(in), InvoiceDialog(in))
       ELSE Reject(r, InvoiceDialog(in))
    /\ UNCHANGED closing

\* send_payment_form: the invoice, then the credentials (set; a saved one
\* with a clean id and a temporary password).
SendPaymentForm(r, in, c) ==
    /\ Callable(r)
    /\ IF InvoiceInfoOk(in) /\ c \notin {"null", "saved_unclean", "saved_no_temp_password"}
       THEN SendQuery(r, "SendPaymentFormQuery", InvoiceDialog(in), InvoiceDialog(in))
       ELSE Reject(r, InvoiceDialog(in))
    /\ UNCHANGED closing

\* GetPaymentReceiptQuery::send: dialog_id_ is set first; a chat without
\* access fails the handler at once through on_error.
GetPaymentReceiptQuerySend(r, d, access) ==
    IF access
    THEN SendQuery(r, "GetPaymentReceiptQuery", d, d)
    ELSE /\ handler' = [handler EXCEPT ![r] = "GetPaymentReceiptQuery"]
         /\ target' = [target EXCEPT ![r] = d]
         /\ dialogId' = [dialogId EXCEPT ![r] = d]
         /\ reported' = reported \cup {<<r, d>>}
         /\ Resolve(r, "error")
         /\ UNCHANGED delivered

\* get_payment_receipt: get_payment_successful_message_id, then the handler.
GetPaymentReceipt(r, d, found, access) ==
    /\ Callable(r)
    /\ IF found THEN GetPaymentReceiptQuerySend(r, d, access) ELSE Reject(r, d)
    /\ UNCHANGED closing

-----------------------------------------------------------------------------
(* Handlers: on_result and on_error *)

\* The answers the server can give each handler's query.
RepliesOf(h) ==
    CASE h \in {"GetPaymentFormQuery", "GetPaymentReceiptQuery"} ->
             {"error", "unparsable", "ok", "bad_provider", "bad_seller"}
      [] h = "SendPaymentFormQuery" -> {"error", "unparsable", "paid", "verification"}
      [] OTHER -> {"error", "unparsable", "ok"}

\* GetPaymentFormQuery::on_result after fetch_result: an invalid provider or
\* seller id goes to on_error, a valid form is delivered with its invoice.
FormOnResult(r, rep) ==
    IF rep = "ok"
    THEN \E raw \in RawInvoices : FulfilWithInvoice(r, raw, 0)
    ELSE OnError(r)

\* GetPaymentReceiptQuery::on_result: the same checks, and tip_amount repaired.
ReceiptOnResult(r, rep) ==
    IF rep = "ok"
    THEN \E raw \in RawInvoices : FulfilWithInvoice(r, raw, ReceiptTip(raw.tip))
    ELSE OnError(r)

\* SendPaymentFormQuery::on_result: a paymentResult moves the promise into
\* the lambda given to UpdatesManager::on_get_updates; a
\* paymentVerificationNeeded fulfils it at once.
SendPaymentFormOnResult(r, rep) ==
    IF rep = "paid"
    THEN /\ phase' = [phase EXCEPT ![r] = "updates"]
         /\ UNCHANGED <<outcome, settled, delivered, reported>>
    ELSE /\ Resolve(r, "verification_needed")
         /\ UNCHANGED <<delivered, reported>>

\* The answer of the query of request r reaches its handler: a network
\* error, or an answer fetch_result cannot parse, goes to on_error.  No
\* handler tests close_flag: an answer that arrives after Td began closing
\* is handled like any other.
Answer(r, rep) ==
    /\ phase[r] = "pending"
    /\ rep \in RepliesOf(handler[r])
    /\ IF rep \in {"error", "unparsable"}
       THEN OnError(r)
       ELSE CASE handler[r] = "GetPaymentFormQuery" -> FormOnResult(r, rep)
              [] handler[r] = "GetPaymentReceiptQuery" -> ReceiptOnResult(r, rep)
              [] handler[r] = "SendPaymentFormQuery" -> SendPaymentFormOnResult(r, rep)
              [] OTHER -> Fulfil(r)
    /\ UNCHANGED <<handler, target, dialogId, closing>>

\* UpdatesManager has applied the updates of a paid form and calls the
\* lambda, which fulfils the moved promise with a successful paymentResult.
UpdatesApplied(r) ==
    /\ phase[r] = "updates"
    /\ Resolve(r, "paid")
    /\ UNCHANGED <<delivered, reported>>
    /\ UNCHANGED <<handler, target, dialogId, closing>>

\* Td starts closing: no new call is accepted.
Close ==
    /\ ~closing
    /\ closing' = TRUE
    /\ UNCHANGED <<handler, target, dialogId, phase, outcome, settled, delivered, reported>>

\* A query still pending at shutdown is aborted: its handler's on_error
\* runs with the abort error, and the query is no longer pending, so no
\* answer reaches its handler afterwards.
Cancel(r) ==
    /\ closing
    /\ phase[r] = "pending"
    /\ OnError(r)
    /\ UNCHANGED <<handler, target, dialogId, closing>>

Next ==
    \E r \in Requests :
        \/ \E valid \in BOOLEAN : AnswerShippingQuery(r, valid)
        \/ \E h \in {"SetBotPreCheckoutAnswerQuery", "GetSavedInfoQuery",
                     "ClearSavedInfoQuery", "GetBankCardInfoQuery"} : PlainRequest(r, h)
        \/ \E valid \in BOOLEAN : ExportInvoice(r, valid)
        \/ \E in \in InvoiceInputs : GetPaymentForm(r, in)
        \/ \E in \in InvoiceInputs, clean \in BOOLEAN : ValidateOrderInfo(r, in, clean)
        \/ \E in \in InvoiceInputs, c \in Credentials : SendPaymentForm(r, in, c)
        \/ \E d \in Dialogs, found, access \in BOOLEAN : GetPaymentReceipt(r, d, found, access)
        \/ \E rep \in Replies : Answer(r, rep)
        \/ UpdatesApplied(r)
        \/ Cancel(r)
        \/ Close

\* The transport answers every query, or aborts it at shutdown, and
\* UpdatesManager applies the updates it was given.
Fairness ==
    \A r \in Requests :
        /\ WF_vars(\E rep \in Replies : Answer(r, rep))
        /\ WF_vars(Cancel(r))
        /\ WF_vars(UpdatesApplied(r))

Spec == Init /\ [][Next]_vars /\ Fairness

-----------------------------------------------------------------------------
(* Properties *)

TypeOK ==
    /\ handler \in [Requests -> Handlers \cup {"none"}]
    /\ target \in [Requests -> Dialogs \cup {NoDialog}]
    /\ dialogId \in [Requests -> Dialogs \cup {NoDialog}]
    /\ phase \in [Requests -> {"idle", "pending", "updates", "done"}]
    /\ outcome \in [Requests -> {"none", "error", "value", "paid", "verification_needed"}]
    /\ settled \in [Requests -> Nat]
    /\ reported \subseteq Requests \X (Dialogs \cup {NoDialog})
    /\ closing \in BOOLEAN

\* Every promise is resolved exactly once, and exactly when its request is
\* over: the "return on_error(...)" of each on_result path and the promise
\* moved into the updates lambda never resolve it twice or drop it.
ResolvedOnceWhenDone ==
    \A r \in Requests : settled[r] = IF phase[r] = "done" THEN 1 ELSE 0

\* A chat-bound handler that fails has reported the error for the chat the
\* caller named (on_get_dialog_error before promise_.set_error), and no
\* other error is reported: validation errors before the handler, plain
\* handlers and fulfilled requests report nothing.
DialogErrorsReported ==
    \A r \in Requests, d \in Dialogs \cup {NoDialog} :
        <<r, d>> \in reported
            <=> /\ handler[r] \in DialogHandlers
                /\ outcome[r] = "error"
                /\ d = target[r]

\* The indices of the tips convert_invoice must keep, in order: the valid
\* ones, at most four.  A reference written apart from ConvertTips.
KeptTipIndices(s) ==
    LET valid == {i \in DOMAIN s : ValidTip(s[i])}
        rank(i) == Cardinality({j \in valid : j <= i})
    IN  {i \in valid : rank(i) <= 4}

\* Every delivered amount obeys the translation contract: a price out of
\* range is clamped with its sign kept and never to 0, an in-range one is
\* kept, and the maximum tip and the receipt's tip are valid currency
\* amounts (convert_labeled_price, convert_invoice, and the tip_amount
\* repair of GetPaymentReceiptQuery).
DeliveredAmountsSane ==
    \A r \in Requests : delivered[r] # NoInvoice =>
        LET raw == delivered[r].raw
            inv == delivered[r].invoice
        IN  /\ IF CheckCurrencyAmount(raw.price) THEN inv.price = raw.price
                                                 ELSE /\ inv.price # 0
                                                      /\ (inv.price < 0) = (raw.price < 0)
            /\ ValidTip(inv.maxTip) /\ ValidTip(delivered[r].tip)

\* The suggested tips of every delivered invoice are the first four valid
\* ones of the server's list, in its order (remove_if, then resize(4)).
DeliveredTipsSane ==
    \A r \in Requests : delivered[r] # NoInvoice =>
        LET raw == delivered[r].raw
            inv == delivered[r].invoice
            kept == KeptTipIndices(raw.tips)
        IN  /\ Len(inv.tips) = Cardinality(kept)
            /\ \A k \in 1..Len(inv.tips) :
                   \E i \in kept : /\ Cardinality({j \in kept : j <= i}) = k
                                   /\ inv.tips[k] = raw.tips[i]
\* Every call of the client is answered: its promise is eventually
\* fulfilled or rejected, also when Td closes with the query in flight.
EveryCallAnswered ==
    \A r \in Requests : phase[r] # "idle" ~> outcome[r] # "none"

=============================================================================
