------------------------------ MODULE SignFlow ------------------------------
(***************************************************************************)
(* The requests that ask for a review: SIGN_TX, in chunks (sign_tx.c), and *)
(* GET_PUBLIC_KEY (get_public_key.c), with the context they share with the *)
(* other commands (G_context), the two reviews (ui/nbgl_display_*.c) and   *)
(* the answers (validate.c).                                               *)
(*                                                                         *)
(* A chunk is a short sequence of units and a transaction parses when it   *)
(* is one of Transactions (TxParser says which those are).  The host sends *)
(* a command when the last one was answered.                               *)
(*                                                                         *)
(* The pages of the notes are one screen, "other", but for the page of the *)
(* passcode: it is modal, commands draw below it, and where it is left the *)
(* page below is replaced, a review as any other (NotesApp has the rest).  *)
(***************************************************************************)
EXTENDS Integers, Sequences

CONSTANTS
    Units,          \* what transactions are made of
    Chunks,         \* what a command may carry of a transaction
    MaxRaw,         \* MAX_TRANSACTION_LEN, in units
    Transactions,   \* what transaction_deserialize accepts
    Paths,          \* BIP32 paths
    Torn            \* the path a too short start command leaves

ASSUME SignAssumption ==
    /\ MaxRaw \in Nat
    /\ Chunks \subseteq Seq(Units) \ {<<>>}
    /\ Transactions \subseteq Seq(Units)
    /\ Torn \notin Paths

VARIABLES
    reqType, state,   \* G_context.req_type, .state
    path,             \* G_context.bip32_path and its length
    rawTx,            \* G_context.tx_info.raw_tx, up to raw_tx_len
    hash,             \* the transaction G_context.tx_info.m_hash was made from
    shown,            \* the transaction g_amount and g_address were made from
    screen, asking,   \* the page, and "Reject transaction?" over it
    covered,          \* the page of the passcode is over them
    reply,            \* the answer sent by the last step
    owed,             \* commands taken and not answered, since the start (a history)
    session           \* what the host sent for the transaction (a history)

context == <<reqType, state, path, rawTx, hash>>
ui      == <<shown, screen, asking, covered>>
vars    == <<context, ui, reply, owed, session>>

\* The command is not answered yet.
pending == owed > 0

ReqTypes == {"address", "transaction", "addAddress", "getNote", "putNote"}

Reviews == {"startTx", "reviewTx", "startAddress", "reviewAddress"}
Statuses == {"signed", "txRejected", "verified", "cancelled"}

\* Answers; a signature says what was signed, and with the key of which path.
NoSignature == [path |-> Torn, tx |-> <<>>]

Errors == {"unsupported", "wrongP1P2", "wrongDataLength", "badState", "wrongTxLength",
           "parsingFail", "hashFail", "displayFail", "deriveFail", "deny", "signatureFail",
           "noSharedNote"}

AnyPath == Paths \cup {Torn}

Replies == [sw : Errors \cup {"none", "ok", "pubkey", "signature", "lost"},
            signed : [path : AnyPath, tx : Seq(Units)]]

Answer(sw) == [sw |-> sw, signed |-> NoSignature]
Signature(p, tx) == [sw |-> "signature", signed |-> [path |-> p, tx |-> tx]]
Silence == Answer("none")

Sessions == [status : {"none", "refused", "open", "ended"},
             path : AnyPath, chunks : Seq(Units)]

NoSession == [status |-> "none", path |-> Torn, chunks |-> <<>>]

TypeOK ==
    /\ reqType \in ReqTypes
    /\ state \in {"none", "parsed", "approved"}
    /\ path \in AnyPath
    /\ \A tx \in {rawTx, hash, shown} : tx \in Seq(Units) /\ Len(tx) <= MaxRaw
    /\ screen \in Reviews \cup Statuses \cup {"other"}
    /\ asking \in BOOLEAN /\ covered \in BOOLEAN
    /\ reply \in Replies
    /\ owed \in Int
    /\ session \in Sessions

-----------------------------------------------------------------------------
(* Commands.                                                               *)

\* Whether the step that gives this answer sends one.
Sent(answer) == IF answer = Silence THEN 0 ELSE 1

\* The loop takes a command, and its handler answers or is silent.
Take(answer) ==
    /\ ~pending
    /\ reply' = answer
    /\ owed' = owed + 1 - Sent(answer)

\* A command is answered by its handler.
Reply(sw) == Take(Answer(sw))

\* explicit_bzero of the context, for a request of type t.
NewContext(t) ==
    /\ reqType' = t
    /\ state' = "none"
    /\ rawTx' = <<>>
    /\ hash' = <<>>

\* The checks of the loop and of the dispatcher: nothing else happens.
Refuse ==
    /\ \E sw \in {"unsupported", "wrongP1P2", "wrongDataLength"} : Reply(sw)
    /\ UNCHANGED <<context, ui, session>>

\* GET_VERSION, GET_APP_NAME.
Stateless ==
    /\ Reply("ok")
    /\ UNCHANGED <<context, ui, session>>

\* ADD_ADDRESS, GET_NOTE and PUT_NOTE clear the context too.  Their pages are
\* those of NotesApp.
NoteCommand(t) ==
    /\ \/ Reply("ok") /\ screen' = "other"
       \/ \E sw \in {"noSharedNote", "wrongDataLength"} : Reply(sw) /\ UNCHANGED screen
    /\ NewContext(t)
    /\ path' = Torn
    /\ session' = NoSession
    /\ UNCHANGED <<shown, asking, covered>>

\* Mutant: the type of the former request stays.
GetPublicKeyUntyped(p) ==
    /\ state' = "none" /\ rawTx' = <<>> /\ hash' = <<>>
    /\ path' = p
    /\ session' = NoSession
    /\ Reply("pubkey")
    /\ UNCHANGED <<reqType, ui>>

\* GET_PUBLIC_KEY: the key is sent at once, or after a review of its address.
GetPublicKey(p) ==
    /\ NewContext("address")
    /\ path' = p
    /\ session' = NoSession
    /\ \/ /\ p = Torn /\ Reply("wrongDataLength") /\ UNCHANGED ui
       \/ /\ p # Torn
          /\ \E sw \in {"deriveFail", "displayFail", "pubkey"} : Reply(sw)
          /\ UNCHANGED ui
       \/ /\ p # Torn
          /\ Take(Silence)
          /\ screen' = "startAddress"
          /\ UNCHANGED <<shown, asking, covered>>

\* SIGN_TX, chunk 0: the request is a transaction before its path was read.
SignStart(p) ==
    /\ Reply(IF p = Torn THEN "wrongDataLength" ELSE "ok")
    /\ NewContext("transaction")
    /\ path' = p
    /\ session' = [status |-> IF p = Torn THEN "refused" ELSE "open",
                   path |-> p, chunks |-> <<>>]
    /\ UNCHANGED ui

\* SIGN_TX, another chunk: its index is not looked at, only the request is.
SignBadState ==
    /\ reqType # "transaction"
    /\ Reply("badState")
    /\ UNCHANGED <<context, ui, session>>

\* Mutant: the room left is not looked at.
FitsAnyway(c) == reqType = "transaction"

Fits(c) == reqType = "transaction" /\ Len(rawTx) + Len(c) <= MaxRaw

SignTooLong(c) ==
    /\ reqType = "transaction" /\ ~Fits(c)
    /\ Reply("wrongTxLength")
    /\ UNCHANGED <<context, ui, session>>

\* The host has the chunk accepted, and may have ended the transaction.
Received(c, end) ==
    session' = [session EXCEPT !.chunks = @ \o c,
                               !.status = IF end /\ @ = "open" THEN "ended" ELSE @]

SignMore(c) ==
    /\ Fits(c)
    /\ Reply("ok")
    /\ rawTx' = rawTx \o c
    /\ Received(c, FALSE)
    /\ UNCHANGED <<reqType, state, path, hash, ui>>

SignLastUnparsed(c) ==
    /\ Fits(c) /\ rawTx \o c \notin Transactions
    /\ Reply("parsingFail")
    /\ rawTx' = rawTx \o c
    /\ Received(c, TRUE)
    /\ UNCHANGED <<reqType, state, path, hash, ui>>

\* The hash or the texts of the review may fail: the state stays parsed.
SignLastFails(c) ==
    /\ Fits(c) /\ rawTx \o c \in Transactions
    /\ rawTx' = rawTx \o c
    /\ state' = "parsed"
    /\ \/ Reply("hashFail") /\ UNCHANGED <<hash, shown>>
       \/ Reply("displayFail") /\ hash' = rawTx' /\ shown' \in {<<>>, shown}
    /\ Received(c, TRUE)
    /\ UNCHANGED <<reqType, path, screen, asking, covered>>

\* Mutant: the hash is made before the last chunk is there.
SignLastHashedEarly(c) ==
    /\ Take(Silence)
    /\ Fits(c) /\ rawTx \o c \in Transactions
    /\ rawTx' = rawTx \o c
    /\ state' = "parsed"
    /\ hash' = rawTx
    /\ shown' = rawTx'
    /\ screen' = "startTx" /\ asking' = FALSE
    /\ Received(c, FALSE)
    /\ UNCHANGED <<reqType, path, covered>>

SignLast(c) ==
    /\ Take(Silence)
    /\ Fits(c) /\ rawTx \o c \in Transactions
    /\ rawTx' = rawTx \o c
    /\ state' = "parsed"
    /\ hash' = rawTx'
    /\ shown' = rawTx'
    /\ screen' = "startTx" /\ asking' = FALSE
    /\ Received(c, FALSE)
    /\ UNCHANGED <<reqType, path, covered>>

-----------------------------------------------------------------------------
(* The reviews.                                                            *)

Touch(s) == screen = s /\ ~asking /\ ~covered

\* The callback of a touch answers or is silent.
Touched(answer) ==
    /\ reply' = answer
    /\ owed' = owed - Sent(answer)

\* A choice of the user sends the answer, then shows a status.
Conclude(answer, status) ==
    /\ Touched(answer)
    /\ screen' = status /\ asking' = FALSE
    /\ UNCHANGED <<shown, covered>>

NextPage ==
    /\ \/ Touch("startTx") /\ screen' = "reviewTx"
       \/ Touch("startAddress") /\ screen' = "reviewAddress"
    /\ Touched(Silence)
    /\ UNCHANGED <<context, shown, asking, covered, session>>

VerifyAddress ==
    /\ Touch("reviewAddress")
    /\ Conclude(Answer("pubkey"), "verified")
    /\ UNCHANGED <<context, session>>

CancelAddress ==
    /\ Touch("startAddress") \/ Touch("reviewAddress")
    /\ Conclude(Answer("deny"), "cancelled")
    /\ UNCHANGED <<context, session>>

EndSession ==
    session' = [session EXCEPT !.status = IF @ = "open" THEN "ended" ELSE @]

\* validate_transaction(true), when the signature is made.
HoldToSign ==
    /\ Touch("reviewTx")
    /\ state' = "approved"
    /\ Conclude(Signature(path, hash), "signed")
    /\ EndSession
    /\ UNCHANGED <<reqType, path, rawTx, hash>>

\* And when it is not: the status page is the same.
HoldToSignFails ==
    /\ Touch("reviewTx")
    /\ state' = "none"
    /\ Conclude(Answer("signatureFail"), "signed")
    /\ EndSession
    /\ UNCHANGED <<reqType, path, rawTx, hash>>

\* Mutant: the rejection is sent before it is confirmed.
AskRejectionSent ==
    /\ Touch("startTx") \/ Touch("reviewTx")
    /\ asking' = TRUE
    /\ Touched(Answer("deny"))
    /\ UNCHANGED <<context, shown, screen, covered, session>>

AskRejection ==
    /\ Touch("startTx") \/ Touch("reviewTx")
    /\ asking' = TRUE
    /\ Touched(Silence)
    /\ UNCHANGED <<context, shown, screen, covered, session>>

BackToTransaction ==
    /\ asking
    /\ asking' = FALSE
    /\ Touched(Silence)
    /\ UNCHANGED <<context, shown, screen, covered, session>>

RejectTransaction ==
    /\ asking
    /\ state' = "none"
    /\ Conclude(Answer("deny"), "txRejected")
    /\ EndSession
    /\ UNCHANGED <<reqType, path, rawTx, hash>>

\* A status page leaves by itself, or is touched.
StatusShown ==
    /\ screen \in Statuses
    /\ screen' = "other"
    /\ Touched(Silence)
    /\ UNCHANGED <<context, shown, asking, covered, session>>

-----------------------------------------------------------------------------
(* The page of the passcode, from the menu or from the settings.           *)

OpenPasscode ==
    /\ Touch("other")
    /\ covered' = TRUE
    /\ Touched(Silence)
    /\ UNCHANGED <<context, shown, screen, asking, session>>

\* The right code, or the back key: another page is drawn, the list of notes,
\* the menu or the settings, whatever command came meanwhile.
LeavePasscode ==
    /\ covered
    /\ covered' = FALSE
    /\ screen' = "other"
    /\ Touched(Silence)
    /\ UNCHANGED <<context, shown, asking, session>>

-----------------------------------------------------------------------------

\* Loss of power, or the application left: the statics are zero.
Restart ==
    /\ NewContext("address")
    /\ path' = Torn
    /\ shown' = <<>> /\ screen' = "other" /\ asking' = FALSE /\ covered' = FALSE
    /\ reply' = Answer("lost")
    /\ owed' = 0
    /\ session' = NoSession

Init ==
    /\ reqType = "address" /\ state = "none"
    /\ path = Torn
    /\ rawTx = <<>> /\ hash = <<>> /\ shown = <<>>
    /\ screen = "other" /\ asking = FALSE /\ covered = FALSE
    /\ reply = Silence
    /\ owed = 0
    /\ session = NoSession

Host ==
    \/ Refuse \/ Stateless
    \/ \E t \in {"addAddress", "getNote", "putNote"} : NoteCommand(t)
    \/ \E p \in AnyPath : GetPublicKey(p) \/ SignStart(p)
    \/ SignBadState
    \/ \E c \in Chunks :
          \/ SignTooLong(c) \/ SignMore(c)
          \/ SignLastUnparsed(c) \/ SignLastFails(c) \/ SignLast(c)

User ==
    \/ NextPage \/ VerifyAddress \/ CancelAddress
    \/ HoldToSign \/ HoldToSignFails
    \/ AskRejection \/ BackToTransaction \/ RejectTransaction
    \/ StatusShown
    \/ OpenPasscode \/ LeavePasscode

Next == Host \/ User \/ Restart

Spec == Init /\ [][Next]_vars

-----------------------------------------------------------------------------
(* Properties.                                                             *)

\* The review on screen is of the request in the context: a transaction that
\* parsed, whose hash was taken from the bytes the amount and the address were
\* read from, or an address; and its command waits.  (A command may wait with no
\* review on screen: PendingIsOnScreen of NotesApp.)
ReviewIsOfContext ==
    /\ screen \in Reviews => pending
    /\ asking => screen \in {"startTx", "reviewTx"} /\ ~covered
    /\ screen \in {"startTx", "reviewTx"} =>
          /\ reqType = "transaction" /\ state = "parsed"
          /\ rawTx \in Transactions /\ hash = rawTx /\ shown = rawTx
    /\ screen \in {"startAddress", "reviewAddress"} =>
          reqType = "address" /\ state = "none" /\ path # Torn

\* A signature is of all the chunks accepted since the last start command, in
\* their order, with the path of that command, whatever commands came between;
\* and the amount and the address of the review the user held were read from
\* those chunks.
SignedIsTheSession ==
    [][reply'.sw = "signature" =>
          /\ reply'.signed = [path |-> session.path, tx |-> session.chunks]
          /\ screen = "reviewTx" /\ shown = session.chunks]_vars

\* What the choice that ends the review of a request may answer.
MayAnswer == [transaction |-> {"signature", "signatureFail", "deny"},
              address     |-> {"pubkey", "deny"}]

\* No answer comes unasked, so none comes twice: there are never more answers
\* than commands.  The command that waits is answered by a touch on its review,
\* with what it asked for or a refusal; and a touch that leaves a review answers.
OneAnswerEach ==
    [][/\ owed' \in {0, 1}
       /\ owed' < owed /\ reply'.sw # "lost" =>
             /\ screen \in Reviews /\ ~covered
             /\ reqType \in DOMAIN MayAnswer /\ reply'.sw \in MayAnswer[reqType]
       /\ screen \in Reviews /\ screen' \notin Reviews /\ ~covered => reply'.sw # "none"]_vars

\* "If successfully parse BIP32 path and transaction, sign transaction": the
\* start command of what is signed was not refused.
\* Not so: README, section 5.
PathParsedBeforeSigned ==
    [][reply'.sw = "signature" => session.status # "refused"]_vars

\* "Ensure there is no state confusion when trying wrong APDU sequences": a
\* flow that was rejected, signed or found wrong is not continued.
\* Not so: README, section 5.
EndedIsNotContinued ==
    [][session'.chunks # session.chunks /\ session'.chunks # <<>> => session.status # "ended"]_vars

\* The page that says "TRANSACTION SIGNED" is shown when it was.
\* Not so: README, section 5.
SignedPageIsTrue ==
    [][screen' = "signed" /\ screen # "signed" => reply'.sw = "signature"]_vars
=============================================================================
