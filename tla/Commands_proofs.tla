-------------------------- MODULE Commands_proofs --------------------------
(***************************************************************************)
(* Proofs about the commands of the host: those about SignFlow, for any    *)
(* chunks, transactions and paths, then those about SharedBuffer, for any  *)
(* size of the buffer and any notes.                                       *)
(***************************************************************************)
EXTENDS SignFlow, SharedBuffer, SequenceTheorems, NaturalsInduction,
        WellFoundedInduction, TLAPS

\* What the proofs need to know of the constant parts.
LEMMA SignFacts ==
    /\ MaxRaw \in Nat /\ 0 \in Int
    /\ <<>> \in Seq(Units) /\ Len(<<>>) = 0 /\ Len(<<>>) <= MaxRaw
    /\ \A c \in Chunks : c \in Seq(Units)
    /\ Torn \in AnyPath
BY SignAssumption, EmptySeq DEF AnyPath

Answers == Errors \cup {"none", "ok", "pubkey", "lost"}

\* Answers are replies, and so are the signatures of bytes that fit.
LEMMA AnswersTyped ==
    /\ \A sw \in Answers : Answer(sw) \in Replies /\ Answer(sw).sw = sw
    /\ Silence \in Replies /\ Silence.sw = "none"
    /\ \A p \in AnyPath, tx \in Seq(Units) :
          Signature(p, tx) \in Replies /\ Signature(p, tx).sw = "signature"
BY SignFacts DEF Answers, Answer, Silence, Signature, Replies, NoSignature

\* Silence is no answer, and all the others are one.
LEMMA OneIsSent ==
    /\ Sent(Silence) = 0
    /\ \A sw \in Answers \ {"none"} : Sent(Answer(sw)) = 1
    /\ \A p, tx : Sent(Signature(p, tx)) = 1
BY DEF Sent, Silence, Answer, Signature, Answers, Errors

\* The answer of a step, and what is owed after it.
LEMMA CountTyped ==
    ASSUME TypeOK, NEW answer \in Replies, Take(answer) \/ Touched(answer)
    PROVE  reply' \in Replies /\ owed' \in Int
BY DEF TypeOK, Take, Touched, Sent

LEMMA NoSessionTyped == NoSession \in Sessions
BY SignFacts DEF NoSession, Sessions

LEMMA StartTyped ==
    ASSUME NEW p \in AnyPath
    PROVE  [status |-> IF p = Torn THEN "refused" ELSE "open",
            path |-> p, chunks |-> <<>>] \in Sessions
BY SignFacts DEF Sessions

\* A chunk accepted is added to those sent, and keeps the path.
LEMMA ReceivedAdds ==
    ASSUME TypeOK, NEW c \in Chunks, NEW end \in BOOLEAN, Received(c, end)
    PROVE  /\ session' \in Sessions
           /\ session'.chunks = session.chunks \o c
           /\ session'.path = session.path
           /\ session'.status = IF end /\ session.status = "open" THEN "ended"
                                ELSE session.status
<1> DEFINE status == IF end /\ session.status = "open" THEN "ended" ELSE session.status
           sent == session.chunks \o c
<1>1. session \in Sessions
  BY DEF TypeOK
<1>2. session.chunks \in Seq(Units) /\ c \in Seq(Units)
  BY <1>1, SignFacts DEF Sessions
<1>3. sent \in Seq(Units)
  BY <1>2, ConcatProperties
<1>4. session' = [status |-> status, path |-> session.path, chunks |-> sent]
  BY <1>1 DEF Received, Sessions
<1>5. session' \in Sessions
  <2> HIDE DEF sent
  <2> QED BY <1>1, <1>3, <1>4 DEF Sessions
<1>6. QED BY <1>4, <1>5

\* The end of a flow is recorded and nothing else.
LEMMA EndSessionKeeps ==
    ASSUME TypeOK, EndSession
    PROVE  /\ session' \in Sessions
           /\ session'.chunks = session.chunks /\ session'.path = session.path
<1>1. session \in Sessions
  BY DEF TypeOK
<1>2. session' = [status |-> IF session.status = "open" THEN "ended" ELSE session.status,
                  path |-> session.path, chunks |-> session.chunks]
  BY <1>1 DEF EndSession, Sessions
<1>3. QED BY <1>1, <1>2 DEF Sessions

\* The bytes of a chunk that fits stay in raw_tx.
LEMMA ChunkAdded ==
    ASSUME TypeOK, NEW c \in Chunks, Fits(c)
    PROVE  rawTx \o c \in Seq(Units) /\ Len(rawTx \o c) <= MaxRaw
<1>1. c \in Seq(Units) /\ rawTx \in Seq(Units)
  BY SignFacts DEF TypeOK
<1>2. rawTx \o c \in Seq(Units) /\ Len(rawTx \o c) = Len(rawTx) + Len(c)
  BY <1>1, ConcatProperties
<1>3. QED BY <1>2 DEF Fits

-----------------------------------------------------------------------------

\* The variables keep their types, and the bytes received stay in raw_tx:
\* TypeOK of SignFlow.
LEMMA InitTyped == Init => TypeOK
BY SignFacts, AnswersTyped, NoSessionTyped DEF Init, TypeOK, ReqTypes

LEMMA HostTyped == ASSUME TypeOK, Host PROVE TypeOK'
<1> USE SignFacts, AnswersTyped DEF Answers, Errors, NewContext, context, ui
<1>1. reply' \in Replies /\ owed' \in Int
  <2>1. \E answer \in Replies : Take(answer)
    BY DEF Host, Refuse, Stateless, NoteCommand, GetPublicKey, SignStart, SignBadState,
           SignTooLong, SignMore, SignLastUnparsed, SignLastFails, SignLast, Reply
  <2>2. QED BY <2>1, CountTyped
<1>2. CASE Refuse \/ Stateless \/ SignBadState
  BY <1>1, <1>2 DEF Refuse, Stateless, SignBadState, TypeOK
<1>3. ASSUME NEW t \in {"addAddress", "getNote", "putNote"}, NoteCommand(t) PROVE TypeOK'
  BY <1>1, <1>3, NoSessionTyped DEF NoteCommand, TypeOK, ReqTypes
<1>4. ASSUME NEW p \in AnyPath, GetPublicKey(p) PROVE TypeOK'
  BY <1>1, <1>4, NoSessionTyped DEF GetPublicKey, TypeOK, ReqTypes, Reviews
<1>5. ASSUME NEW p \in AnyPath, SignStart(p) PROVE TypeOK'
  <2>1. session' \in Sessions
    BY <1>5, StartTyped DEF SignStart
  <2>2. QED BY <1>1, <1>5, <2>1 DEF SignStart, TypeOK, ReqTypes
<1>6. ASSUME NEW c \in Chunks, SignTooLong(c) PROVE TypeOK'
  BY <1>1, <1>6 DEF SignTooLong, TypeOK
<1>7. ASSUME NEW c \in Chunks, SignMore(c) PROVE TypeOK'
  BY <1>1, <1>7, ChunkAdded, ReceivedAdds DEF SignMore, TypeOK
<1>8. ASSUME NEW c \in Chunks, SignLastUnparsed(c) PROVE TypeOK'
  BY <1>1, <1>8, ChunkAdded, ReceivedAdds DEF SignLastUnparsed, TypeOK
<1>9. ASSUME NEW c \in Chunks, SignLastFails(c) PROVE TypeOK'
  BY <1>1, <1>9, ChunkAdded, ReceivedAdds DEF SignLastFails, TypeOK
<1>10. ASSUME NEW c \in Chunks, SignLast(c) PROVE TypeOK'
  BY <1>1, <1>10, ChunkAdded, ReceivedAdds DEF SignLast, TypeOK, Reviews
<1>11. QED
  BY <1>2, <1>3, <1>4, <1>5, <1>6, <1>7, <1>8, <1>9, <1>10 DEF Host

LEMMA UserTyped == ASSUME TypeOK, User PROVE TypeOK'
<1> USE DEF Touch, Conclude, context
<1>1. reply' \in Replies /\ owed' \in Int
  <2>1. Signature(path, hash) \in Replies
    BY AnswersTyped DEF TypeOK
  <2>2. \E answer \in Replies : Touched(answer)
    BY <2>1, AnswersTyped
       DEF User, NextPage, VerifyAddress, CancelAddress, HoldToSign, HoldToSignFails,
           AskRejection, BackToTransaction, RejectTransaction, StatusShown, OpenPasscode,
           LeavePasscode, Answers, Errors
  <2>3. QED BY <2>2, CountTyped
<1>2. CASE NextPage
  BY <1>1, <1>2 DEF NextPage, TypeOK, Reviews
<1>3. CASE VerifyAddress \/ CancelAddress
  BY <1>1, <1>3 DEF VerifyAddress, CancelAddress, TypeOK, Statuses
<1>4. CASE HoldToSign \/ HoldToSignFails \/ RejectTransaction
  BY <1>1, <1>4, EndSessionKeeps
     DEF HoldToSign, HoldToSignFails, RejectTransaction, TypeOK, Statuses
<1>5. CASE AskRejection \/ BackToTransaction
  BY <1>1, <1>5 DEF AskRejection, BackToTransaction, TypeOK
<1>6. CASE StatusShown
  BY <1>1, <1>6 DEF StatusShown, TypeOK
<1>7. CASE OpenPasscode \/ LeavePasscode
  BY <1>1, <1>7 DEF OpenPasscode, LeavePasscode, TypeOK
<1>8. QED BY <1>2, <1>3, <1>4, <1>5, <1>6, <1>7 DEF User

LEMMA RestartTyped == ASSUME TypeOK, Restart PROVE TypeOK'
BY SignFacts, AnswersTyped, NoSessionTyped
   DEF Restart, NewContext, TypeOK, ReqTypes, Answers

\* The context, the page and the answer are of their types, and the bytes received
\* never pass the buffer of the transaction, however many chunks come.
THEOREM TypeCorrect == Spec => []TypeOK
<1>1. TypeOK /\ [Next]_vars => TypeOK'
  <2> SUFFICES ASSUME TypeOK, [Next]_vars PROVE TypeOK'
    OBVIOUS
  <2>1. CASE Restart
    BY <2>1, RestartTyped
  <2>2. CASE UNCHANGED vars
    BY <2>2 DEF vars, context, ui, TypeOK
  <2>3. QED BY <2>1, <2>2, HostTyped, UserTyped DEF Next
<1>2. QED BY <1>1, InitTyped, PTL DEF Spec

-----------------------------------------------------------------------------

\* A command waits alone: with the types, what the proofs about the reviews and
\* the answers rest on.
OneWaits == TypeOK /\ owed \in {0, 1} /\ ReviewIsOfContext

LEMMA HostReviews ==
    ASSUME OneWaits, Host
    PROVE  owed' \in {0, 1} /\ ReviewIsOfContext'
<1> USE DEF OneWaits, ReviewIsOfContext, Reviews, NewContext, context, ui
<1>1. ~pending /\ owed = 0 /\ screen \notin Reviews /\ ~asking
  <2>1. \E answer : Take(answer)
    BY DEF Host, Refuse, Stateless, NoteCommand, GetPublicKey, SignStart, SignBadState,
           SignTooLong, SignMore, SignLastUnparsed, SignLastFails, SignLast, Reply
  <2>2. ~pending
    BY <2>1 DEF Take
  <2>3. owed = 0
    BY <2>2 DEF pending
  <2>4. QED BY <2>2, <2>3
<1>2. ASSUME NEW answer, Take(answer)
      PROVE  owed' \in {0, 1} /\ (answer = Silence => pending')
  BY <1>1, <1>2 DEF Take, Sent, pending
<1>3. CASE Refuse \/ Stateless \/ SignBadState
  <2>1. \E sw : Take(Answer(sw))
    BY <1>3 DEF Refuse, Stateless, SignBadState, Reply
  <2>2. UNCHANGED <<context, screen, asking>>
    BY <1>3 DEF Refuse, Stateless, SignBadState
  <2>3. QED BY <1>1, <1>2, <2>1, <2>2
<1>4. ASSUME NEW t \in {"addAddress", "getNote", "putNote"}, NoteCommand(t)
      PROVE  owed' \in {0, 1} /\ ReviewIsOfContext'
  <2>1. (\E sw : Take(Answer(sw))) /\ screen' \in {"other", screen} /\ UNCHANGED asking
    BY <1>4 DEF NoteCommand, Reply
  <2>2. QED BY <1>1, <1>2, <2>1
<1>5. ASSUME NEW p \in AnyPath, GetPublicKey(p)
      PROVE  owed' \in {0, 1} /\ ReviewIsOfContext'
  <2>1. CASE UNCHANGED ui
    <3>1. \E answer : Take(answer)
      BY <1>5 DEF GetPublicKey, Reply
    <3>2. QED BY <1>1, <1>2, <2>1, <3>1
  <2>2. CASE Take(Silence) /\ p # Torn /\ screen' = "startAddress" /\ UNCHANGED asking
    <3>1. reqType' = "address" /\ state' = "none" /\ path' = p
      BY <1>5 DEF GetPublicKey
    <3>2. QED BY <1>1, <1>2, <2>2, <3>1
  <2>3. QED BY <1>5, <2>1, <2>2 DEF GetPublicKey
<1>6. ASSUME NEW p \in AnyPath, SignStart(p)
      PROVE  owed' \in {0, 1} /\ ReviewIsOfContext'
  <2>1. (\E answer : Take(answer)) /\ UNCHANGED <<screen, asking>>
    BY <1>6 DEF SignStart, Reply
  <2>2. QED BY <1>1, <1>2, <2>1
<1>7. ASSUME NEW c \in Chunks,
             SignTooLong(c) \/ SignMore(c) \/ SignLastUnparsed(c) \/ SignLastFails(c)
      PROVE  owed' \in {0, 1} /\ ReviewIsOfContext'
  <2>1. (\E answer : Take(answer)) /\ UNCHANGED <<screen, asking>>
    BY <1>7 DEF SignTooLong, SignMore, SignLastUnparsed, SignLastFails, Reply
  <2>2. QED BY <1>1, <1>2, <2>1
<1>8. ASSUME NEW c \in Chunks, SignLast(c)
      PROVE  owed' \in {0, 1} /\ ReviewIsOfContext'
  <2>1. /\ Take(Silence)
        /\ screen' = "startTx" /\ ~asking'
        /\ reqType' = "transaction" /\ state' = "parsed"
        /\ rawTx' \in Transactions /\ hash' = rawTx' /\ shown' = rawTx'
    BY <1>8 DEF SignLast, Fits
  <2>2. QED BY <1>2, <2>1
<1>9. QED BY <1>3, <1>4, <1>5, <1>6, <1>7, <1>8 DEF Host

LEMMA UserReviews ==
    ASSUME OneWaits, User
    PROVE  owed' \in {0, 1} /\ ReviewIsOfContext'
<1> USE DEF OneWaits, ReviewIsOfContext, Reviews, Statuses, Touch, context, pending
<1>1. ASSUME Touched(Silence) PROVE owed' = owed
  BY <1>1, OneIsSent DEF Touched, TypeOK
<1>2. CASE NextPage
  BY <1>1, <1>2 DEF NextPage
<1>3. CASE AskRejection \/ BackToTransaction
  BY <1>1, <1>3 DEF AskRejection, BackToTransaction
<1>4. CASE StatusShown \/ OpenPasscode \/ LeavePasscode
  <2>1. owed' = owed /\ screen' = "other" /\ asking' = asking /\ ~asking
    BY <1>1, <1>4 DEF StatusShown, OpenPasscode, LeavePasscode
  <2>2. QED BY <2>1
<1>5. CASE VerifyAddress \/ CancelAddress \/ HoldToSign \/ HoldToSignFails
           \/ RejectTransaction
  <2>1. screen \in Reviews /\ owed = 1
    BY <1>5 DEF VerifyAddress, CancelAddress, HoldToSign, HoldToSignFails,
                RejectTransaction
  <2>2. \E answer : /\ Conclude(answer, screen') /\ screen' \in Statuses
                    /\ Sent(answer) = 1
    BY <1>5, OneIsSent DEF VerifyAddress, CancelAddress, HoldToSign, HoldToSignFails,
                RejectTransaction, Conclude, Answers, Errors
  <2>3. QED BY <2>1, <2>2 DEF Conclude, Touched
<1>6. QED BY <1>2, <1>3, <1>4, <1>5 DEF User

\* There is a command to answer, or none: the number of commands taken and not
\* answered (owed) never passes one, and no answer comes without a command.
THEOREM WaitingCorrect == Spec => []OneWaits
<1>1. Init => owed \in {0, 1} /\ ReviewIsOfContext
  BY DEF Init, ReviewIsOfContext, Reviews
<1>2. ASSUME OneWaits, [Next]_vars
      PROVE  owed' \in {0, 1} /\ ReviewIsOfContext'
  <2>1. CASE Restart
    BY <2>1 DEF Restart, ReviewIsOfContext, Reviews
  <2>2. CASE UNCHANGED vars
    BY <1>2, <2>2 DEF vars, context, ui, OneWaits, ReviewIsOfContext, pending
  <2>3. QED BY <1>2, <2>1, <2>2, HostReviews, UserReviews DEF Next
<1>3. Spec => [](owed \in {0, 1} /\ ReviewIsOfContext)
  <2>1. TypeOK /\ (owed \in {0, 1} /\ ReviewIsOfContext) /\ [Next]_vars
           => (owed \in {0, 1} /\ ReviewIsOfContext)'
    BY <1>2 DEF OneWaits
  <2>2. QED BY <1>1, <2>1, TypeCorrect, PTL DEF Spec
<1>4. TypeOK /\ (owed \in {0, 1} /\ ReviewIsOfContext) => OneWaits
  BY DEF OneWaits
<1>5. QED BY <1>3, <1>4, TypeCorrect, PTL

\* The review on screen is of the request in the context and its command waits,
\* whatever commands came before and whatever page covered it: ReviewIsOfContext.
THEOREM ReviewCorrect == Spec => []ReviewIsOfContext
<1>1. OneWaits => ReviewIsOfContext
  BY DEF OneWaits
<1>2. QED BY <1>1, WaitingCorrect, PTL

-----------------------------------------------------------------------------

\* What a signature rests on: while the request is a transaction, the context
\* has the path of the last start command and the chunks accepted since.  No
\* other command leaves the request a transaction with other bytes.
ContextIsTheSession ==
    reqType = "transaction" => path = session.path /\ rawTx = session.chunks

LEMMA HostKeepsSession ==
    ASSUME TypeOK, ContextIsTheSession, Host
    PROVE  ContextIsTheSession'
<1> USE DEF ContextIsTheSession, NewContext, context
<1>1. CASE Refuse \/ Stateless \/ SignBadState
  BY <1>1 DEF Refuse, Stateless, SignBadState
<1>2. ASSUME NEW t \in {"addAddress", "getNote", "putNote"}, NoteCommand(t)
      PROVE  ContextIsTheSession'
  BY <1>2 DEF NoteCommand
<1>3. ASSUME NEW p \in AnyPath, GetPublicKey(p) PROVE ContextIsTheSession'
  BY <1>3 DEF GetPublicKey
<1>4. ASSUME NEW p \in AnyPath, SignStart(p) PROVE ContextIsTheSession'
  BY <1>4 DEF SignStart
<1>5. ASSUME NEW c \in Chunks, SignTooLong(c) PROVE ContextIsTheSession'
  BY <1>5 DEF SignTooLong
<1>6. ASSUME NEW c \in Chunks,
             SignMore(c) \/ SignLastUnparsed(c) \/ SignLastFails(c) \/ SignLast(c)
      PROVE  ContextIsTheSession'
  <2>1. /\ reqType = "transaction" /\ rawTx' = rawTx \o c /\ path' = path
        /\ \E end \in BOOLEAN : Received(c, end)
    BY <1>6 DEF SignMore, SignLastUnparsed, SignLastFails, SignLast, Fits
  <2>2. session'.chunks = session.chunks \o c /\ session'.path = session.path
    BY <2>1, ReceivedAdds
  <2>3. QED BY <2>1, <2>2
<1>7. QED BY <1>1, <1>2, <1>3, <1>4, <1>5, <1>6 DEF Host

LEMMA UserKeepsSession ==
    ASSUME TypeOK, ContextIsTheSession, User
    PROVE  ContextIsTheSession'
<1> USE DEF ContextIsTheSession, context
<1>1. CASE NextPage \/ VerifyAddress \/ CancelAddress \/ AskRejection
           \/ BackToTransaction \/ StatusShown \/ OpenPasscode \/ LeavePasscode
  BY <1>1 DEF NextPage, VerifyAddress, CancelAddress, AskRejection, BackToTransaction,
              StatusShown, OpenPasscode, LeavePasscode
<1>2. CASE HoldToSign \/ HoldToSignFails \/ RejectTransaction
  BY <1>2, EndSessionKeeps DEF HoldToSign, HoldToSignFails, RejectTransaction
<1>3. QED BY <1>1, <1>2 DEF User

LEMMA SessionCorrect == Spec => []ContextIsTheSession
<1>1. Init => ContextIsTheSession
  BY DEF Init, ContextIsTheSession
<1>2. TypeOK /\ ContextIsTheSession /\ [Next]_vars => ContextIsTheSession'
  <2> SUFFICES ASSUME TypeOK, ContextIsTheSession, [Next]_vars
               PROVE  ContextIsTheSession'
    OBVIOUS
  <2>1. CASE Restart
    BY <2>1 DEF Restart, NewContext, ContextIsTheSession
  <2>2. CASE UNCHANGED vars
    BY <2>2 DEF vars, context, ContextIsTheSession
  <2>3. QED BY <2>1, <2>2, HostKeepsSession, UserKeepsSession DEF Next
<1>3. QED BY <1>1, <1>2, TypeCorrect, PTL DEF Spec

\* Only the hold that ends the review of a transaction answers a signature.
LEMMA OnlyHoldSigns == ASSUME Next, reply'.sw = "signature" PROVE HoldToSign
<1> USE AnswersTyped DEF Answers, Errors
<1>1. CASE Host
  <2>1. \E sw \in Answers : reply' = Answer(sw)
    BY <1>1 DEF Host, Refuse, Stateless, NoteCommand, GetPublicKey, SignStart,
                SignBadState, SignTooLong, SignMore, SignLastUnparsed, SignLastFails,
                SignLast, Reply, Take, Silence
  <2>2. QED BY <2>1
<1>2. CASE User
  <2>1. HoldToSign \/ \E sw \in Answers : reply' = Answer(sw)
    BY <1>2 DEF User, NextPage, VerifyAddress, CancelAddress, HoldToSignFails,
                AskRejection, BackToTransaction, RejectTransaction, StatusShown,
                OpenPasscode, LeavePasscode, Conclude, Touched, Silence
  <2>2. QED BY <2>1
<1>3. CASE Restart
  BY <1>3 DEF Restart
<1>4. QED BY <1>1, <1>2, <1>3 DEF Next

\* A signature is of all the chunks of the session, with its path, and the review
\* the user held was made from them: SignedIsTheSession of SignFlow.
THEOREM SignaturesCorrect == Spec => SignedIsTheSession
<1> DEFINE SignsTheSession ==
        reply'.sw = "signature" =>
            /\ reply'.signed = [path |-> session.path, tx |-> session.chunks]
            /\ screen = "reviewTx" /\ shown = session.chunks
<1>1. ASSUME ReviewIsOfContext, ContextIsTheSession, [Next]_vars
      PROVE  [SignsTheSession]_vars
  <2> SUFFICES ASSUME Next, reply'.sw = "signature" PROVE SignsTheSession
    BY <1>1
  <2>1. HoldToSign
    BY OnlyHoldSigns
  <2>2. /\ screen = "reviewTx" /\ reqType = "transaction"
        /\ hash = rawTx /\ shown = rawTx
    BY <1>1, <2>1 DEF HoldToSign, Touch, ReviewIsOfContext
  <2>3. path = session.path /\ rawTx = session.chunks
    BY <1>1, <2>2 DEF ContextIsTheSession
  <2>4. reply' = Signature(path, hash)
    BY <2>1 DEF HoldToSign, Conclude, Touched
  <2>5. QED BY <2>2, <2>3, <2>4 DEF Signature
<1>2. QED BY <1>1, ReviewCorrect, SessionCorrect, PTL DEF Spec, SignedIsTheSession

-----------------------------------------------------------------------------

\* There are never more answers than commands, and the one that waits is answered
\* by its review: OneAnswerEach of SignFlow.
THEOREM AnswersCorrect == Spec => OneAnswerEach
<1> DEFINE OneAnswer ==
        /\ owed' \in {0, 1}
        /\ owed' < owed /\ reply'.sw # "lost" =>
              /\ screen \in Reviews /\ ~covered
              /\ reqType \in DOMAIN MayAnswer /\ reply'.sw \in MayAnswer[reqType]
        /\ screen \in Reviews /\ screen' \notin Reviews /\ ~covered => reply'.sw # "none"
<1>1. ASSUME OneWaits, Next PROVE OneAnswer
  <2> USE AnswersTyped DEF OneWaits, ReviewIsOfContext, Answers, Errors
  <2>1. CASE Host
    <3>1. ~pending /\ owed' \in {0, 1}
      BY <1>1, <2>1, HostReviews
         DEF Host, Refuse, Stateless, NoteCommand, GetPublicKey, SignStart,
             SignBadState, SignTooLong, SignMore, SignLastUnparsed, SignLastFails,
             SignLast, Reply, Take
    <3>2. owed = 0 /\ screen \notin Reviews
      BY <1>1, <3>1 DEF pending
    <3>3. QED BY <3>1, <3>2
  <2>2. CASE User
    <3>1. owed' \in {0, 1}
      BY <1>1, <2>2, HostReviews, UserReviews
    <3>2. CASE NextPage \/ AskRejection \/ BackToTransaction \/ StatusShown
               \/ OpenPasscode \/ LeavePasscode
      <4>1. owed' = owed
        BY <1>1, <3>2, OneIsSent
           DEF NextPage, AskRejection, BackToTransaction, StatusShown, OpenPasscode,
               LeavePasscode, Touched, TypeOK
      <4>2. screen' \in Reviews \/ screen \notin Reviews \/ covered
        BY <3>2 DEF NextPage, AskRejection, BackToTransaction, StatusShown, OpenPasscode,
                    LeavePasscode, Touch, Reviews, Statuses
      <4>3. QED BY <1>1, <3>1, <4>1, <4>2 
    <3>3. CASE VerifyAddress \/ CancelAddress
      BY <1>1, <3>1, <3>3
         DEF VerifyAddress, CancelAddress, Conclude, Touched, Touch, Reviews, MayAnswer
    <3>4. CASE HoldToSign \/ HoldToSignFails
      <4>1. reply'.sw \in {"signature", "signatureFail"}
        BY <1>1, <3>4 DEF HoldToSign, HoldToSignFails, Conclude, Touched, Signature
      <4>2. screen = "reviewTx" /\ ~covered /\ reqType = "transaction"
        BY <1>1, <3>4 DEF HoldToSign, HoldToSignFails, Touch
      <4>3. QED BY <3>1, <4>1, <4>2 DEF Reviews, MayAnswer
    <3>5. CASE RejectTransaction
      BY <1>1, <3>1, <3>5 DEF RejectTransaction, Conclude, Touched, Reviews, MayAnswer
    <3>6. QED BY <2>2, <3>2, <3>3, <3>4, <3>5 DEF User
  <2>3. CASE Restart
    BY <2>3 DEF Restart
  <2>4. QED BY <1>1, <2>1, <2>2, <2>3 DEF Next
<1>2. OneWaits /\ [Next]_vars => [OneAnswer]_vars
  BY <1>1
<1>3. QED BY <1>2, WaitingCorrect, PTL DEF Spec, OneAnswerEach

-----------------------------------------------------------------------------
(* SharedBuffer.                                                           *)

LEMMA LeastOf ==
    ASSUME NEW S \in SUBSET Nat, S # {}
    PROVE  \E m \in S : \A k \in S : m <= k
<1> DEFINE R == OpToRel(<, Nat)
<1>1. \A x, y \in Nat : x < y => <<x, y>> \in R
  BY DEF OpToRel
<1>2. IsWellFoundedOn(R, Nat)
  BY NatLessThanWellFounded
<1> HIDE DEF R
<1>3. PICK m \in S : \A k \in S : ~ (<<k, m>> \in R)
  BY <1>2, WFMin
<1>4. \A k \in S : ~ (k < m)
  BY <1>1, <1>3
<1>5. QED BY <1>4

Sizes == ByteMod \in Nat \ {0} /\ BufferSize \in Nat /\ ByteMod <= BufferSize

\* What the proofs need to know of the constant parts.
LEMMA SizeFacts ==
    /\ Sizes
    /\ 0 \in Bytes /\ 0 \in Cells /\ 0 \notin Letters
    /\ \A b \in Letters : b \in Bytes
    /\ \A b \in Bytes : b \in Nat
    /\ \A n \in Notes : n.title \in Seq(Letters) /\ n.content \in Seq(Letters)
BY SharedBufferAssumption DEF Sizes, Bytes, Cells, Text

\* What is left of a length in a byte.
LEMMA InAByte ==
    ASSUME Sizes, NEW l \in Nat
    PROVE  /\ l % ByteMod \in 0 .. ByteMod - 1 /\ l % ByteMod \in 0 .. l
           /\ l < ByteMod => l % ByteMod = l
BY SMT DEF Sizes

-----------------------------------------------------------------------------
(* Strings of a memory.                                                    *)

\* The string of the memory m from a on has its terminator at e.
EndsAt(m, a, e) == m[e] = 0 /\ \A c \in a .. e - 1 : m[c] # 0

EndIn(m, a) == CHOOSE e \in a .. BufferSize :
    /\ e = BufferSize \/ m[e] = 0
    /\ \A c \in a .. e - 1 : m[c] # 0

StringIn(m, a) == [k \in 1 .. EndIn(m, a) - a |-> m[a + k - 1]]

LEMMA StringsOfMem == \A a : EndOf(a) = EndIn(mem, a) /\ StringAt(a) = StringIn(mem, a)
BY DEF EndOf, StringAt, EndIn, StringIn

\* Every string has an end, at the latest that of the buffer.
LEMMA EndInTyped ==
    ASSUME Sizes, NEW m, NEW a \in 0 .. BufferSize
    PROVE  /\ EndIn(m, a) \in a .. BufferSize
           /\ EndIn(m, a) = BufferSize \/ m[EndIn(m, a)] = 0
           /\ \A c \in a .. EndIn(m, a) - 1 : m[c] # 0
<1> DEFINE S == {e \in a .. BufferSize : e = BufferSize \/ m[e] = 0}
<1>1. S \in SUBSET Nat /\ BufferSize \in S
  BY DEF Sizes
<1>2. PICK e \in S : \A k \in S : e <= k
  BY <1>1, LeastOf
<1>3. \A c \in a .. e - 1 : m[c] # 0
  BY <1>1, <1>2 DEF Sizes
<1>4. QED BY <1>2, <1>3 DEF EndIn

\* It has only one.
LEMMA EndInIs ==
    ASSUME Sizes, NEW m, NEW a \in 0 .. BufferSize, NEW e \in a .. BufferSize - 1, EndsAt(m, a, e)
    PROVE  EndIn(m, a) = e /\ StringIn(m, a) = [k \in 1 .. e - a |-> m[a + k - 1]]
<1>1. EndIn(m, a) \in Nat /\ e \in Nat
  BY EndInTyped DEF Sizes
<1>2. ~ (EndIn(m, a) < e)
  BY EndInTyped, <1>1 DEF EndsAt, Sizes
<1>3. ~ (e < EndIn(m, a))
  BY EndInTyped, <1>1 DEF EndsAt, Sizes
<1>4. EndIn(m, a) = e
  BY <1>1, <1>2, <1>3
<1>5. QED BY <1>4 DEF StringIn

\* A string ends inside the buffer when a terminator stands somewhere after its start.
LEMMA EndsInside ==
    ASSUME Sizes, NEW m, NEW a \in Cells, NEW z \in Cells, a <= z, m[z] = 0
    PROVE  EndIn(m, a) < BufferSize
BY EndInTyped DEF Sizes, Cells

LEMMA StringTyped ==
    ASSUME Sizes, NEW m \in [Cells -> Bytes], NEW a \in Cells
    PROVE  StringIn(m, a) \in Seq(Bytes)
<1>1. EndIn(m, a) \in a .. BufferSize
  BY EndInTyped DEF Sizes, Cells
<1>2. EndIn(m, a) - a \in Nat
  BY <1>1 DEF Sizes, Cells
<1>3. \A k \in 1 .. EndIn(m, a) - a : a + k - 1 \in Cells
  BY <1>1 DEF Sizes, Cells
<1>4. QED BY <1>2, <1>3 DEF StringIn

\* What a write leaves in each cell.
LEMMA WrittenTyped ==
    ASSUME Sizes, NEW m \in [Cells -> Bytes], NEW a \in Nat, NEW b \in Seq(Bytes)
    PROVE  /\ Written(m, a, b) \in [Cells -> Bytes]
           /\ \A c \in Cells : c \in a .. a + Len(b) - 1 => Written(m, a, b)[c] = b[c - a + 1]
           /\ \A c \in Cells : c \notin a .. a + Len(b) - 1 => Written(m, a, b)[c] = m[c]
BY DEF Written, Sizes, Cells

-----------------------------------------------------------------------------
(* Packets.                                                                *)

TitleLength(n) == Len(n.title) % ByteMod
ContentLength(n) == Len(n.content) % ByteMod

\* What a concatenation is, part by part.
LEMMA ConcatBytes ==
    ASSUME NEW s \in Seq(Bytes), NEW u \in Seq(Bytes)
    PROVE  /\ s \o u \in Seq(Bytes) /\ Len(s \o u) = Len(s) + Len(u)
           /\ \A k \in 1 .. Len(s) : (s \o u)[k] = s[k]
           /\ \A k \in 1 .. Len(u) : (s \o u)[Len(s) + k] = u[k]
<1>0. Len(s) \in Nat /\ Len(u) \in Nat
  OBVIOUS
<1> DEFINE r == s \o u
<1>1. /\ r \in Seq(Bytes) /\ Len(r) = Len(s) + Len(u)
      /\ \A i \in 1 .. Len(s) + Len(u) : r[i] = IF i <= Len(s) THEN s[i] ELSE u[i - Len(s)]
  BY ConcatProperties
<1> HIDE DEF r
<1>2. \A k \in 1 .. Len(s) : k \in 1 .. Len(s) + Len(u) /\ k <= Len(s)
  BY <1>0
<1>3. \A k \in 1 .. Len(u) : /\ Len(s) + k \in 1 .. Len(s) + Len(u)
                              /\ ~ (Len(s) + k <= Len(s)) /\ (Len(s) + k) - Len(s) = k
  BY <1>0
<1>4. (\A k \in 1 .. Len(s) : r[k] = s[k]) /\ (\A k \in 1 .. Len(u) : r[Len(s) + k] = u[k])
  BY <1>1, <1>2, <1>3
<1>5. QED BY <1>1, <1>4 DEF r

\* Where each part of a note is in its packet.
LEMMA PackedBytes ==
    ASSUME NEW n \in Notes
    PROVE  /\ Packed(n) \in Seq(Bytes)
           /\ Len(Packed(n)) = TitleLength(n) + ContentLength(n) + 2
           /\ Packed(n)[1] = TitleLength(n)
           /\ \A k \in 1 .. TitleLength(n) : Packed(n)[k + 1] = n.title[k]
           /\ Packed(n)[TitleLength(n) + 2] = ContentLength(n)
           /\ \A k \in 1 .. ContentLength(n) :
                 Packed(n)[TitleLength(n) + 2 + k] = n.content[k]
<1> DEFINE t == TitleLength(n)
           c == ContentLength(n)
           T == SubSeq(n.title, 1, t)
           C == SubSeq(n.content, 1, c)
           H == <<t>>
           M == <<c>>
<1>1. /\ n.title \in Seq(Bytes) /\ n.content \in Seq(Bytes)
      /\ Len(n.title) \in Nat /\ Len(n.content) \in Nat
  BY SizeFacts
<1>2. t \in 0 .. Len(n.title) /\ c \in 0 .. Len(n.content) /\ t \in Bytes /\ c \in Bytes
  <2>1. Sizes /\ Len(n.title) \in Nat /\ Len(n.content) \in Nat
    BY <1>1, SizeFacts
  <2>2. t \in 0 .. Len(n.title) /\ t \in Bytes
    BY <2>1, InAByte DEF TitleLength, Bytes
  <2>3. c \in 0 .. Len(n.content) /\ c \in Bytes
    BY <2>1, InAByte DEF ContentLength, Bytes
  <2>4. QED BY <2>2, <2>3
<1>0. t \in Nat /\ c \in Nat
  BY <1>1, <1>2
<1> HIDE DEF t, c
<1>3. T \in Seq(Bytes) /\ Len(T) = t /\ \A k \in 1 .. t : T[k] = n.title[k]
  BY <1>1, <1>2
<1>4. C \in Seq(Bytes) /\ Len(C) = c /\ \A k \in 1 .. c : C[k] = n.content[k]
  BY <1>1, <1>2
<1>5. Packed(n) = ((H \o T) \o M) \o C
  BY DEF Packed, t, c, TitleLength, ContentLength
<1>6. H \in Seq(Bytes) /\ Len(H) = 1 /\ H[1] = t /\ M \in Seq(Bytes) /\ Len(M) = 1 /\ M[1] = c
  BY <1>2
<1> DEFINE A == H \o T
           B == A \o M
<1> HIDE DEF T, C, H, M
<1>7. A \in Seq(Bytes) /\ Len(A) = t + 1 /\ A[1] = t /\ \A k \in 1 .. t : A[k + 1] = n.title[k]
  <2>1. /\ A \in Seq(Bytes) /\ Len(A) = Len(H) + Len(T)
        /\ \A k \in 1 .. Len(H) : A[k] = H[k]
        /\ \A k \in 1 .. Len(T) : A[Len(H) + k] = T[k]
    BY <1>3, <1>6, ConcatBytes
  <2> HIDE DEF A
  <2>2. QED BY <1>0, <1>3, <1>6, <2>1
<1> HIDE DEF A
<1>8. /\ B \in Seq(Bytes) /\ Len(B) = t + 2 /\ B[1] = t
      /\ \A k \in 1 .. t : B[k + 1] = n.title[k]
      /\ B[t + 2] = c
  <2>1. /\ B \in Seq(Bytes) /\ Len(B) = Len(A) + Len(M)
        /\ \A k \in 1 .. Len(A) : B[k] = A[k]
        /\ \A k \in 1 .. Len(M) : B[Len(A) + k] = M[k]
    BY <1>6, <1>7, ConcatBytes
  <2> HIDE DEF B
  <2>2. 1 \in 1 .. t + 1 /\ \A k \in 1 .. t : k + 1 \in 1 .. t + 1
    BY <1>0
  <2>3. (t + 1) + 1 = t + 2
    BY <1>0
  <2>4. QED BY <1>6, <1>7, <2>1, <2>2, <2>3
<1> HIDE DEF B
<1>9. /\ B \o C \in Seq(Bytes) /\ Len(B \o C) = t + c + 2 /\ (B \o C)[1] = t
      /\ \A k \in 1 .. t : (B \o C)[k + 1] = n.title[k]
      /\ (B \o C)[t + 2] = c
      /\ \A k \in 1 .. c : (B \o C)[t + 2 + k] = n.content[k]
  <2> DEFINE P == B \o C
  <2>1. /\ P \in Seq(Bytes) /\ Len(P) = Len(B) + Len(C)
        /\ \A k \in 1 .. Len(B) : P[k] = B[k]
        /\ \A k \in 1 .. Len(C) : P[Len(B) + k] = C[k]
    BY <1>4, <1>8, ConcatBytes
  <2> HIDE DEF P
  <2>2. 1 \in 1 .. t + 2 /\ t + 2 \in 1 .. t + 2 /\ \A k \in 1 .. t : k + 1 \in 1 .. t + 2
    BY <1>0
  <2>3. (t + 2) + c = t + c + 2
    BY <1>0
  <2>4. P \in Seq(Bytes) /\ Len(P) = t + c + 2 /\ P[1] = t /\ P[t + 2] = c
    BY <1>4, <1>8, <2>1, <2>2, <2>3
  <2>5. \A k \in 1 .. t : P[k + 1] = n.title[k]
    BY <1>8, <2>1, <2>2
  <2>6. \A k \in 1 .. c : P[t + 2 + k] = n.content[k]
    BY <1>4, <1>8, <2>1
  <2>7. QED BY <2>4, <2>5, <2>6 DEF P
<1>10. Packed(n) = B \o C
  BY <1>5 DEF A, B
<1>11. QED BY <1>9, <1>10 DEF t, c

\* They make a packet to its last byte: IsPacketOf of SharedBuffer.
LEMMA PackedIsPacket == ASSUME NEW n \in Notes PROVE IsPacketOf(Packed(n), n)
<1> DEFINE b == Packed(n)
           t == TitleLength(n)
           c == ContentLength(n)
<1>1. /\ b \in Seq(Bytes) /\ Len(b) = t + c + 2 /\ b[1] = t /\ b[t + 2] = c
      /\ \A k \in 1 .. t : b[k + 1] = n.title[k]
      /\ \A k \in 1 .. c : b[t + 2 + k] = n.content[k]
  BY PackedBytes
<1>2. /\ n.title \in Seq(Bytes) /\ n.content \in Seq(Bytes)
      /\ t \in 0 .. Len(n.title) /\ c \in 0 .. Len(n.content)
  <2>1. /\ n.title \in Seq(Bytes) /\ n.content \in Seq(Bytes) /\ Sizes
        /\ Len(n.title) \in Nat /\ Len(n.content) \in Nat
    BY SizeFacts
  <2>2. QED BY <2>1, InAByte DEF TitleLength, ContentLength
<1>3. t \in Nat /\ c \in Nat /\ Len(n.title) \in Nat /\ Len(n.content) \in Nat
  BY <1>2
<1> HIDE DEF b, t, c
<1>4. ContentAt(b) = t + 2
  BY <1>1 DEF ContentAt
<1>5. CanRead(b, 1) /\ CanRead(b, ContentAt(b)) /\ ContentAt(b) + b[ContentAt(b)] = Len(b)
  BY <1>1, <1>3, <1>4 DEF CanRead
<1>6. ASSUME NEW at \in 1 .. Len(b), NEW l \in Nat, b[at] = l, at + l <= Len(b),
             NEW s \in Seq(Bytes), l <= Len(s), \A k \in 1 .. l : b[at + k] = s[k]
      PROVE  IsPrefix(Field(b, at), s)
  <2> DEFINE F == SubSeq(b, at + 1, at + l)
             S == SubSeq(s, 1, l)
  <2>1. F \in Seq(Bytes) /\ Len(F) = l /\ \A k \in 1 .. l : F[k] = b[at + k]
    <3> DEFINE i == at + 1
               j == at + l
    <3>1. i \in Int /\ j \in Int /\ b \in Seq(Bytes) /\ \A k \in i .. j : k \in 1 .. Len(b)
      BY <1>1, <1>6
    <3>2. j - i + 1 = l /\ (i <= j <=> l > 0) /\ \A k \in 1 .. l : i + k - 1 = at + k
      BY <1>6
    <3>3. \A k \in i .. j : b[k] \in Bytes
      BY <3>1
    <3> HIDE DEF i, j
    <3>4. /\ SubSeq(b, i, j) \in Seq(Bytes)
          /\ Len(SubSeq(b, i, j)) = IF i <= j THEN j - i + 1 ELSE 0
          /\ \A k \in 1 .. j - i + 1 : SubSeq(b, i, j)[k] = b[i + k - 1]
      BY <3>1, <3>3, SubSeqProperties
    <3>5. QED BY <1>6, <3>2, <3>4 DEF i, j
  <2>2. S \in Seq(Bytes) /\ Len(S) = l /\ \A k \in 1 .. l : S[k] = s[k]
    BY <1>6
  <2>3. Field(b, at) = F
    BY <1>6 DEF Field
  <2> HIDE DEF F, S
  <2>4. F = S
    <3>1. \A k \in 1 .. l : F[k] = S[k]
      BY <1>6, <2>1, <2>2
    <3>2. F = [k \in 1 .. l |-> F[k]] /\ S = [k \in 1 .. l |-> S[k]]
      BY <2>1, <2>2
    <3>3. QED BY <3>1, <3>2
  <2>5. SubSeq(F, 1, Len(F)) = F
    BY <2>1
  <2>6. QED BY <1>6, <2>1, <2>3, <2>4, <2>5 DEF IsPrefix, S
<1>7. IsPrefix(Field(b, 1), n.title)
  <2>1. 1 \in 1 .. Len(b) /\ 1 + t <= Len(b) /\ t <= Len(n.title)
        /\ \A k \in 1 .. t : b[1 + k] = n.title[k]
    BY <1>1, <1>2, <1>3
  <2>2. QED BY <1>1, <1>2, <1>3, <1>6, <2>1
<1>8. IsPrefix(Field(b, ContentAt(b)), n.content)
  <2>1. t + 2 \in 1 .. Len(b) /\ (t + 2) + c <= Len(b) /\ c <= Len(n.content)
        /\ \A k \in 1 .. c : b[(t + 2) + k] = n.content[k]
    BY <1>1, <1>2, <1>3
  <2>2. QED BY <1>1, <1>2, <1>3, <1>4, <1>6, <2>1
<1>9. QED BY <1>5, <1>7, <1>8 DEF IsPacketOf, b

\* The packets received: each starts with the bytes of a note.
IsPacket(d, n) ==
    /\ d \in Seq(Bytes)
    /\ Len(d) \in 1 .. ByteMod - 1
    /\ Len(d) <= Len(Packed(n))
    /\ \A k \in 1 .. Len(d) : d[k] = Packed(n)[k]

LEMMA PrefixIsPacket ==
    ASSUME NEW n \in Notes, NEW k \in 1 .. ByteMod - 1, k <= Len(Packed(n))
    PROVE  IsPacket(SubSeq(Packed(n), 1, k), n)
<1>1. Packed(n) \in Seq(Bytes) /\ Len(Packed(n)) \in Nat /\ k \in Nat
  BY PackedBytes, SizeFacts DEF Sizes
<1>2. QED BY <1>1 DEF IsPacket

\* The first field read of a packet is the title.
LEMMA TitleRead ==
    ASSUME NEW n \in Notes, NEW d, IsPacket(d, n), CanRead(d, 1)
    PROVE  /\ d[1] = TitleLength(n) /\ d[1] \in Nat
           /\ d[1] + 1 <= Len(d) /\ d[1] < BufferSize
           /\ Field(d, 1) \in Seq(Bytes) /\ Len(Field(d, 1)) = d[1]
           /\ \A k \in 1 .. d[1] : Field(d, 1)[k] = n.title[k]
<1>1. d[1] = TitleLength(n) /\ d[1] \in Nat
  <2>1. 1 \in 1 .. Len(d) /\ d \in Seq(Bytes)
    BY SizeFacts DEF IsPacket, Sizes
  <2>2. d[1] = Packed(n)[1] /\ d[1] \in Bytes
    BY <2>1 DEF IsPacket
  <2>3. QED BY <2>2, PackedBytes, SizeFacts
<1>2. d[1] + 1 <= Len(d) /\ d[1] < BufferSize
  BY <1>1, SizeFacts DEF CanRead, IsPacket, Sizes
<1>3. /\ SubSeq(d, 2, 1 + d[1]) \in Seq(Bytes) /\ Len(SubSeq(d, 2, 1 + d[1])) = d[1]
      /\ \A k \in 1 .. d[1] : SubSeq(d, 2, 1 + d[1])[k] = d[k + 1]
  <2> DEFINE to == 1 + d[1]
  <2>1. to \in Int /\ d \in Seq(Bytes) /\ \A k \in 2 .. to : k \in 1 .. Len(d)
    BY <1>1, <1>2 DEF IsPacket
  <2>2. to - 2 + 1 = d[1] /\ (2 <= to <=> d[1] > 0) /\ \A k \in 1 .. d[1] : 2 + k - 1 = k + 1
    BY <1>1
  <2>3. \A k \in 2 .. to : d[k] \in Bytes
    BY <2>1
  <2> HIDE DEF to
  <2>4. /\ SubSeq(d, 2, to) \in Seq(Bytes)
        /\ Len(SubSeq(d, 2, to)) = IF 2 <= to THEN to - 2 + 1 ELSE 0
        /\ \A k \in 1 .. to - 2 + 1 : SubSeq(d, 2, to)[k] = d[2 + k - 1]
    BY <2>1, <2>3, SubSeqProperties
  <2>5. QED BY <1>1, <2>2, <2>4 DEF to
<1>4. \A k \in 1 .. d[1] : d[k + 1] = n.title[k]
  <2>1. TAKE k \in 1 .. d[1]
  <2>2. d[k + 1] = Packed(n)[k + 1]
    BY <1>1, <1>2 DEF IsPacket
  <2>3. k \in 1 .. TitleLength(n)
    BY <1>1
  <2>4. Packed(n)[k + 1] = n.title[k]
    BY <2>3, PackedBytes
  <2>5. QED BY <2>2, <2>4
<1>5. Field(d, 1) = SubSeq(d, 2, 1 + d[1])
  BY DEF Field
<1> DEFINE F == SubSeq(d, 2, 1 + d[1])
<1>6. F \in Seq(Bytes) /\ Len(F) = d[1] /\ \A k \in 1 .. d[1] : F[k] = d[k + 1]
  BY <1>3
<1> HIDE DEF F
<1>7. \A k \in 1 .. d[1] : F[k] = n.title[k]
  BY <1>4, <1>6
<1>8. Field(d, 1) = F
  BY <1>5 DEF F
<1>9. QED BY <1>1, <1>2, <1>6, <1>7, <1>8

\* The second one is the content, and the terminator that follows fits too.
LEMMA ContentRead ==
    ASSUME NEW n \in Notes, NEW d, IsPacket(d, n), CanRead(d, 1), CanRead(d, ContentAt(d))
    PROVE  LET c == d[ContentAt(d)]
               F == Field(d, ContentAt(d))
           IN  /\ c = ContentLength(n) /\ c \in Nat
               /\ ContentCell(d) + c < BufferSize
               /\ F \in Seq(Bytes) /\ Len(F) = c
               /\ \A k \in 1 .. c : F[k] = n.content[k]
<1> DEFINE t == d[1]
           c == d[t + 2]
           F == SubSeq(d, t + 3, t + 2 + c)
<1>1. t = TitleLength(n) /\ t \in Nat /\ t + 2 <= Len(d) /\ t + 2 + c <= Len(d)
  BY TitleRead DEF CanRead, ContentAt
<1>2. d \in Seq(Bytes) /\ Len(d) \in Nat /\ Len(d) < ByteMod
  BY SizeFacts DEF IsPacket, Sizes
<1>3. c = ContentLength(n) /\ c \in Nat
  <2>1. c = Packed(n)[t + 2] /\ c \in Bytes
    BY <1>1, <1>2 DEF IsPacket
  <2>2. QED BY <1>1, <2>1, PackedBytes, SizeFacts
<1>4. t + 1 + c < BufferSize
  BY <1>1, <1>2, <1>3, SizeFacts DEF Sizes
<1>5. F \in Seq(Bytes) /\ Len(F) = c /\ \A k \in 1 .. c : F[k] = d[t + 2 + k]
  <2> DEFINE from == t + 3
             to == t + 2 + c
  <2>1. from \in Int /\ to \in Int /\ \A k \in from .. to : k \in 1 .. Len(d)
    BY <1>1, <1>2, <1>3
  <2>2. to - from + 1 = c /\ (from <= to <=> c > 0)
    BY <1>1, <1>3
  <2>3. \A k \in 1 .. c : from + k - 1 = t + 2 + k
    BY <1>1, <1>3
  <2>4. \A k \in from .. to : d[k] \in Bytes
    BY <1>2, <2>1
  <2> HIDE DEF from, to, c
  <2>5. /\ SubSeq(d, from, to) \in Seq(Bytes)
        /\ Len(SubSeq(d, from, to)) = IF from <= to THEN to - from + 1 ELSE 0
        /\ \A k \in 1 .. to - from + 1 : SubSeq(d, from, to)[k] = d[from + k - 1]
    BY <2>1, <2>4, SubSeqProperties
  <2>6. Len(SubSeq(d, from, to)) = c
    BY <1>3, <2>2, <2>5
  <2>7. \A k \in 1 .. c : SubSeq(d, from, to)[k] = d[t + 2 + k]
    BY <2>2, <2>3, <2>5
  <2>8. QED BY <2>5, <2>6, <2>7 DEF from, to
<1>6. \A k \in 1 .. c : d[t + 2 + k] = n.content[k]
  <2>1. TAKE k \in 1 .. c
  <2>2. d[t + 2 + k] = Packed(n)[t + 2 + k]
    <3>1. t + 2 + k \in 1 .. Len(d)
      BY <1>1, <1>2, <1>3
    <3>2. QED BY <3>1 DEF IsPacket
  <2>3. k \in 1 .. ContentLength(n)
    BY <1>3
  <2>4. Packed(n)[TitleLength(n) + 2 + k] = n.content[k]
    BY <2>3, PackedBytes
  <2>5. QED BY <1>1, <2>2, <2>4
<1>7. Field(d, ContentAt(d)) = F /\ d[ContentAt(d)] = c /\ ContentCell(d) = t + 1
  <2>1. (t + 2) + 1 = t + 3
    BY <1>1
  <2>2. QED BY <2>1 DEF Field, ContentAt, ContentCell
<1> HIDE DEF t, c, F
<1>8. QED BY <1>3, <1>4, <1>5, <1>6, <1>7

-----------------------------------------------------------------------------
(* What PUT_NOTE leaves in the memory m.                                   *)

TitleIn(m, d) == Written(Written(m, 0, Field(d, 1)), d[1], <<0>>)
NoteIn(m, d) == Written(TitleIn(m, d), ContentCell(d), Field(d, ContentAt(d)) \o <<0>>)

LEMMA OneZero == <<0>> \in Seq(Bytes) /\ Len(<<0>>) = 1 /\ <<0>>[1] = 0
BY SizeFacts

\* The title and its terminator are in place, and nothing after them changes.
LEMMA TitleInBytes ==
    ASSUME NEW n \in Notes, NEW d, IsPacket(d, n), CanRead(d, 1), NEW m \in [Cells -> Bytes]
    PROVE  /\ TitleIn(m, d) \in [Cells -> Bytes]
           /\ d[1] \in Cells
           /\ \A c \in 0 .. d[1] - 1 : c \in Cells /\ TitleIn(m, d)[c] = n.title[c + 1]
           /\ TitleIn(m, d)[d[1]] = 0
           /\ \A c \in Cells : c > d[1] => TitleIn(m, d)[c] = m[c]
<1> DEFINE t == d[1]
           F == Field(d, 1)
           m1 == Written(m, 0, F)
           Z == <<0>>
           m2 == Written(m1, t, Z)
<1>0. Sizes /\ 0 \in Nat
  BY SizeFacts
<1>1. t \in Cells /\ t \in Nat /\ F \in Seq(Bytes) /\ Len(F) = t
  BY TitleRead, SizeFacts DEF Sizes, Cells
<1>2. \A k \in 1 .. t : F[k] = n.title[k]
  BY TitleRead
<1> HIDE DEF t, F
<1>3. /\ m1 \in [Cells -> Bytes]
      /\ \A c \in Cells : c \in 0 .. 0 + Len(F) - 1 => m1[c] = F[c - 0 + 1]
      /\ \A c \in Cells : c \notin 0 .. 0 + Len(F) - 1 => m1[c] = m[c]
  BY <1>0, <1>1, WrittenTyped
<1>13. Z \in Seq(Bytes) /\ Len(Z) = 1 /\ Z[1] = 0
  BY OneZero
<1> HIDE DEF m1, Z
<1>4. /\ m2 \in [Cells -> Bytes]
      /\ \A c \in Cells : c \in t .. t + Len(Z) - 1 => m2[c] = Z[c - t + 1]
      /\ \A c \in Cells : c \notin t .. t + Len(Z) - 1 => m2[c] = m1[c]
  <2>1. m1 \in [Cells -> Bytes] /\ t \in Nat /\ Z \in Seq(Bytes)
    BY <1>1, <1>3, <1>13
  <2>2. QED BY <1>0, <2>1, WrittenTyped
<1>5. \A c \in 0 .. t - 1 : /\ c \in Cells /\ c \in 0 .. 0 + t - 1 /\ c - 0 + 1 = c + 1
                            /\ c + 1 \in 1 .. t /\ c \notin t .. t + 1 - 1
  BY <1>1, SizeFacts DEF Cells, Sizes
<1>6. t \in t .. t + 1 - 1 /\ t - t + 1 = 1
  BY <1>1
<1>7. \A c \in Cells : c > t => c \notin t .. t + 1 - 1 /\ c \notin 0 .. 0 + t - 1
  BY <1>1, SizeFacts DEF Cells, Sizes
<1> HIDE DEF m2
<1>8. \A c \in 0 .. t - 1 : m2[c] = n.title[c + 1]
  BY <1>1, <1>2, <1>3, <1>4, <1>5, <1>13
<1>9. m2[t] = 0
  BY <1>1, <1>4, <1>6, <1>13
<1>10. \A c \in Cells : c > t => m2[c] = m[c]
  BY <1>1, <1>3, <1>4, <1>7, <1>13
<1>11. TitleIn(m, d) = m2
  BY DEF TitleIn, m2, m1, Z, F, t
<1>12. QED BY <1>1, <1>4, <1>5, <1>8, <1>9, <1>10, <1>11 DEF t

\* The content follows, with its own terminator, inside the buffer.
LEMMA NoteInBytes ==
    ASSUME NEW n \in Notes, NEW d, IsPacket(d, n), CanRead(d, 1), CanRead(d, ContentAt(d)),
           NEW m \in [Cells -> Bytes]
    PROVE  LET t == TitleLength(n)
               c == ContentLength(n)
           IN  /\ NoteIn(m, d) \in [Cells -> Bytes]
               /\ t \in Nat /\ c \in Nat /\ t + 1 + c < BufferSize /\ ContentCell(d) = t + 1
               /\ \A k \in 0 .. t - 1 : NoteIn(m, d)[k] = n.title[k + 1]
               /\ NoteIn(m, d)[t] = 0
               /\ \A k \in t + 1 .. t + c : NoteIn(m, d)[k] = n.content[k - t]
               /\ NoteIn(m, d)[t + 1 + c] = 0
<1> DEFINE t == TitleLength(n)
           c == ContentLength(n)
           m2 == TitleIn(m, d)
           F == Field(d, ContentAt(d))
           G == F \o <<0>>
           m3 == Written(m2, t + 1, G)
<1>1. d[1] = t /\ t \in Nat /\ ContentCell(d) = t + 1
  BY TitleRead DEF ContentCell
<1>2. c \in Nat /\ t + 1 + c < BufferSize /\ F \in Seq(Bytes) /\ Len(F) = c
      /\ \A k \in 1 .. c : F[k] = n.content[k]
  BY <1>1, ContentRead
<1>3. /\ m2 \in [Cells -> Bytes] /\ m2[t] = 0
      /\ \A k \in 0 .. t - 1 : m2[k] = n.title[k + 1]
  BY <1>1, TitleInBytes
<1> HIDE DEF t, c, m2, F
<1>4. /\ G \in Seq(Bytes) /\ Len(G) = c + 1 /\ G[c + 1] = 0
      /\ \A k \in 1 .. c : G[k] = n.content[k]
  <2>1. /\ G \in Seq(Bytes) /\ Len(G) = Len(F) + Len(<<0>>)
        /\ \A k \in 1 .. Len(F) : G[k] = F[k]
        /\ \A k \in 1 .. Len(<<0>>) : G[Len(F) + k] = <<0>>[k]
    BY <1>2, OneZero, ConcatBytes
  <2> HIDE DEF G
  <2>2. QED BY <1>2, <2>1, OneZero
<1> HIDE DEF G
<1>5. /\ m3 \in [Cells -> Bytes]
      /\ \A k \in Cells :
            k \in t + 1 .. (t + 1) + Len(G) - 1 => m3[k] = G[k - (t + 1) + 1]
      /\ \A k \in Cells : k \notin t + 1 .. (t + 1) + Len(G) - 1 => m3[k] = m2[k]
  <2>1. t + 1 \in Nat /\ Sizes
    BY <1>1, SizeFacts
  <2>2. QED BY <1>3, <1>4, <2>1, WrittenTyped
<1> HIDE DEF m3
<1>6. \A k \in 0 .. t : k \in Cells /\ k \notin t + 1 .. (t + 1) + (c + 1) - 1
  BY <1>1, <1>2, SizeFacts DEF Cells, Sizes
<1>7. \A k \in t + 1 .. t + c : /\ k \in Cells /\ k \in t + 1 .. (t + 1) + (c + 1) - 1
                                /\ k - (t + 1) + 1 = k - t /\ k - t \in 1 .. c
  BY <1>1, <1>2, SizeFacts DEF Cells, Sizes
<1>8. /\ t + 1 + c \in Cells /\ t + 1 + c \in t + 1 .. (t + 1) + (c + 1) - 1
      /\ (t + 1 + c) - (t + 1) + 1 = c + 1
  BY <1>1, <1>2, SizeFacts DEF Cells, Sizes
<1>9. m3[t] = 0 /\ \A k \in 0 .. t - 1 : m3[k] = n.title[k + 1]
  <2>1. t \in 0 .. t /\ \A k \in 0 .. t - 1 : k \in 0 .. t
    BY <1>1
  <2>2. QED BY <1>3, <1>4, <1>5, <1>6, <2>1
<1>10. \A k \in t + 1 .. t + c : m3[k] = n.content[k - t]
  BY <1>4, <1>5, <1>7
<1>11. m3[t + 1 + c] = 0
  BY <1>4, <1>5, <1>8
<1>12. NoteIn(m, d) = m3
  BY <1>1 DEF NoteIn, m3, m2, G, F
<1>13. QED BY <1>1, <1>2, <1>5, <1>9, <1>10, <1>11, <1>12 DEF t, c

\* The two strings of that memory are the note, when its lengths are bytes.
LEMMA NoteReadBack ==
    ASSUME NEW n \in Notes, NEW d, IsPacket(d, n), CanRead(d, 1), CanRead(d, ContentAt(d)),
           NEW m \in [Cells -> Bytes],
           Len(n.title) < ByteMod, Len(n.content) < ByteMod
    PROVE  /\ StringIn(NoteIn(m, d), 0) = n.title
           /\ StringIn(NoteIn(m, d), ContentCell(d)) = n.content
<1> DEFINE t == TitleLength(n)
           c == ContentLength(n)
           m3 == NoteIn(m, d)
<1>1. /\ n.title \in Seq(Letters) /\ n.content \in Seq(Letters)
      /\ Len(n.title) \in Nat /\ Len(n.content) \in Nat
      /\ \A k \in 1 .. Len(n.title) : n.title[k] # 0
      /\ \A k \in 1 .. Len(n.content) : n.content[k] # 0
  BY SizeFacts
<1>2. t = Len(n.title) /\ c = Len(n.content)
  BY <1>1, InAByte, SizeFacts DEF TitleLength, ContentLength
<1>3. /\ t \in Nat /\ c \in Nat /\ t + 1 + c < BufferSize /\ ContentCell(d) = t + 1
      /\ \A k \in 0 .. t - 1 : m3[k] = n.title[k + 1]
      /\ m3[t] = 0
      /\ \A k \in t + 1 .. t + c : m3[k] = n.content[k - t]
      /\ m3[t + 1 + c] = 0
  BY NoteInBytes
<1> HIDE DEF t, c, m3
<1>4. EndsAt(m3, 0, t)
  <2>1. \A k \in 0 .. t - 1 : k + 1 \in 1 .. t
    BY <1>3
  <2>2. QED BY <1>1, <1>2, <1>3, <2>1 DEF EndsAt
<1>5. EndsAt(m3, t + 1, t + 1 + c)
  <2>1. \A k \in t + 1 .. t + 1 + c - 1 : k \in t + 1 .. t + c /\ k - t \in 1 .. c
    BY <1>3
  <2>2. \A k \in t + 1 .. t + 1 + c - 1 : m3[k] # 0
    <3>1. TAKE k \in t + 1 .. t + 1 + c - 1
    <3>2. m3[k] = n.content[k - t]
      BY <1>3, <2>1
    <3>3. n.content[k - t] # 0
      BY <1>1, <1>2, <2>1
    <3>4. QED BY <3>2, <3>3
  <2>3. QED BY <1>3, <2>2 DEF EndsAt
<1>6. StringIn(m3, 0) = [k \in 1 .. t - 0 |-> m3[0 + k - 1]]
  <2>1. 0 \in 0 .. BufferSize /\ t \in 0 .. BufferSize - 1
    BY <1>3, SizeFacts DEF Sizes
  <2>2. QED BY <1>4, <2>1, EndInIs, SizeFacts
<1>7. StringIn(m3, t + 1) = [k \in 1 .. (t + 1 + c) - (t + 1) |-> m3[(t + 1) + k - 1]]
  <2> DEFINE a == t + 1
             e == t + 1 + c
  <2>1. a \in 0 .. BufferSize /\ e \in a .. BufferSize - 1
    BY <1>3, SizeFacts DEF Sizes
  <2>2. EndsAt(m3, a, e)
    BY <1>5
  <2> HIDE DEF a, e
  <2>3. StringIn(m3, a) = [k \in 1 .. e - a |-> m3[a + k - 1]]
    BY <2>1, <2>2, EndInIs, SizeFacts
  <2>4. QED BY <2>3 DEF a, e
<1>8. StringIn(m3, 0) = n.title
  <2>1. \A k \in 1 .. t : 0 + k - 1 \in 0 .. t - 1 /\ (0 + k - 1) + 1 = k
    BY <1>3
  <2>2. t - 0 = t
    BY <1>3
  <2>4. \A k \in 1 .. t : m3[0 + k - 1] = n.title[k]
    BY <1>3, <2>1
  <2>3. StringIn(m3, 0) = [k \in 1 .. t |-> n.title[k]]
    BY <1>6, <2>2, <2>4, Zenon
  <2>5. n.title = [k \in 1 .. Len(n.title) |-> n.title[k]]
    BY <1>1, LenProperties
  <2>6. QED BY <1>2, <2>3, <2>5
<1>9. StringIn(m3, t + 1) = n.content
  <2>1. \A k \in 1 .. c : (t + 1) + k - 1 \in t + 1 .. t + c /\ ((t + 1) + k - 1) - t = k
    BY <1>3
  <2>2. (t + 1 + c) - (t + 1) = c
    BY <1>3
  <2>4. \A k \in 1 .. c : m3[(t + 1) + k - 1] = n.content[k]
    BY <1>3, <2>1
  <2>3. StringIn(m3, t + 1) = [k \in 1 .. c |-> n.content[k]]
    BY <1>7, <2>2, <2>4, Zenon
  <2>5. n.content = [k \in 1 .. Len(n.content) |-> n.content[k]]
    BY <1>1, LenProperties
  <2>6. QED BY <1>2, <2>3, <2>5
<1>10. QED BY <1>3, <1>8, <1>9 DEF m3

-----------------------------------------------------------------------------
(* The inductive invariant.                                                *)

\* A terminator stands at or after each of the two strings of the choice.
ChoiceEnds ==
    choice # Nothing =>
        choice.title = 0 /\ \E z \in Cells : choice.content <= z /\ mem[z] = 0

BufferInv == BufferTypeOK /\ ChoiceEnds /\ OfferIsWhole

LEMMA InvInit == BufferInit => BufferInv
BY SizeFacts DEF BufferInit, BufferInv, BufferTypeOK, ChoiceEnds, OfferIsWhole, Cells, Bytes

\* Nothing is kept of a choice that is not on screen.
LEMMA NoChoice ==
    ASSUME BufferTypeOK', choice' = Nothing
    PROVE  BufferInv'
BY DEF BufferInv, ChoiceEnds, OfferIsWhole

LEMMA ShareStep ==
    ASSUME BufferInv, NEW n \in Notes, Share(n)
    PROVE  BufferInv'
BY NoChoice DEF BufferInv, Share, LeaveChoice, BufferTypeOK

LEMMA GetNoteStep ==
    ASSUME BufferInv, GetNote
    PROVE  BufferInv'
<1> USE DEF BufferInv, BufferTypeOK
<1>1. shared \in Notes
  BY DEF GetNote
<1>2. Packed(shared) \in Seq(Bytes)
  BY <1>1, PackedBytes
<1>3. mem' \in [Cells -> Bytes]
  BY <1>2, WrittenTyped, SizeFacts DEF GetNote
<1>4. outcome' \in Outcomes
  BY <1>1, <1>2 DEF GetNote, Outcomes
<1>5. UNCHANGED shared /\ choice' = Nothing /\ offered' = Nothing /\ rewritten' = FALSE
  BY DEF GetNote, LeaveChoice
<1>6. QED BY <1>3, <1>4, <1>5, NoChoice

LEMMA PutNoteStep ==
    ASSUME BufferInv, PutNote
    PROVE  BufferInv'
<1> USE DEF BufferInv, BufferTypeOK
<1>1. outcome' = Nothing /\ UNCHANGED shared
  BY DEF PutNote
<1>2. PICK n \in Notes, k \in 1 .. ByteMod - 1 :
         /\ k <= Len(Packed(n))
         /\ \/ PutRefused(SubSeq(Packed(n), 1, k))
            \/ PutTitleOnly(SubSeq(Packed(n), 1, k))
            \/ PutAccepted(SubSeq(Packed(n), 1, k), n)
  BY DEF PutNote
<1> DEFINE d == SubSeq(Packed(n), 1, k)
<1>3. IsPacket(d, n)
  BY <1>2, PrefixIsPacket
<1> HIDE DEF d
<1>4. CASE PutRefused(d)
  BY <1>1, <1>4 DEF PutRefused, ChoiceEnds, OfferIsWhole, StringAt, EndOf
<1>5. CASE PutTitleOnly(d)
  <2>1. CanRead(d, 1) /\ mem' = TitleIn(mem, d) /\ UNCHANGED <<choice, offered>>
        /\ rewritten' = (choice # Nothing)
    BY <1>5 DEF PutTitleOnly, TitleWritten, TitleIn
  <2>2. /\ mem' \in [Cells -> Bytes] /\ d[1] \in Cells /\ mem'[d[1]] = 0
        /\ \A c \in Cells : c > d[1] => mem'[c] = mem[c]
    BY <1>3, <2>1, TitleInBytes
  <2>3. BufferTypeOK'
    BY <1>1, <2>1, <2>2
  <2>4. ChoiceEnds'
    <3>1. SUFFICES ASSUME choice # Nothing
                   PROVE  \E z \in Cells : choice.content <= z /\ mem'[z] = 0
      BY <2>1 DEF ChoiceEnds
    <3>2. PICK z \in Cells : choice.content <= z /\ mem[z] = 0
      BY <3>1 DEF ChoiceEnds
    <3>3. choice.content \in Cells
      BY <3>1 DEF ChoicePointers
    <3>4. CASE z > d[1]
      BY <2>2, <3>2, <3>4
    <3>5. CASE ~ (z > d[1])
      BY <2>2, <3>2, <3>3, <3>5, SizeFacts DEF Cells, Sizes
    <3>6. QED BY <3>4, <3>5
  <2>5. OfferIsWhole'
    BY <2>1 DEF OfferIsWhole
  <2>6. QED BY <2>3, <2>4, <2>5
<1>6. CASE PutAccepted(d, n)
  <2>1. /\ CanRead(d, 1) /\ CanRead(d, ContentAt(d)) /\ mem' = NoteIn(mem, d)
        /\ choice' = [title |-> 0, content |-> ContentCell(d)]
        /\ offered' = n /\ rewritten' = FALSE
    BY <1>6 DEF PutAccepted, NoteWritten, NoteIn, TitleWritten, TitleIn
  <2>2. /\ mem' \in [Cells -> Bytes]
        /\ TitleLength(n) \in Nat /\ ContentLength(n) \in Nat
        /\ TitleLength(n) + 1 + ContentLength(n) < BufferSize
        /\ ContentCell(d) = TitleLength(n) + 1
        /\ mem'[TitleLength(n) + 1 + ContentLength(n)] = 0
    BY <1>3, <2>1, NoteInBytes
  <2>3. /\ ContentCell(d) \in Cells
        /\ TitleLength(n) + 1 + ContentLength(n) \in Cells
        /\ ContentCell(d) <= TitleLength(n) + 1 + ContentLength(n)
    <3>1. BufferSize \in Nat
      BY SizeFacts DEF Sizes
    <3>2. QED BY <2>2, <3>1 DEF Cells
  <2>4. BufferTypeOK'
    BY <1>1, <2>1, <2>2, <2>3, SizeFacts DEF ChoicePointers
  <2>5. ChoiceEnds'
    BY <2>1, <2>2, <2>3 DEF ChoiceEnds
  <2>6. OfferIsWhole'
    <3>1. SUFFICES ASSUME Len(n.title) < ByteMod, Len(n.content) < ByteMod
                   PROVE  StringAt(0)' = n.title /\ StringAt(ContentCell(d))' = n.content
      BY <2>1 DEF OfferIsWhole
    <3>2. StringIn(mem', 0) = n.title /\ StringIn(mem', ContentCell(d)) = n.content
      BY <1>3, <2>1, <3>1, NoteReadBack
    <3>3. QED BY <3>2 DEF StringAt, EndOf, StringIn, EndIn
  <2>7. QED BY <2>4, <2>5, <2>6
<1>7. QED BY <1>2, <1>4, <1>5, <1>6 DEF d

LEMMA ChooseReceptionStep ==
    ASSUME BufferInv, ChooseReception
    PROVE  BufferInv'
<1> USE DEF BufferInv, BufferTypeOK
<1>1. choice \in ChoicePointers
  BY DEF ChooseReception
<1>2. choice.title \in Cells /\ choice.content \in Cells
  BY <1>1 DEF ChoicePointers
<1>3. StringAt(choice.title) \in Seq(Bytes) /\ StringAt(choice.content) \in Seq(Bytes)
  BY <1>2, StringTyped, StringsOfMem, SizeFacts
<1>4. outcome' \in Outcomes \cup {Nothing}
  BY <1>3 DEF ChooseReception, Outcomes
<1>5. QED BY <1>4, NoChoice DEF ChooseReception

LEMMA AddAddressStep ==
    ASSUME BufferInv, NEW a \in Addresses, AddAddress(a)
    PROVE  BufferInv'
<1> USE DEF BufferInv, BufferTypeOK
<1>1. a \in Seq(Bytes)
  BY SizeFacts, SharedBufferAssumption DEF Text
<1>2. mem' \in [Cells -> Bytes]
  BY <1>1, WrittenTyped, SizeFacts DEF AddAddress, AddressWritten
<1>3. StringAt(0)' \in Seq(Bytes)
  <2>1. StringIn(mem', 0) \in Seq(Bytes)
    BY <1>2, StringTyped, SizeFacts
  <2>2. QED BY <2>1 DEF StringAt, EndOf, StringIn, EndIn
<1>4. outcome' \in Outcomes
  BY <1>3 DEF AddAddress, Outcomes
<1>5. UNCHANGED shared /\ choice' = Nothing /\ offered' = Nothing /\ rewritten' = FALSE
  BY DEF AddAddress, LeaveChoice
<1>6. QED BY <1>2, <1>4, <1>5, NoChoice

\* Whatever the three commands and the user do, what a choice points to is in
\* place: BufferInv, from which the three theorems below follow.
THEOREM BufferCorrect == BufferSpec => []BufferInv
<1>1. BufferInv /\ [BufferNext]_bufferVars => BufferInv'
  <2>1. SUFFICES ASSUME BufferInv, [BufferNext]_bufferVars PROVE BufferInv'
    OBVIOUS
  <2>2. CASE UNCHANGED bufferVars
    BY <2>1, <2>2
       DEF bufferVars, BufferInv, BufferTypeOK, ChoiceEnds, OfferIsWhole, StringAt, EndOf
  <2>3. QED
    BY <2>1, <2>2, ShareStep, GetNoteStep, PutNoteStep, ChooseReceptionStep, AddAddressStep
       DEF BufferNext
<1>2. QED BY <1>1, InvInit, PTL DEF BufferSpec

\* What GET_NOTE packed is what PUT_NOTE offers: OfferIsWhole.
THEOREM OfferCorrect == BufferSpec => []OfferIsWhole
<1>1. BufferInv => OfferIsWhole
  BY DEF BufferInv
<1>2. QED BY <1>1, BufferCorrect, PTL

\* No refused packet takes the terminator of an offered string away: StringsEnd.
THEOREM StringsCorrect == BufferSpec => []StringsEnd
<1>1. BufferInv => StringsEnd
  <2>1. SUFFICES ASSUME BufferInv, choice # Nothing
                 PROVE  /\ EndOf(choice.title) < BufferSize
                        /\ EndOf(choice.content) < BufferSize
    BY DEF StringsEnd
  <2>2. choice.title \in Cells /\ choice.content \in Cells
    BY <2>1 DEF BufferInv, BufferTypeOK, ChoicePointers
  <2>3. PICK z \in Cells : choice.title <= z /\ choice.content <= z /\ mem[z] = 0
    BY <2>1, <2>2, SizeFacts DEF BufferInv, ChoiceEnds, Cells, Sizes
  <2>4. QED BY <2>2, <2>3, EndsInside, StringsOfMem, SizeFacts
<1>2. QED BY <1>1, BufferCorrect, PTL

\* What GET_NOTE answers is a packet to its last byte: AnswerIsAPacket.
THEOREM AnswerCorrect == BufferSpec => []AnswerIsAPacket
<1>1. BufferInit => AnswerIsAPacket
  BY DEF BufferInit, AnswerIsAPacket
<1>2. BufferInv /\ AnswerIsAPacket /\ [BufferNext]_bufferVars => AnswerIsAPacket'
  <2>1. SUFFICES ASSUME BufferInv, AnswerIsAPacket, [BufferNext]_bufferVars
                 PROVE  AnswerIsAPacket'
    OBVIOUS
  <2>2. CASE UNCHANGED bufferVars
    BY <2>1, <2>2 DEF bufferVars, AnswerIsAPacket
  <2>3. ASSUME NEW n \in Notes, Share(n) PROVE AnswerIsAPacket'
    BY <2>3 DEF Share, AnswerIsAPacket
  <2>4. CASE PutNote
    BY <2>4 DEF PutNote, AnswerIsAPacket
  <2>5. CASE ChooseReception
    BY <2>5 DEF ChooseReception, AnswerIsAPacket
  <2>6. ASSUME NEW a \in Addresses, AddAddress(a) PROVE AnswerIsAPacket'
    BY <2>6 DEF AddAddress, AnswerIsAPacket
  <2>7. CASE GetNote
    <3>1. shared \in Notes
      BY <2>1, <2>7 DEF GetNote, BufferInv, BufferTypeOK
    <3>2. IsPacketOf(Packed(shared), shared)
      BY <3>1, PackedIsPacket
    <3>3. QED BY <2>7, <3>2 DEF GetNote, AnswerIsAPacket
  <2>8. QED BY <2>1, <2>2, <2>3, <2>4, <2>5, <2>6, <2>7 DEF BufferNext
<1>3. QED BY <1>1, <1>2, BufferCorrect, PTL DEF BufferSpec
=============================================================================
