------------------------- MODULE AcquisitionCapacity ---------------------------
(* A buyer's proof of funds: the documents uploaded, the team's verdict on each,*)
(* the case's own status, and the figure a seller is shown, which is recomputed *)
(* from the documents after every verdict.  Each database call is a step.       *)
EXTENDS Integers, FiniteSets, Functions

CONSTANTS
  Documents,    \* the documents that may be uploaded
  Amounts,      \* what a document may show
  Reviewers     \* requests being served at once

NoFigure == 0 - 1   \* verifiedFunds: null

ASSUME AcquisitionCapacityAssumption ==
  /\ IsFiniteSet(Documents)
  /\ Amounts \subseteq Nat

VARIABLES
  case,         \* the case's status, "none" without one, and its reviewer
  uploads,      \* each document's status and amount
  funds,        \* verifiedFunds
  reviews,      \* what each request being served is about to do
  \* history
  stale         \* was the figure read before a verdict, or its writing given up

capacityVars == <<case, uploads, funds, reviews, stale>>

CaseStatus == {"UNASSIGNED", "IN_REVIEW", "COMPLETED"}
Verdicts == {"IN_REVIEW", "VERIFIED", "DECLINED"}
Upload == [status : Verdicts \cup {"none"}, amount : Amounts \cup {0}]
Review == [step : {"idle", "upload", "sum", "total", "count", "assign", "close"},
           docs : SUBSET Documents, figure : Int, status : CaseStatus]

NotReviewing == [step |-> "idle", docs |-> {}, figure |-> NoFigure, status |-> "UNASSIGNED"]

CapacityInit ==
  /\ case = "none"
  /\ uploads = [d \in Documents |-> [status |-> "none", amount |-> 0]]
  /\ funds = NoFigure
  /\ reviews = [r \in Reviewers |-> NotReviewing]
  /\ stale = FALSE

--------------------------------------------------------------------------------

Verified == {d \in Documents : uploads[d].status = "VERIFIED"}
Undecided == {d \in Documents : uploads[d].status = "IN_REVIEW"}

\* What the verified documents show between them; null without one
Proven == IF Verified = {} THEN NoFigure
          ELSE SumFunction([d \in Verified |-> uploads[d].amount])

OpenReview(r, record) ==
  /\ reviews[r] = NotReviewing
  /\ reviews' = [reviews EXCEPT ![r] = record]

CloseReview(r) == reviews' = [reviews EXCEPT ![r] = NotReviewing]

\* Documents that nobody has sent in: every upload makes rows of its own
Fresh(docs) ==
  /\ \A d \in docs : uploads[d].status = "none"
  /\ \A r \in Reviewers : reviews[r].docs \cap docs = {}

\* New evidence puts the case back in the queue before it is stored
SubmitDocuments(r, docs) ==
  /\ docs # {} /\ Fresh(docs)
  /\ OpenReview(r, [NotReviewing EXCEPT !.step = "upload", !.docs = docs])
  /\ case' = "UNASSIGNED"
  /\ UNCHANGED <<uploads, funds, stale>>

StoreDocuments(r) ==
  /\ reviews[r].step = "upload"
  /\ uploads' = [d \in Documents |->
       IF d \in reviews[r].docs THEN [status |-> "IN_REVIEW", amount |-> 0] ELSE uploads[d]]
  /\ CloseReview(r)
  /\ UNCHANGED <<case, funds, stale>>

\* Has another request read the figure it is about to write
FigureOut(r) == \E s \in Reviewers \ {r} : reviews[s].step = "total"

\* A mistake the figure would show: only an approval makes it be added up again
ReviewApproves(r, d, verdict, amount) ==
  /\ uploads[d].status # "none"
  /\ amount \in Amounts \cup {uploads[d].amount}
  /\ uploads' = [uploads EXCEPT ![d] = [status |-> verdict, amount |-> amount]]
  /\ IF verdict = "VERIFIED"
       THEN OpenReview(r, [NotReviewing EXCEPT !.step = "sum"]) /\ stale' = (stale \/ FigureOut(r))
       ELSE reviews[r] = NotReviewing /\ UNCHANGED <<reviews, stale>>
  /\ UNCHANGED <<case, funds>>

\* The verdict is stored, with an amount or leaving the one there is
ReviewDocument(r, d, verdict, amount) ==
  /\ uploads[d].status # "none"
  /\ amount \in Amounts \cup {uploads[d].amount}
  /\ uploads' = [uploads EXCEPT ![d] = [status |-> verdict, amount |-> amount]]
  /\ OpenReview(r, [NotReviewing EXCEPT !.step = "sum"])
  /\ stale' = (stale \/ FigureOut(r))
  /\ UNCHANGED <<case, funds>>

ReadVerified(r) ==
  /\ reviews[r].step = "sum"
  /\ reviews' = [reviews EXCEPT ![r] =
       [NotReviewing EXCEPT !.step = "total", !.figure = Proven]]
  /\ stale' = (stale /\ FigureOut(r))
  /\ UNCHANGED <<case, uploads, funds>>

WriteFunds(r) ==
  /\ reviews[r].step = "total"
  /\ funds' = reviews[r].figure
  /\ CloseReview(r)
  /\ UNCHANGED <<case, uploads, stale>>

\* A case with somebody's name against it is never still unassigned
AssignReviewer(r, somebody) ==
  /\ case # "none"
  /\ OpenReview(r, [NotReviewing EXCEPT !.step = "assign", !.status =
       IF somebody /\ case = "UNASSIGNED" THEN "IN_REVIEW" ELSE case])
  /\ UNCHANGED <<case, uploads, funds, stale>>

\* A mistake: a case is closed with the word that closes a document
ReviewCaseAsDocument(r, status) ==
  /\ case # "none"
  /\ OpenReview(r, [NotReviewing EXCEPT
       !.status = IF status = "COMPLETED" THEN "VERIFIED" ELSE status,
       !.step = IF status = "COMPLETED" THEN "count" ELSE "close"])
  /\ UNCHANGED <<uploads, case, funds, stale>>

\* The status asked for, or, unasked, review once anybody has looked: one of the three
ReviewCase(r, status) ==
  /\ case # "none"
  /\ OpenReview(r, [NotReviewing EXCEPT !.status = status,
       !.step = IF status = "COMPLETED" THEN "count" ELSE "close"])
  /\ UNCHANGED <<case, uploads, funds, stale>>

\* Not completed while a document has had no verdict
CountUndecided(r) ==
  /\ reviews[r].step = "count"
  /\ IF Undecided # {}
       THEN CloseReview(r)
       ELSE reviews' = [reviews EXCEPT ![r] =
              [NotReviewing EXCEPT !.step = "close", !.status = "COMPLETED"]]
  /\ UNCHANGED <<case, uploads, funds, stale>>

WriteCase(r) ==
  /\ reviews[r].step \in {"assign", "close"}
  /\ case' = reviews[r].status
  /\ CloseReview(r)
  /\ UNCHANGED <<uploads, funds, stale>>

\* A database call fails or the process stops
ReviewStops(r) ==
  /\ reviews[r] # NotReviewing
  /\ CloseReview(r)
  /\ stale' = (stale \/ reviews[r].step \in {"sum", "total"})
  /\ UNCHANGED <<case, uploads, funds>>

CapacityNext ==
  \E r \in Reviewers :
    \/ \E docs \in SUBSET Documents : SubmitDocuments(r, docs)
    \/ \E d \in Documents, verdict \in Verdicts, amount \in Amounts \cup {0} :
         ReviewDocument(r, d, verdict, amount)
    \/ \E somebody \in BOOLEAN : AssignReviewer(r, somebody)
    \/ \E status \in CaseStatus : ReviewCase(r, status)
    \/ StoreDocuments(r) \/ ReadVerified(r) \/ WriteFunds(r) \/ CountUndecided(r)
    \/ WriteCase(r) \/ ReviewStops(r)

CapacitySpec == CapacityInit /\ [][CapacityNext]_capacityVars

--------------------------------------------------------------------------------

\* The case's state has its type.
CapacityTypeOK ==
  /\ case \in CaseStatus \cup {"none"}
  /\ uploads \in [Documents -> Upload]
  /\ funds \in Int
  /\ reviews \in [Reviewers -> Review]
  /\ stale \in BOOLEAN

\* The figure a seller is shown is what the verified documents add up to whenever no
\* verdict is being worked on, unless a verdict came between another's reading of the
\* documents and its writing of the figure, or a request stopped before writing it; and
\* the next verdict that is worked on alone puts the figure right again.
VerifiedFundsAddUp ==
  (~stale /\ \A r \in Reviewers : reviews[r].step \notin {"sum", "total"}) => funds = Proven

\* The figure never disagrees with the documents while no verdict is being worked on.
\* The code's comment promises that; it fails when the older of two sums is written
\* last, or when a request stops between its verdict and the figure.
FundsNeverDisagree ==
  (\A r \in Reviewers : reviews[r].step \notin {"sum", "total"}) => funds = Proven
================================================================================
