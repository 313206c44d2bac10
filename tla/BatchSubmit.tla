----------------------------- MODULE BatchSubmit -----------------------------
(***************************************************************************)
(* `sawtooth batch submit` (batch.py, rest_client.py): the batches of a    *)
(* file go to the REST API in lists of at most batch_size_limit, one       *)
(* request after another, and with --wait their statuses are asked until   *)
(* all are committed or the time is over.  The identity and settings       *)
(* commands that send a batch of their own do the same with one batch.     *)
(*                                                                         *)
(* The REST API and the validator behind it are external: a POST is taken, *)
(* refused, or lost before or after it was taken; a batch that was taken   *)
(* is committed or invalid after a while, and a fork takes a commitment    *)
(* back, also while an answer with the statuses of one moment travels.     *)
(* Time is counted in the 0.2 s pauses of the loop.                        *)
(***************************************************************************)
EXTENDS Integers, SequencesExt, FiniteSetsExt

CONSTANTS
  FileSizes,    \* the numbers of batches a file may hold
  Limits,       \* the values of --batch-size-limit
  Waits         \* the values of --wait; 0 without it

ASSUME SubmitAssumption ==
  FileSizes \subseteq Nat \ {0} /\ Limits \subseteq Int /\ Waits \subseteq Nat

VARIABLES
  file, limit, wait,   \* the arguments
  submitting,          \* "send", "poll", "answered" or how the command ended
  sent,                \* lists that were answered
  received,            \* the batches the validator took, in order
  status,              \* per batch
  answer,              \* the statuses in the API's last answer
  clock, waited,       \* now, and the code's wait_time
  together             \* history: were all batches committed at one moment?

submitVars == << file, limit, wait, submitting, sent, received, status, answer, clock,
                 waited, together >>

AllCommitted(statuses) == \A b \in ToSet(file) : statuses[b] = "COMMITTED"

SubmitStart(n, l, w) ==
  /\ file = [i \in 1 .. n |-> i] /\ limit = l /\ wait = w
  /\ submitting = "send" /\ sent = 0
  /\ received = << >> /\ status = [b \in 1 .. n |-> "UNKNOWN"] /\ answer = status
  /\ clock = 0 /\ waited = 0 /\ together = AllCommitted(status)

\* identity's two create commands (identity.py) make one batch, send it, and wait
\* for it as `batch submit` waits for a file of one; sawset's proposals are sent
\* and not waited for.
PolicyCreate(w) == SubmitStart(1, 0, w)
RoleCreate(w) == SubmitStart(1, 0, w)
ProposalCreate == SubmitStart(1, 0, 0)

SubmitInit ==
  \/ \E n \in FileSizes, l \in Limits, w \in Waits : SubmitStart(n, l, w)
  \/ \E w \in Waits : PolicyCreate(w) \/ RoleCreate(w)
  \/ ProposalCreate

\* Mutant: what is left over when the file ends is not yielded.
FullLists(f, l) ==
  IF l <= 0 THEN << f >>
  ELSE [k \in 1 .. Len(f) \div l |-> SubSeq(f, (k - 1) * l + 1, k * l)]

\* _split_batch_list(): a limit no length equals gives one list.
Lists(f, l) ==
  IF l <= 0 THEN << f >>
  ELSE [k \in 1 .. (Len(f) + l - 1) \div l |->
          SubSeq(f, (k - 1) * l + 1, Min({k * l, Len(f)}))]

Taken(batches) ==
  /\ received' = received \o batches
  /\ status' = [b \in DOMAIN status |-> IF b \in ToSet(batches) THEN "PENDING" ELSE status[b]]

SendList ==
  /\ submitting = "send" /\ sent < Len(Lists(file, limit))
  /\ Taken(Lists(file, limit)[sent + 1])
  /\ sent' = sent + 1
  /\ UNCHANGED << file, limit, wait, submitting, answer, clock, waited, together >>

\* A list that is refused or lost raises; a lost one may have been taken.
SendRaises ==
  /\ submitting = "send" /\ sent < Len(Lists(file, limit))
  /\ submitting' = "raised"
  /\ UNCHANGED << received, status >> \/ Taken(Lists(file, limit)[sent + 1])
  /\ UNCHANGED << file, limit, wait, sent, answer, clock, waited, together >>

AllSent ==
  /\ submitting = "send" /\ sent = Len(Lists(file, limit))
  /\ submitting' = IF wait > 0 THEN "poll" ELSE "submitted"
  /\ UNCHANGED << file, limit, wait, sent, received, status, answer, clock, waited, together >>

\* Mutant: what was committed in an answer is not asked again.
AnswerKept ==
  [b \in DOMAIN status |-> IF answer[b] = "COMMITTED" THEN "COMMITTED" ELSE status[b]]

Statuses == status

\* get_statuses(): the validator answers with the statuses it has.
Poll ==
  /\ submitting = "poll" /\ waited < wait
  /\ answer' = Statuses
  /\ submitting' = "answered"
  /\ UNCHANGED << file, limit, wait, sent, received, status, clock, waited, together >>

\* The answer is read at a moment up to the end of the wait that was asked for,
\* and wait_time is that moment.
ReadAnswer ==
  /\ submitting = "answered"
  /\ waited' \in clock .. clock + wait - waited
  /\ clock' = waited' + 1
  /\ submitting' = IF AllCommitted(answer) THEN "committed" ELSE "poll"
  /\ UNCHANGED << file, limit, wait, sent, received, status, answer, together >>

PollTimesOut ==
  /\ submitting = "poll" /\ waited >= wait
  /\ submitting' = "timed out"
  /\ UNCHANGED << file, limit, wait, sent, received, status, answer, clock, waited, together >>

PollRaises ==
  /\ submitting = "poll" /\ waited < wait
  /\ submitting' = "raised"
  /\ UNCHANGED << file, limit, wait, sent, received, status, answer, clock, waited, together >>

\* The validator decides a batch, or a fork undoes a commitment.
Decide ==
  /\ submitting \in {"send", "poll", "answered"}
  /\ \E b \in DOMAIN status :
       \/ /\ status[b] = "PENDING"
          /\ \E s \in {"COMMITTED", "INVALID"} : status' = [status EXCEPT ![b] = s]
       \/ status[b] = "COMMITTED" /\ status' = [status EXCEPT ![b] = "PENDING"]
  /\ together' = (together \/ AllCommitted(status'))
  /\ UNCHANGED << file, limit, wait, submitting, sent, received, answer, clock, waited >>

SubmitNext ==
  \/ SendList \/ SendRaises \/ AllSent
  \/ Poll \/ ReadAnswer \/ PollTimesOut \/ PollRaises \/ Decide

SubmitEnded == submitting \notin {"send", "poll", "answered"}

-----------------------------------------------------------------------------
\* What the validator took is the file's batches in their order, each once, and
\* a command that did not raise submitted all of them (do_batch_submit()).
SubmittedOnce ==
  /\ IsPrefix(received, file)
  /\ submitting \notin {"send", "raised"} => received = file

\* "All batches committed" is printed only when there was a moment at which the
\* validator held all batches of the file as committed, whatever forks came before
\* the question, between two questions, and while the answer travelled.
CommittedTogether == submitting = "committed" => together
-----------------------------------------------------------------------------
\* How many of the file's batches the first k lists hold.
Held(k) ==
  IF limit <= 0 THEN IF k = 0 THEN 0 ELSE Len(file) ELSE Min({k * limit, Len(file)})

\* The inductive invariant: the validator took the lists that were answered, and
\* perhaps the one whose request raised.
ReceivedLists ==
  /\ Len(file) \in Nat /\ file = [i \in 1 .. Len(file) |-> i] /\ limit \in Int
  /\ sent \in 0 .. Len(Lists(file, limit))
  /\ \/ received = SubSeq(file, 1, Held(sent))
     \/ /\ submitting = "raised" /\ sent < Len(Lists(file, limit))
        /\ received = SubSeq(file, 1, Held(sent + 1))
  /\ submitting \notin {"send", "raised"} => sent = Len(Lists(file, limit))

\* The moment of an answer that says all are committed is not forgotten.
AnswersHeld ==
  /\ DOMAIN status = ToSet(file)
  /\ AllCommitted(status) \/ AllCommitted(answer) => together
  /\ submitting = "committed" => AllCommitted(answer)

=============================================================================
