--------------------------- MODULE ApprovalProofs ---------------------------
(***************************************************************************)
(* Proofs about Approval for any registry, number of tool calls, turns and *)
(* answers, with or without a timeout: type correctness, no tool entered   *)
(* that a rule of the policy forbids or that leaves its zone without the   *)
(* user's "yes", one processed answer a call, and none refused that came   *)
(* early.                                                                  *)
(***************************************************************************)
EXTENDS Approval, TLAPS

Unfiled == {"new", "bound", "outside"}
WithUser == {"filed", "asked", "waiting"}

\* A response on a oneshot is an answer that was processed.
ResponseOK ==
  \A k \in Ids :
    /\ response[k] = "yes" => [id |-> k, approved |-> TRUE] \in processed
    /\ response[k] = "none" => \A a \in processed : a.id # k

\* A sender is in the map from File on, until its answer is processed.
PendingOK ==
  \A k \in Ids :
    /\ k \in pending => response[k] = "none"
    /\ stage[k] \in Unfiled => k \notin pending /\ k \notin known /\ response[k] = "none"
    /\ stage[k] \in WithUser /\ response[k] = "none" => k \in pending
    /\ stage[k] = "running" /\ k \in known => response[k] = "yes"

\* Only what the callback has told is answered.
RequestsOK ==
  /\ \A i \in DOMAIN requests : requests[i].id \in known
  /\ \A k \in known : stage[k] \notin Unfiled \cup {"filed"}
  /\ \A k \in Ids : stage[k] \in {"bound", "outside"} \cup WithUser => slot \in Turns

\* What goes on to the fence has passed the policy, and what the user is asked
\* lies inside the fence.
Vetted(k) == ~Forbidden(Call(k)) /\ InFence(Call(k))
AskedOK ==
  \A k \in Ids : /\ stage[k] = "outside" => ~Forbidden(Call(k))
                 /\ stage[k] \in WithUser => Vetted(k)

ApprovalInv ==
  /\ TypeOK
  /\ EnteredOnlyApproved
  /\ AnsweredOnce
  /\ ResponseOK
  /\ PendingOK
  /\ RequestsOK
  /\ AskedOK

-----------------------------------------------------------------------------
(* What the guard decides. *)

LEMMA AllowedNotForbidden ==
  ASSUME NEW k, Allowed(k) PROVE ~Forbidden(Call(k))
  BY DEF Allowed, Permitted, ToolAllowed, ShellAllowed, CommandAllowed, Forbidden

LEMMA ApprovedInZone ==
  ASSUME NEW k, AutoApproved(setting, Call(k), present) PROVE InZone(Call(k))
  BY DEF AutoApproved, Verified, InZone

LEMMA AskedFenced ==
  ASSUME NEW k, AskUser(k) PROVE InFence(Call(k))
  BY DEF AskUser, Rejected, Within, InFence

\* A registry's rules and the calls made on it do not change.
LEMMA SameSetting ==
  ASSUME setting' = setting
  PROVE  /\ \A k \in Ids : Forbidden(Call(k))' <=> Forbidden(Call(k))
         /\ \A k \in Ids : InZone(Call(k))' <=> InZone(Call(k))
         /\ \A k \in Ids : InFence(Call(k))' <=> InFence(Call(k))
         /\ \A k \in Ids : Vetted(k)' <=> Vetted(k)
<1>1. ASSUME NEW k \in Ids PROVE Call(k)' = Call(k)
  BY DEF Call
<1>2. ASSUME NEW k \in Ids PROVE Forbidden(Call(k))' <=> Forbidden(Call(k))
  BY <1>1 DEF Forbidden
<1>3. ASSUME NEW k \in Ids PROVE InZone(Call(k))' <=> InZone(Call(k))
  BY <1>1 DEF InZone
<1>4. ASSUME NEW k \in Ids PROVE InFence(Call(k))' <=> InFence(Call(k))
  BY <1>1 DEF InFence
<1> QED
  BY <1>2, <1>3, <1>4 DEF Vetted

-----------------------------------------------------------------------------
LEMMA InitApproval == Init => ApprovalInv
<1> USE ApprovalAssumption
<1> SUFFICES ASSUME Init PROVE ApprovalInv
  OBVIOUS
<1>1. TypeOK
  BY DEF Init, TypeOK, Stages
<1>2. EnteredOnlyApproved /\ AnsweredOnce /\ ResponseOK
  BY DEF Init, EnteredOnlyApproved, AnsweredOnce, ResponseOK
<1>3. PendingOK /\ RequestsOK /\ AskedOK
  BY DEF Init, PendingOK, RequestsOK, AskedOK, Unfiled, WithUser
<1> QED
  BY <1>1, <1>2, <1>3 DEF ApprovalInv

LEMMA StepApproval == ApprovalInv /\ [Next]_vars => ApprovalInv'
<1> USE ApprovalAssumption
<1> SUFFICES ASSUME ApprovalInv, [Next]_vars PROVE ApprovalInv'
  OBVIOUS
<1>0. TypeOK /\ EnteredOnlyApproved /\ AnsweredOnce /\ ResponseOK /\ PendingOK /\ RequestsOK /\ AskedOK
  BY DEF ApprovalInv
<1>1. ASSUME NEW k \in Ids, Bind(k) PROVE ApprovalInv'
  <2>0. UNCHANGED setting
    BY <1>1 DEF Bind, placeVars
  <2>1. TypeOK'
    BY <1>0, <1>1 DEF Bind, Move, placeVars, callVars, userVars, TypeOK, Stages, Over
  <2>2. EnteredOnlyApproved'
    BY <1>0, <1>1, <2>0, SameSetting DEF Bind, Move, placeVars, callVars, userVars, EnteredOnlyApproved, TypeOK
  <2>3. AnsweredOnce'
    BY <1>0, <1>1 DEF Bind, Move, placeVars, callVars, userVars, AnsweredOnce, ResponseOK, PendingOK, TypeOK, Answers
  <2>4. ResponseOK'
    BY <1>0, <1>1 DEF Bind, Move, placeVars, callVars, userVars, ResponseOK, PendingOK, TypeOK, Answers
  <2>5. PendingOK'
    BY <1>0, <1>1 DEF Bind, Move, placeVars, callVars, userVars, PendingOK, RequestsOK, TypeOK, Unfiled, WithUser, Over
  <2>6. RequestsOK'
    BY <1>0, <1>1 DEF Bind, Move, placeVars, callVars, userVars, RequestsOK, PendingOK, TypeOK, Unfiled, WithUser, Over
  <2>7. AskedOK'
    BY <1>0, <1>1, <2>0, SameSetting DEF Bind, Move, placeVars, callVars, userVars, AskedOK, TypeOK, WithUser
  <2> QED
    BY <2>1, <2>2, <2>3, <2>4, <2>5, <2>6, <2>7 DEF ApprovalInv
<1>2. ASSUME NEW k \in Ids, AutoApprove(k) PROVE ApprovalInv'
  <2>0. UNCHANGED setting
    BY <1>2 DEF AutoApprove, placeVars
  <2>1. TypeOK'
    BY <1>0, <1>2 DEF AutoApprove, Move, Enter, placeVars, callVars, userVars, TypeOK, Stages, Over
  <2>2. EnteredOnlyApproved'
    BY <1>0, <1>2, <2>0, SameSetting, AllowedNotForbidden, ApprovedInZone
    DEF AutoApprove, Move, Enter, placeVars, callVars, userVars, EnteredOnlyApproved, TypeOK
  <2>3. AnsweredOnce'
    BY <1>0, <1>2 DEF AutoApprove, Move, Enter, placeVars, callVars, userVars, AnsweredOnce, ResponseOK, PendingOK, TypeOK, Answers
  <2>4. ResponseOK'
    BY <1>0, <1>2 DEF AutoApprove, Move, Enter, placeVars, callVars, userVars, ResponseOK, PendingOK, TypeOK, Answers
  <2>5. PendingOK'
    BY <1>0, <1>2 DEF AutoApprove, Move, Enter, placeVars, callVars, userVars, PendingOK, RequestsOK, TypeOK, Unfiled, WithUser, Over
  <2>6. RequestsOK'
    BY <1>0, <1>2 DEF AutoApprove, Move, Enter, placeVars, callVars, userVars, RequestsOK, PendingOK, TypeOK, Unfiled, WithUser, Over
  <2>7. AskedOK'
    BY <1>0, <1>2, <2>0, SameSetting DEF AutoApprove, Move, Enter, placeVars, callVars, userVars, AskedOK, TypeOK, WithUser
  <2> QED
    BY <2>1, <2>2, <2>3, <2>4, <2>5, <2>6, <2>7 DEF ApprovalInv
<1>3. ASSUME NEW k \in Ids, Cross(k) PROVE ApprovalInv'
  <2>0. UNCHANGED setting
    BY <1>3 DEF Cross, placeVars
  <2>1. TypeOK'
    BY <1>0, <1>3 DEF Cross, Move, placeVars, callVars, userVars, TypeOK, Stages, Over
  <2>2. EnteredOnlyApproved'
    BY <1>0, <1>3, <2>0, SameSetting DEF Cross, Move, placeVars, callVars, userVars, EnteredOnlyApproved, TypeOK
  <2>3. AnsweredOnce'
    BY <1>0, <1>3 DEF Cross, Move, placeVars, callVars, userVars, AnsweredOnce, ResponseOK, PendingOK, TypeOK, Answers
  <2>4. ResponseOK'
    BY <1>0, <1>3 DEF Cross, Move, placeVars, callVars, userVars, ResponseOK, PendingOK, TypeOK, Answers
  <2>5. PendingOK'
    BY <1>0, <1>3 DEF Cross, Move, placeVars, callVars, userVars, PendingOK, RequestsOK, TypeOK, Unfiled, WithUser, Over
  <2>6. RequestsOK'
    BY <1>0, <1>3 DEF Cross, Move, placeVars, callVars, userVars, RequestsOK, PendingOK, TypeOK, Unfiled, WithUser, Over
  <2>7. AskedOK'
    BY <1>0, <1>3, <2>0, SameSetting, AllowedNotForbidden
    DEF Cross, Move, placeVars, callVars, userVars, AskedOK, TypeOK, WithUser
  <2> QED
    BY <2>1, <2>2, <2>3, <2>4, <2>5, <2>6, <2>7 DEF ApprovalInv
<1>4. ASSUME NEW k \in Ids, Deny(k) PROVE ApprovalInv'
  <2>0. UNCHANGED setting
    BY <1>4 DEF Deny, placeVars
  <2>1. TypeOK'
    BY <1>0, <1>4 DEF Deny, Move, placeVars, callVars, userVars, TypeOK, Stages, Over
  <2>2. EnteredOnlyApproved'
    BY <1>0, <1>4, <2>0, SameSetting DEF Deny, Move, placeVars, callVars, userVars, EnteredOnlyApproved, TypeOK
  <2>3. AnsweredOnce'
    BY <1>0, <1>4 DEF Deny, Move, placeVars, callVars, userVars, AnsweredOnce, ResponseOK, PendingOK, TypeOK, Answers
  <2>4. ResponseOK'
    BY <1>0, <1>4 DEF Deny, Move, placeVars, callVars, userVars, ResponseOK, PendingOK, TypeOK, Answers
  <2>5. PendingOK'
    BY <1>0, <1>4 DEF Deny, Move, placeVars, callVars, userVars, PendingOK, RequestsOK, TypeOK, Unfiled, WithUser, Over
  <2>6. RequestsOK'
    BY <1>0, <1>4 DEF Deny, Move, placeVars, callVars, userVars, RequestsOK, PendingOK, TypeOK, Unfiled, WithUser, Over
  <2>7. AskedOK'
    BY <1>0, <1>4, <2>0, SameSetting DEF Deny, Move, placeVars, callVars, userVars, AskedOK, TypeOK, WithUser
  <2> QED
    BY <2>1, <2>2, <2>3, <2>4, <2>5, <2>6, <2>7 DEF ApprovalInv
<1>5. ASSUME NEW k \in Ids, File(k) PROVE ApprovalInv'
  <2>0. UNCHANGED setting
    BY <1>5 DEF File, placeVars
  <2>1. TypeOK'
    BY <1>0, <1>5 DEF File, Move, placeVars, callVars, userVars, TypeOK, Stages, Over
  <2>2. EnteredOnlyApproved'
    BY <1>0, <1>5, <2>0, SameSetting DEF File, Move, placeVars, callVars, userVars, EnteredOnlyApproved, TypeOK
  <2>3. AnsweredOnce'
    BY <1>0, <1>5 DEF File, Move, placeVars, callVars, userVars, AnsweredOnce, ResponseOK, PendingOK, TypeOK, Answers
  <2>4. ResponseOK'
    BY <1>0, <1>5 DEF File, Move, placeVars, callVars, userVars, ResponseOK, PendingOK, TypeOK, Answers
  <2>5. PendingOK'
    BY <1>0, <1>5 DEF File, Move, placeVars, callVars, userVars, PendingOK, RequestsOK, TypeOK, Unfiled, WithUser, Over
  <2>6. RequestsOK'
    BY <1>0, <1>5 DEF File, Move, placeVars, callVars, userVars, RequestsOK, PendingOK, TypeOK, Unfiled, WithUser, Over
  <2>7. AskedOK'
    BY <1>0, <1>5, <2>0, SameSetting, AskedFenced DEF File, Move, placeVars, callVars, userVars, AskedOK, Vetted, TypeOK, WithUser
  <2> QED
    BY <2>1, <2>2, <2>3, <2>4, <2>5, <2>6, <2>7 DEF ApprovalInv
<1>6. ASSUME NEW k \in Ids, Callback(k) PROVE ApprovalInv'
  <2>0. UNCHANGED setting
    BY <1>6 DEF Callback, placeVars
  <2>1. TypeOK'
    BY <1>0, <1>6 DEF Callback, Move, placeVars, callVars, userVars, TypeOK, Stages, Over, RequestsOK
  <2>2. EnteredOnlyApproved'
    BY <1>0, <1>6, <2>0, SameSetting DEF Callback, Move, placeVars, callVars, userVars, EnteredOnlyApproved, TypeOK
  <2>3. AnsweredOnce'
    BY <1>0, <1>6 DEF Callback, Move, placeVars, callVars, userVars, AnsweredOnce, ResponseOK, PendingOK, TypeOK, Answers
  <2>4. ResponseOK'
    BY <1>0, <1>6 DEF Callback, Move, placeVars, callVars, userVars, ResponseOK, PendingOK, TypeOK, Answers
  <2>5. PendingOK'
    BY <1>0, <1>6 DEF Callback, Move, placeVars, callVars, userVars, PendingOK, RequestsOK, TypeOK, Unfiled, WithUser, Over
  <2>6. RequestsOK'
    BY <1>0, <1>6 DEF Callback, Move, placeVars, callVars, userVars, RequestsOK, PendingOK, TypeOK, Unfiled, WithUser, Over
  <2>7. AskedOK'
    BY <1>0, <1>6, <2>0, SameSetting DEF Callback, Move, placeVars, callVars, userVars, AskedOK, TypeOK, WithUser
  <2> QED
    BY <2>1, <2>2, <2>3, <2>4, <2>5, <2>6, <2>7 DEF ApprovalInv
<1>7. ASSUME NEW k \in Ids, Broadcast(k) PROVE ApprovalInv'
  <2>0. UNCHANGED setting
    BY <1>7 DEF Broadcast, placeVars
  <2>1. TypeOK'
    BY <1>0, <1>7 DEF Broadcast, Move, placeVars, callVars, userVars, TypeOK, Stages, Over, RequestsOK, WithUser
  <2>2. EnteredOnlyApproved'
    BY <1>0, <1>7, <2>0, SameSetting DEF Broadcast, Move, placeVars, callVars, userVars, EnteredOnlyApproved, TypeOK
  <2>3. AnsweredOnce'
    BY <1>0, <1>7 DEF Broadcast, Move, placeVars, callVars, userVars, AnsweredOnce, ResponseOK, PendingOK, TypeOK, Answers
  <2>4. ResponseOK'
    BY <1>0, <1>7 DEF Broadcast, Move, placeVars, callVars, userVars, ResponseOK, PendingOK, TypeOK, Answers
  <2>5. PendingOK'
    BY <1>0, <1>7 DEF Broadcast, Move, placeVars, callVars, userVars, PendingOK, RequestsOK, TypeOK, Unfiled, WithUser, Over
  <2>6. RequestsOK'
    BY <1>0, <1>7 DEF Broadcast, Move, placeVars, callVars, userVars, RequestsOK, PendingOK, TypeOK, Unfiled, WithUser, Over
  <2>7. AskedOK'
    BY <1>0, <1>7, <2>0, SameSetting DEF Broadcast, Move, placeVars, callVars, userVars, AskedOK, TypeOK, WithUser
  <2> QED
    BY <2>1, <2>2, <2>3, <2>4, <2>5, <2>6, <2>7 DEF ApprovalInv
<1>8. ASSUME NEW k \in Ids, Resume(k) PROVE ApprovalInv'
  <2>0. UNCHANGED setting
    BY <1>8 DEF Resume, placeVars
  <2>1. TypeOK'
    BY <1>0, <1>8 DEF Resume, Move, Enter, placeVars, callVars, userVars, TypeOK, Stages, Over
  <2>2. EnteredOnlyApproved'
    <3>1. stage[k] = "waiting"
      BY <1>8 DEF Resume, Enter, Move
    <3>2. Vetted(k)
      BY <1>0, <3>1 DEF AskedOK, WithUser
    <3>3. response[k] = "yes" => [id |-> k, approved |-> TRUE] \in processed
      BY <1>0 DEF ResponseOK
    <3>4. entered' \subseteq entered \cup {k} /\ processed' = processed
      BY <1>8 DEF Resume, Enter
    <3>5. k \in entered' => k \in entered \/ response[k] = "yes"
      BY <1>8 DEF Resume, Enter
    <3> QED
      BY <1>0, <2>0, <3>2, <3>3, <3>4, <3>5, SameSetting DEF EnteredOnlyApproved, Vetted, TypeOK
  <2>3. AnsweredOnce'
    BY <1>0, <1>8 DEF Resume, Move, Enter, placeVars, callVars, userVars, AnsweredOnce, ResponseOK, PendingOK, TypeOK, Answers
  <2>4. ResponseOK'
    BY <1>0, <1>8 DEF Resume, Move, Enter, placeVars, callVars, userVars, ResponseOK, PendingOK, TypeOK, Answers
  <2>5. PendingOK'
    BY <1>0, <1>8 DEF Resume, Move, Enter, placeVars, callVars, userVars, PendingOK, RequestsOK, TypeOK, Unfiled, WithUser, Over
  <2>6. RequestsOK'
    BY <1>0, <1>8 DEF Resume, Move, Enter, placeVars, callVars, userVars, RequestsOK, PendingOK, TypeOK, Unfiled, WithUser, Over
  <2>7. AskedOK'
    BY <1>0, <1>8, <2>0, SameSetting DEF Resume, Move, Enter, placeVars, callVars, userVars, AskedOK, TypeOK, WithUser
  <2> QED
    BY <2>1, <2>2, <2>3, <2>4, <2>5, <2>6, <2>7 DEF ApprovalInv
<1>9. ASSUME NEW k \in Ids, Timeout(k) PROVE ApprovalInv'
  <2>0. UNCHANGED setting
    BY <1>9 DEF Timeout, placeVars
  <2>1. TypeOK'
    BY <1>0, <1>9 DEF Timeout, Move, placeVars, callVars, userVars, TypeOK, Stages, Over
  <2>2. EnteredOnlyApproved'
    BY <1>0, <1>9, <2>0, SameSetting DEF Timeout, Move, placeVars, callVars, userVars, EnteredOnlyApproved, TypeOK
  <2>3. AnsweredOnce'
    BY <1>0, <1>9 DEF Timeout, Move, placeVars, callVars, userVars, AnsweredOnce, ResponseOK, PendingOK, TypeOK, Answers
  <2>4. ResponseOK'
    BY <1>0, <1>9 DEF Timeout, Move, placeVars, callVars, userVars, ResponseOK, PendingOK, TypeOK, Answers
  <2>5. PendingOK'
    BY <1>0, <1>9 DEF Timeout, Move, placeVars, callVars, userVars, PendingOK, RequestsOK, TypeOK, Unfiled, WithUser, Over
  <2>6. RequestsOK'
    BY <1>0, <1>9 DEF Timeout, Move, placeVars, callVars, userVars, RequestsOK, PendingOK, TypeOK, Unfiled, WithUser, Over
  <2>7. AskedOK'
    BY <1>0, <1>9, <2>0, SameSetting DEF Timeout, Move, placeVars, callVars, userVars, AskedOK, TypeOK, WithUser
  <2> QED
    BY <2>1, <2>2, <2>3, <2>4, <2>5, <2>6, <2>7 DEF ApprovalInv
<1>10. ASSUME NEW k \in Ids, Abandon(k) PROVE ApprovalInv'
  <2>0. UNCHANGED setting
    BY <1>10 DEF Abandon, placeVars
  <2>1. TypeOK'
    BY <1>0, <1>10 DEF Abandon, Move, placeVars, callVars, userVars, TypeOK, Stages, Over
  <2>2. EnteredOnlyApproved'
    BY <1>0, <1>10, <2>0, SameSetting DEF Abandon, Move, placeVars, callVars, userVars, EnteredOnlyApproved, TypeOK
  <2>3. AnsweredOnce'
    BY <1>0, <1>10 DEF Abandon, Move, placeVars, callVars, userVars, AnsweredOnce, ResponseOK, PendingOK, TypeOK, Answers
  <2>4. ResponseOK'
    BY <1>0, <1>10 DEF Abandon, Move, placeVars, callVars, userVars, ResponseOK, PendingOK, TypeOK, Answers
  <2>5. PendingOK'
    BY <1>0, <1>10 DEF Abandon, Move, placeVars, callVars, userVars, PendingOK, RequestsOK, TypeOK, Unfiled, WithUser, Over
  <2>6. RequestsOK'
    BY <1>0, <1>10 DEF Abandon, Move, placeVars, callVars, userVars, RequestsOK, PendingOK, TypeOK, Unfiled, WithUser, Over
  <2>7. AskedOK'
    BY <1>0, <1>10, <2>0, SameSetting DEF Abandon, Move, placeVars, callVars, userVars, AskedOK, TypeOK, WithUser
  <2> QED
    BY <2>1, <2>2, <2>3, <2>4, <2>5, <2>6, <2>7 DEF ApprovalInv
<1>11. ASSUME NEW k \in Ids, Finish(k) PROVE ApprovalInv'
  <2>0. UNCHANGED setting
    BY <1>11 DEF Finish, placeVars
  <2>1. TypeOK'
    BY <1>0, <1>11 DEF Finish, Move, placeVars, callVars, userVars, TypeOK, Stages, Over
  <2>2. EnteredOnlyApproved'
    BY <1>0, <1>11, <2>0, SameSetting DEF Finish, Move, placeVars, callVars, userVars, EnteredOnlyApproved, TypeOK
  <2>3. AnsweredOnce'
    BY <1>0, <1>11 DEF Finish, Move, placeVars, callVars, userVars, AnsweredOnce, ResponseOK, PendingOK, TypeOK, Answers
  <2>4. ResponseOK'
    BY <1>0, <1>11 DEF Finish, Move, placeVars, callVars, userVars, ResponseOK, PendingOK, TypeOK, Answers
  <2>5. PendingOK'
    BY <1>0, <1>11 DEF Finish, Move, placeVars, callVars, userVars, PendingOK, RequestsOK, TypeOK, Unfiled, WithUser, Over
  <2>6. RequestsOK'
    BY <1>0, <1>11 DEF Finish, Move, placeVars, callVars, userVars, RequestsOK, PendingOK, TypeOK, Unfiled, WithUser, Over
  <2>7. AskedOK'
    BY <1>0, <1>11, <2>0, SameSetting DEF Finish, Move, placeVars, callVars, userVars, AskedOK, TypeOK, WithUser
  <2> QED
    BY <2>1, <2>2, <2>3, <2>4, <2>5, <2>6, <2>7 DEF ApprovalInv
<1>12. ASSUME NEW k \in Ids, NEW approved \in BOOLEAN, Answer(k, approved) PROVE ApprovalInv'
  <2>0. UNCHANGED setting
    BY <1>12 DEF Answer, placeVars
  <2>1. TypeOK'
    <3>1. asks' \in [Ids -> Nat] /\ \A j \in Ids : asks'[j] <= MaxAnswers[j]
      BY <1>0, <1>12 DEF Answer, TypeOK
    <3>2. [id |-> k, approved |-> approved] \in Answers
      BY DEF Answers
    <3>3. requests' \in Seq(Answers)
      BY <1>0, <3>2, <1>12 DEF Answer, TypeOK
    <3> QED
      BY <1>0, <3>1, <3>3, <1>12 DEF Answer, placeVars, callVars, TypeOK
  <2>2. EnteredOnlyApproved'
    BY <1>0, <1>12, <2>0, SameSetting DEF Answer, placeVars, callVars, userVars, EnteredOnlyApproved, TypeOK
  <2>3. AnsweredOnce'
    BY <1>0, <1>12 DEF Answer, placeVars, callVars, userVars, AnsweredOnce, ResponseOK, PendingOK, TypeOK, Answers
  <2>4. ResponseOK'
    BY <1>0, <1>12 DEF Answer, placeVars, callVars, userVars, ResponseOK, PendingOK, TypeOK, Answers
  <2>5. PendingOK'
    BY <1>0, <1>12 DEF Answer, placeVars, callVars, userVars, PendingOK, RequestsOK, TypeOK, Unfiled, WithUser, Over
  <2>6. RequestsOK'
    BY <1>0, <1>12 DEF Answer, placeVars, callVars, userVars, RequestsOK, PendingOK, TypeOK, Unfiled, WithUser, Over
  <2>7. AskedOK'
    BY <1>0, <1>12, <2>0, SameSetting DEF Answer, placeVars, callVars, userVars, AskedOK, TypeOK, WithUser
  <2> QED
    BY <2>1, <2>2, <2>3, <2>4, <2>5, <2>6, <2>7 DEF ApprovalInv
<1>13. CASE Approve
  <2>0. UNCHANGED setting
    BY <1>13 DEF Approve, placeVars
  <2>1. TypeOK'
    BY <1>0, <1>13 DEF Approve, placeVars, callVars, userVars, TypeOK, Stages, Over
  <2>2. EnteredOnlyApproved'
    BY <1>0, <1>13, <2>0, SameSetting DEF Approve, placeVars, callVars, userVars, EnteredOnlyApproved, TypeOK
  <2>3. AnsweredOnce'
    BY <1>0, <1>13 DEF Approve, placeVars, callVars, userVars, AnsweredOnce, ResponseOK, PendingOK, TypeOK, Answers
  <2>4. ResponseOK'
    <3> DEFINE h == Head(requests)
    <3>1. h \in Answers /\ h.id \in Ids /\ h.approved \in BOOLEAN
      <4>1. requests \in Seq(Answers) /\ requests # <<>>
        BY <1>0, <1>13 DEF Approve, TypeOK
      <4>2. h \in Answers
        BY <4>1
      <4> HIDE DEF h
      <4> QED
        BY <4>2 DEF Answers
    <3>2. h = [id |-> h.id, approved |-> h.approved]
      BY <3>1 DEF Answers
    <3>3. response[h.id] = "none"
      BY <1>0, <3>1, <1>13 DEF Approve, PendingOK
    <3>4. response' = [response EXCEPT ![h.id] = IF h.approved THEN "yes" ELSE "no"]
      BY <1>13 DEF Approve
    <3>5. processed' = processed \cup {h}
      BY <1>13 DEF Approve
    <3> HIDE DEF h
    <3>6. ASSUME NEW k \in Ids, k = h.id
          PROVE  /\ response'[k] = "yes" => [id |-> k, approved |-> TRUE] \in processed'
                 /\ response'[k] # "none"
      BY <1>0, <3>1, <3>2, <3>4, <3>5, <3>6 DEF TypeOK
    <3>7. ASSUME NEW k \in Ids, k # h.id
          PROVE  response'[k] = response[k]
      BY <1>0, <3>4, <3>7 DEF TypeOK
    <3> QED
      BY <1>0, <3>5, <3>6, <3>7 DEF ResponseOK
  <2>5. PendingOK'
    BY <1>0, <1>13 DEF Approve, placeVars, callVars, userVars, PendingOK, RequestsOK, TypeOK, Unfiled, WithUser, Over
  <2>6. RequestsOK'
    BY <1>0, <1>13 DEF Approve, placeVars, callVars, userVars, RequestsOK, PendingOK, TypeOK, Unfiled, WithUser, Over
  <2>7. AskedOK'
    BY <1>0, <1>13, <2>0, SameSetting DEF Approve, placeVars, callVars, userVars, AskedOK, TypeOK, WithUser
  <2> QED
    BY <2>1, <2>2, <2>3, <2>4, <2>5, <2>6, <2>7 DEF ApprovalInv
<1>14. CASE Refuse
  <2>0. UNCHANGED setting
    BY <1>14 DEF Refuse, placeVars
  <2>1. TypeOK'
    BY <1>0, <1>14 DEF Refuse, placeVars, callVars, userVars, TypeOK, Stages, Over
  <2>2. EnteredOnlyApproved'
    BY <1>0, <1>14, <2>0, SameSetting DEF Refuse, placeVars, callVars, userVars, EnteredOnlyApproved, TypeOK
  <2>3. AnsweredOnce'
    BY <1>0, <1>14 DEF Refuse, placeVars, callVars, userVars, AnsweredOnce, ResponseOK, PendingOK, TypeOK, Answers
  <2>4. ResponseOK'
    BY <1>0, <1>14 DEF Refuse, placeVars, callVars, userVars, ResponseOK, PendingOK, TypeOK, Answers
  <2>5. PendingOK'
    BY <1>0, <1>14 DEF Refuse, placeVars, callVars, userVars, PendingOK, RequestsOK, TypeOK, Unfiled, WithUser, Over
  <2>6. RequestsOK'
    BY <1>0, <1>14 DEF Refuse, placeVars, callVars, userVars, RequestsOK, PendingOK, TypeOK, Unfiled, WithUser, Over
  <2>7. AskedOK'
    BY <1>0, <1>14, <2>0, SameSetting DEF Refuse, placeVars, callVars, userVars, AskedOK, TypeOK, WithUser
  <2> QED
    BY <2>1, <2>2, <2>3, <2>4, <2>5, <2>6, <2>7 DEF ApprovalInv
<1>15. ASSUME NEW t \in Turns, Cancel(t) PROVE ApprovalInv'
  <2>0. UNCHANGED setting
    BY <1>15 DEF Cancel, placeVars
  <2>1. TypeOK'
    BY <1>0, <1>15 DEF Cancel, placeVars, callVars, userVars, TypeOK, Stages, Over
  <2>2. EnteredOnlyApproved'
    BY <1>0, <1>15, <2>0, SameSetting DEF Cancel, placeVars, callVars, userVars, EnteredOnlyApproved, TypeOK
  <2>3. AnsweredOnce'
    BY <1>0, <1>15 DEF Cancel, placeVars, callVars, userVars, AnsweredOnce, ResponseOK, PendingOK, TypeOK, Answers
  <2>4. ResponseOK'
    BY <1>0, <1>15 DEF Cancel, placeVars, callVars, userVars, ResponseOK, PendingOK, TypeOK, Answers
  <2>5. PendingOK'
    BY <1>0, <1>15 DEF Cancel, placeVars, callVars, userVars, PendingOK, RequestsOK, TypeOK, Unfiled, WithUser, Over
  <2>6. RequestsOK'
    BY <1>0, <1>15 DEF Cancel, placeVars, callVars, userVars, RequestsOK, PendingOK, TypeOK, Unfiled, WithUser, Over
  <2>7. AskedOK'
    BY <1>0, <1>15, <2>0, SameSetting DEF Cancel, placeVars, callVars, userVars, AskedOK, TypeOK, WithUser
  <2> QED
    BY <2>1, <2>2, <2>3, <2>4, <2>5, <2>6, <2>7 DEF ApprovalInv
<1>16. CASE UNCHANGED vars
  <2>0. UNCHANGED setting
    BY <1>16 DEF vars, placeVars, vars
  <2>1. TypeOK'
    BY <1>0, <1>16 DEF vars, placeVars, callVars, userVars, TypeOK, Stages, Over
  <2>2. EnteredOnlyApproved'
    BY <1>0, <1>16, <2>0, SameSetting DEF vars, placeVars, callVars, userVars, EnteredOnlyApproved, TypeOK
  <2>3. AnsweredOnce'
    BY <1>0, <1>16 DEF vars, placeVars, callVars, userVars, AnsweredOnce, ResponseOK, PendingOK, TypeOK, Answers
  <2>4. ResponseOK'
    BY <1>0, <1>16 DEF vars, placeVars, callVars, userVars, ResponseOK, PendingOK, TypeOK, Answers
  <2>5. PendingOK'
    BY <1>0, <1>16 DEF vars, placeVars, callVars, userVars, PendingOK, RequestsOK, TypeOK, Unfiled, WithUser, Over
  <2>6. RequestsOK'
    BY <1>0, <1>16 DEF vars, placeVars, callVars, userVars, RequestsOK, PendingOK, TypeOK, Unfiled, WithUser, Over
  <2>7. AskedOK'
    BY <1>0, <1>16, <2>0, SameSetting DEF vars, placeVars, callVars, userVars, AskedOK, TypeOK, WithUser
  <2> QED
    BY <2>1, <2>2, <2>3, <2>4, <2>5, <2>6, <2>7 DEF ApprovalInv
<1> QED
  BY <1>1, <1>2, <1>3, <1>4, <1>5, <1>6, <1>7, <1>8, <1>9, <1>10, <1>11, <1>12, <1>13, <1>14, <1>15, <1>16 DEF Next, Worker, EnvActor

-----------------------------------------------------------------------------
\* ApprovalInv is an inductive invariant.
THEOREM ApprovalInvariant == Spec => []ApprovalInv
  BY InitApproval, StepApproval, PTL DEF Spec

\* Type correctness.
THEOREM TypeCorrect == Spec => []TypeOK
<1>1. ApprovalInv => TypeOK
  BY DEF ApprovalInv
<1> QED
  BY <1>1, ApprovalInvariant, PTL

\* No tool is entered that a rule of the policy forbids, or that leaves the zone
\* without the user's "yes".
THEOREM NothingUnapproved == Spec => []EnteredOnlyApproved
<1>1. ApprovalInv => EnteredOnlyApproved
  BY DEF ApprovalInv
<1> QED
  BY <1>1, ApprovalInvariant, PTL

\* Of the answers to one call at most one is processed.
THEOREM OneAnswer == Spec => []AnsweredOnce
<1>1. ApprovalInv => AnsweredOnce
  BY DEF ApprovalInv
<1> QED
  BY <1>1, ApprovalInvariant, PTL

\* No first answer is refused while its call waits.
THEOREM EarlyAnswersCount == Spec => NoEarlyRefusal
<1> DEFINE A == \A k \in Ids : Refuse /\ Head(requests).id = k =>
                  response[k] # "none" \/ stage[k] \in Over
<1>1. ApprovalInv /\ [Next]_vars => [A]_vars
  <2> SUFFICES ASSUME ApprovalInv, Refuse, NEW k \in Ids, Head(requests).id = k,
                      response[k] = "none"
               PROVE  stage[k] \in Over
    OBVIOUS
  <2>1. k \in known /\ k \notin pending
    <3>1. requests # <<>> /\ requests \in Seq(Answers)
      BY DEF Refuse, ApprovalInv, TypeOK
    <3>2. 1 \in DOMAIN requests /\ Head(requests) = requests[1]
      BY <3>1
    <3> QED
      BY <3>2 DEF Refuse, ApprovalInv, RequestsOK
  <2>2. stage[k] \notin Unfiled \cup WithUser
    BY <2>1 DEF ApprovalInv, RequestsOK, PendingOK, Unfiled, WithUser
  <2>3. stage[k] # "running"
    BY <2>1 DEF ApprovalInv, TypeOK, PendingOK
  <2> QED
    BY <2>2, <2>3 DEF ApprovalInv, TypeOK, Stages, Over, Unfiled, WithUser
<1> QED
  BY <1>1, ApprovalInvariant, PTL DEF Spec, NoEarlyRefusal
=============================================================================
