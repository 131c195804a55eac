---------------------------- MODULE Notifications ---------------------------
(***************************************************************************)
(* One notification of one user: its row in his inbox, the push job, and   *)
(* the user's device_tokens rows, which his apps change while the job is   *)
(* sending.  Firebase is external: a send succeeds, reports the token      *)
(* invalid, or fails otherwise.                                            *)
(***************************************************************************)
EXTENDS Naturals

CONSTANTS Devices,      \* device_tokens rows
          PushAttempts, \* config.jobs.notification.attempts
          MaxRefreshes  \* bound: tokens a row gets after its first one

ASSUME PushAssumption == PushAttempts \in Nat \ {0} /\ MaxRefreshes \in Nat

VARIABLES inbox,    \* the notification: "none", "unread" or "read"
          push,     \* its job
          device,   \* each row: whose it is, and its token's number
          alive,    \* rows whose app is installed: their present token is good
          sent,     \* history: messages each row's device has got
          stalled   \* history: a worker died and the job was handed out again

pushVars == <<inbox, push, device, alive, sent, stalled>>

Device == [owner : {"none", "mine", "other", "deleted"}, token : 0..MaxRefreshes]

\* todo: the rows still to be sent to; tokens: every row found and the token it had then;
\* bad: rows whose token was refused.
Push == [at : {"none", "waiting", "sending", "done", "failed"}, attempts : 0..PushAttempts,
         todo : SUBSET Devices, bad : SUBSET Devices,
         found : SUBSET Devices, tokens : [Devices -> 0..MaxRefreshes]]

NoPush == [at |-> "none", attempts |-> 0, todo |-> {}, bad |-> {}, found |-> {},
           tokens |-> [d \in Devices |-> 0]]

Mine == {d \in Devices : device[d].owner = "mine"}

\* Whether the token that the job has read for d is still d's and good.
Good(d) == d \in alive /\ push.tokens[d] = device[d].token

-----------------------------------------------------------------------------
PushInit ==
    /\ inbox = "none"
    /\ push = NoPush
    /\ device = [d \in Devices |-> [owner |-> "none", token |-> 0]]
    /\ alive = Devices
    /\ sent = [d \in Devices |-> 0]
    /\ stalled = FALSE

(* Device tokens *)

\* registerToken: a new row, or the row of this token taken over from another user.
RegisterDevice(d) ==
    /\ d \in alive /\ device[d].owner \in {"none", "other"}
    /\ device' = [device EXCEPT ![d].owner = "mine"]
    /\ UNCHANGED <<inbox, push, alive, sent, stalled>>

\* unregisterToken, or registerToken by another user of the same device.
ReleaseDevice(d) ==
    /\ d \in Mine
    /\ \E owner \in {"deleted", "other"} : device' = [device EXCEPT ![d].owner = owner]
    /\ UNCHANGED <<inbox, push, alive, sent, stalled>>

\* refreshToken: the row gets the new token; the old one is good for nothing.
RefreshDevice(d) ==
    /\ d \in Mine /\ d \in alive /\ device[d].token < MaxRefreshes
    /\ device' = [device EXCEPT ![d].token = @ + 1]
    /\ UNCHANGED <<inbox, push, alive, sent, stalled>>

\* External: the app is removed, and nobody tells the server.
Uninstall(d) ==
    /\ alive' = alive \ {d}
    /\ UNCHANGED <<inbox, push, device, sent, stalled>>

(* The notification *)

\* send: the row is created; the job may fail to be enqueued, which is only logged.
Send ==
    /\ inbox = "none"
    /\ inbox' = "unread"
    /\ \/ push' = [push EXCEPT !.at = "waiting"]
       \/ UNCHANGED push
    /\ UNCHANGED <<device, alive, sent, stalled>>

\* markAsRead and markAllAsRead
MarkRead ==
    /\ inbox = "unread"
    /\ inbox' = "read"
    /\ UNCHANGED <<push, device, alive, sent, stalled>>

(* The job *)

\* processNotification reads the user's rows; with none there is nothing to do.
StartPush ==
    /\ push.at = "waiting"
    /\ push' = [push EXCEPT !.at = IF Mine = {} THEN "done" ELSE "sending",
                            !.todo = Mine, !.found = Mine, !.bad = {},
                            !.tokens = [d \in Devices |-> device[d].token]]
    /\ UNCHANGED <<inbox, device, alive, sent, stalled>>

\* One device is sent to, or its token refused.
SendTo(d) ==
    /\ push.at = "sending" /\ d \in push.todo
    /\ IF Good(d)
       THEN /\ push' = [push EXCEPT !.todo = @ \ {d}]
            /\ sent' = [sent EXCEPT ![d] = @ + 1]
       ELSE /\ push' = [push EXCEPT !.todo = @ \ {d}, !.bad = @ \cup {d}]
            /\ UNCHANGED sent
    /\ UNCHANGED <<inbox, device, alive, stalled>>

\* Mutant: whatever the failure, the loop goes on.
SendSwallows(d) ==
    /\ push.at = "sending" /\ d \in push.todo
    /\ push' = [push EXCEPT !.todo = @ \ {d}]
    /\ UNCHANGED <<inbox, device, alive, sent, stalled>>

\* Another failure ends the attempt: what was sent will be sent again, and what was
\* refused is not removed.
SendFails(d) ==
    /\ push.at = "sending" /\ d \in push.todo
    /\ push' = [NoPush EXCEPT !.attempts = push.attempts + 1,
                              !.at = IF push.attempts + 1 < PushAttempts
                                     THEN "waiting" ELSE "failed"]
    /\ UNCHANGED <<inbox, device, alive, sent, stalled>>

\* The refused rows are removed by their ids, whoever they belong to by now and whatever
\* token they hold.
FinishPush ==
    /\ push.at = "sending" /\ push.todo = {}
    /\ push' = [push EXCEPT !.at = "done"]
    /\ device' = [d \in Devices |-> IF d \in push.bad
                                    THEN [device[d] EXCEPT !.owner = "deleted"] ELSE device[d]]
    /\ UNCHANGED <<inbox, alive, sent, stalled>>

\* The worker dies: BullMQ hands the job out once more without counting an attempt.
Stall ==
    /\ push.at = "sending"
    /\ push' = [NoPush EXCEPT !.attempts = push.attempts,
                              !.at = IF stalled THEN "failed" ELSE "waiting"]
    /\ stalled' = TRUE
    /\ UNCHANGED <<inbox, device, alive, sent>>

PushNext ==
    \/ \E d \in Devices :
          \/ RegisterDevice(d) \/ ReleaseDevice(d) \/ RefreshDevice(d) \/ Uninstall(d)
          \/ SendTo(d) \/ SendFails(d)
    \/ Send \/ MarkRead
    \/ StartPush \/ FinishPush \/ Stall

PushSpec == PushInit /\ [][PushNext]_pushVars

-----------------------------------------------------------------------------
(* Properties *)

\* The notification, its job and the rows keep their types.
PushTypeOK ==
    /\ inbox \in {"none", "unread", "read"}
    /\ push \in Push
    /\ device \in [Devices -> Device]
    /\ alive \subseteq Devices
    /\ sent \in [Devices -> Nat]
    /\ stalled \in BOOLEAN

\* When the job is done, every device it found when it last started has got the message or
\* has had its token refused, though earlier attempts stopped half-way.
DonePushReachedAll ==
    push.at = "done" => \A d \in push.found : sent[d] > 0 \/ d \in push.bad
=============================================================================
