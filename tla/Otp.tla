-------------------------------- MODULE Otp ---------------------------------
(***************************************************************************)
(* One-time codes for one phone: the otp_codes rows, the Redis counter     *)
(* otp:phone:<phone> that limits them, their delivery jobs, and the        *)
(* requests that send and verify them, one step per await.  Time is a      *)
(* countdown in ticks.                                                     *)
(***************************************************************************)
EXTENDS Naturals, Sequences, FiniteSets

CONSTANTS Clients,          \* requests being served at once
          MaxPerHour,       \* config.otp.maxPerPhonePerHour
          MaxAttempts,      \* config.otp.maxAttempts
          CodeTTL,          \* config.otp.expiresInMinutes, in ticks
          WindowTTL,        \* lifetime of the counter
          MaxCodes,         \* bound: rows created
          MaxDeaths         \* bound: requests that die half-way

ASSUME OtpAssumption ==
    /\ {MaxPerHour, MaxAttempts, CodeTTL, WindowTTL} \subseteq Nat \ {0}
    /\ {MaxCodes, MaxDeaths} \subseteq Nat
    /\ IsFiniteSet(Clients)

VARIABLES codes,    \* otp_codes, in the order of created_at, with their delivery jobs
          counter,  \* otp:phone: its count (0 = no such key) and its ticks left
          client,   \* the request in each slot
          issued,   \* history: rows created since the counter's key was created
          raced,    \* history: a verification has written attempts over another's
          orphaned, \* history: a request has died between INCR and EXPIRE
          deaths    \* requests that died

otpVars == <<codes, counter, client, issued, raced, orphaned, deaths>>

\* left: ticks until expires_at, and 0 once isUsed is set; sent: by its delivery job;
\* guesses is history: the comparisons that were made.
Code == [left : 0..CodeTTL, attempts : Nat, sent : BOOLEAN, guesses : Nat]

NewCode == [left |-> CodeTTL, attempts |-> 0, sent |-> FALSE, guesses |-> 0]

\* WindowTTL + 1 ticks left stand for a key without a lifetime.
Forever == WindowTTL + 1

ClientSteps == {"idle", "expire", "limit", "discard", "create", "count", "compare", "use"}

\* number: the counter's value the request got, or the row it works on; read: the
\* attempts it read there; late is history: the counter has started anew since.
Client == [at : ClientSteps, number : Nat, read : Nat, late : BOOLEAN]

NoClient == [at |-> "idle", number |-> 0, read |-> 0, late |-> FALSE]

ClientGoes(c, step) == client' = [client EXCEPT ![c].at = step]
ClientDone(c) == client' = [client EXCEPT ![c] = NoClient]

\* Codes that verifyOtp would find.
Live == {i \in DOMAIN codes : codes[i].left > 0}

-----------------------------------------------------------------------------
OtpInit ==
    /\ codes = <<>>
    /\ counter = [count |-> 0, left |-> 0]
    /\ client = [c \in Clients |-> NoClient]
    /\ issued = 0
    /\ raced = FALSE
    /\ orphaned = FALSE
    /\ deaths = 0

(* sendOtp *)

\* checkOtpRateLimit: INCR creates the key, without a lifetime, or counts it up.
Incr(c) ==
    /\ client[c].at = "idle"
    /\ counter.count <= MaxPerHour     \* bound: what exceeds the limit once more is refused too
    /\ IF counter.count = 0
       THEN /\ counter' = [count |-> 1, left |-> Forever]
            /\ client' = [d \in Clients |->
                            IF d = c THEN [NoClient EXCEPT !.at = "expire", !.number = 1]
                            ELSE [client[d] EXCEPT !.late = client[d].at # "idle"]]
            /\ issued' = 0
       ELSE /\ counter' = [counter EXCEPT !.count = @ + 1]
            /\ client' = [client EXCEPT ![c] = [NoClient EXCEPT !.at = "limit",
                                                               !.number = counter.count + 1]]
            /\ UNCHANGED issued
    /\ UNCHANGED <<codes, raced, orphaned, deaths>>

\* Mutant: the lifetime is left to somebody else.
ExpireNothing(c) ==
    /\ client[c].at = "expire"
    /\ ClientGoes(c, "limit")
    /\ UNCHANGED <<codes, counter, issued, raced, orphaned, deaths>>

\* EXPIRE, by the request that counted to 1.
Expire(c) ==
    /\ client[c].at = "expire"
    /\ counter' = [counter EXCEPT !.left = WindowTTL]
    /\ ClientGoes(c, "limit")
    /\ UNCHANGED <<codes, issued, raced, orphaned, deaths>>

\* Mutant: the counter is read again instead of keeping INCR's answer.
LimitByGuess(c) ==
    /\ client[c].at = "limit"
    /\ \/ client[c].number <= MaxPerHour + 1 /\ ClientGoes(c, "discard")
       \/ ClientDone(c)
    /\ UNCHANGED <<codes, counter, issued, raced, orphaned, deaths>>

\* Over the limit the request is refused; the limit for all phones may refuse it too.
Limit(c) ==
    /\ client[c].at = "limit"
    /\ \/ client[c].number <= MaxPerHour /\ ClientGoes(c, "discard")
       \/ ClientDone(c)
    /\ UNCHANGED <<codes, counter, issued, raced, orphaned, deaths>>

\* Mutant: the codes sent before stay valid.
DiscardNothing(c) ==
    /\ client[c].at = "discard"
    /\ ClientGoes(c, "create")
    /\ UNCHANGED <<codes, counter, issued, raced, orphaned, deaths>>

\* The UPDATE that marks what is still live as used.
Discard(c) ==
    /\ client[c].at = "discard"
    /\ codes' = [i \in DOMAIN codes |-> [codes[i] EXCEPT !.left = 0]]
    /\ ClientGoes(c, "create")
    /\ UNCHANGED <<counter, issued, raced, orphaned, deaths>>

\* The INSERT; the delivery job is enqueued with it.
Create(c) ==
    /\ client[c].at = "create" /\ Len(codes) < MaxCodes
    /\ codes' = Append(codes, NewCode)
    /\ issued' = IF client[c].late THEN issued ELSE issued + 1
    /\ ClientDone(c)
    /\ UNCHANGED <<counter, raced, orphaned, deaths>>

\* processOtpDelivery: WhatsApp, then SMS.  A job that fails at all its attempts never
\* takes this step.
Deliver(i) ==
    /\ ~codes[i].sent
    /\ codes' = [codes EXCEPT ![i].sent = TRUE]
    /\ UNCHANGED <<counter, client, issued, raced, orphaned, deaths>>

(* verifyOtp *)

\* The newest of the live codes.
Latest(i) == i \in Live /\ \A j \in Live : j <= i

\* The row is read, its attempts with it.
Found(c, i) ==
    client' = [client EXCEPT ![c] = [at |-> "count", number |-> i, late |-> FALSE,
                                     read |-> codes[i].attempts]]

\* Mutant: the attempts are not looked at.
LookPast(c) ==
    /\ client[c].at = "idle"
    /\ \E i \in Live : Latest(i) /\ Found(c, i)
    /\ UNCHANGED <<codes, counter, issued, raced, orphaned, deaths>>

\* The latest live code is read; it must have attempts left.
Look(c) ==
    /\ client[c].at = "idle"
    /\ \E i \in Live : Latest(i) /\ codes[i].attempts < MaxAttempts /\ Found(c, i)
    /\ UNCHANGED <<codes, counter, issued, raced, orphaned, deaths>>

\* What was read is written back, plus one.
Count(c) ==
    /\ client[c].at = "count"
    /\ codes' = [codes EXCEPT ![client[c].number].attempts = client[c].read + 1]
    /\ raced' = (raced \/ codes[client[c].number].attempts # client[c].read)
    /\ ClientGoes(c, "compare")
    /\ UNCHANGED <<counter, issued, orphaned, deaths>>

\* Only who has been sent the code types it right.
Compare(c) ==
    /\ client[c].at = "compare"
    /\ codes' = [codes EXCEPT ![client[c].number].guesses = @ + 1]
    /\ \/ codes[client[c].number].sent /\ ClientGoes(c, "use")
       \/ ClientDone(c)
    /\ UNCHANGED <<counter, issued, raced, orphaned, deaths>>

\* The row is marked used, and the caller goes on to log the phone's user in.
Use(c) ==
    /\ client[c].at = "use"
    /\ codes' = [codes EXCEPT ![client[c].number].left = 0]
    /\ ClientDone(c)
    /\ UNCHANGED <<counter, issued, raced, orphaned, deaths>>

-----------------------------------------------------------------------------
\* A request fails on Redis or the database, or its process dies.
Die(c) ==
    /\ client[c].at # "idle" /\ deaths < MaxDeaths
    /\ deaths' = deaths + 1
    /\ orphaned' = (orphaned \/ client[c].at = "expire")
    /\ ClientDone(c)
    /\ UNCHANGED <<codes, counter, issued, raced>>

\* One tick: codes expire, and the counter lapses if it has a lifetime.
OtpTick ==
    /\ codes' = [i \in DOMAIN codes |-> [codes[i] EXCEPT !.left = IF @ = 0 THEN 0 ELSE @ - 1]]
    /\ counter' = IF counter.left \in {0, Forever} THEN counter
                  ELSE IF counter.left = 1 THEN [count |-> 0, left |-> 0]
                  ELSE [counter EXCEPT !.left = @ - 1]
    /\ UNCHANGED <<client, issued, raced, orphaned, deaths>>

OtpNext ==
    \/ \E c \in Clients :
          \/ Incr(c) \/ Expire(c) \/ Limit(c) \/ Discard(c) \/ Create(c)
          \/ Look(c) \/ Count(c) \/ Compare(c) \/ Use(c)
          \/ Die(c)
    \/ \E i \in DOMAIN codes : Deliver(i)
    \/ OtpTick

OtpSpec == OtpInit /\ [][OtpNext]_otpVars

-----------------------------------------------------------------------------
(* Properties *)

\* Rows, counter and requests keep their types.
OtpTypeOK ==
    /\ codes \in Seq(Code) /\ Len(codes) <= MaxCodes
    /\ counter \in [count : 0..MaxPerHour + 1, left : 0..Forever]
    /\ client \in [Clients -> Client]
    /\ issued \in Nat /\ raced \in BOOLEAN /\ orphaned \in BOOLEAN /\ deaths \in 0..MaxDeaths

\* Of the requests counted by one life of the counter's key at most MaxPerHour create a
\* code, however they overlap: each goes by the answer of its own INCR.
RateLimitHolds == issued <= MaxPerHour

\* A counter without a lifetime locks the phone out for good.  It is that of a request
\* between INCR and EXPIRE, or of one that died just there, and then it stays so: no other
\* death, and nothing that overlaps, leaves it without a lifetime, or gives it one back.
CounterLapses ==
    counter.left = Forever <=> orphaned \/ \E c \in Clients : client[c].at = "expire"

\* Overlapping resends may leave several codes valid, each having discarded before the
\* other inserts, but not more than requests that overlap.
LiveCodesAreBounded ==
    Cardinality(Live) + Cardinality({c \in Clients : client[c].at = "create"})
    <= Cardinality(Clients)

\* The attempts on a code are limited, unless two verifications wrote one count over
\* the other's.
AttemptsAreLimited == ~raced => \A i \in DOMAIN codes : codes[i].guesses <= MaxAttempts
=============================================================================
