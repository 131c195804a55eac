----------------------------- MODULE OtpProofs ------------------------------
(***************************************************************************)
(* What holds of the one-time codes and of the offer cooldown, which both  *)
(* rest on keys in Redis, for any limits, lifetimes and number of          *)
(* requests.                                                               *)
(***************************************************************************)
EXTENDS Otp, OfferCooldown, FiniteSetTheorems, SequenceTheorems, TLAPS

\* Requests that the present life of the counter lets create a code.
Entitled ==
    {c \in Clients : /\ ~client[c].late
                     /\ \/ client[c].at \in {"expire", "discard", "create"}
                        \/ client[c].at = "limit" /\ client[c].number <= MaxPerHour}

Creators == {c \in Clients : client[c].at = "create"}

\* Requests that have counted an attempt on row i and not yet compared.
Guessing(i) == {c \in Clients : client[c].at = "compare" /\ client[c].number = i}

\* What was issued and may yet be issued is within the limit, and, while the key is there,
\* within what it has counted.
EntitledAreFew ==
    /\ \A c \in Clients : client[c].at = "expire" => client[c].number = 1
    /\ issued + Cardinality(Entitled) <= MaxPerHour
    /\ counter.count = 0 \/ issued + Cardinality(Entitled) <= counter.count

\* Whoever works on a row works on one that exists, and had attempts left.
RowsExist ==
    \A c \in Clients :
        /\ client[c].at \in {"count", "compare", "use"} => client[c].number \in DOMAIN codes
        /\ client[c].at = "count" => client[c].read < MaxAttempts

\* Unless counts were overwritten, each guess made or due has been counted.
GuessesAreCounted ==
    ~raced => \A i \in DOMAIN codes :
        /\ codes[i].attempts <= MaxAttempts
        /\ codes[i].guesses + Cardinality(Guessing(i)) <= codes[i].attempts

\* One request at a time, the one that created the key, is to give it its lifetime.
CounterIsSettled ==
    /\ CounterLapses
    /\ counter.count = 0 => counter.left = 0
    /\ \A c \in Clients : client[c].at = "expire" =>
          ~orphaned /\ \A d \in Clients \ {c} : client[d].at # "expire"

OtpInv ==
    /\ OtpTypeOK /\ EntitledAreFew /\ CounterIsSettled /\ LiveCodesAreBounded
    /\ RowsExist /\ GuessesAreCounted

-----------------------------------------------------------------------------
(* Sets of requests and of codes *)

LEMMA Limits ==
    /\ MaxPerHour \in Nat \ {0} /\ MaxAttempts \in Nat \ {0}
    /\ CodeTTL \in Nat \ {0} /\ WindowTTL \in Nat \ {0}
    /\ MaxCodes \in Nat /\ MaxDeaths \in Nat /\ IsFiniteSet(Clients)
    /\ Forever = WindowTTL + 1
BY OtpAssumption DEF Forever

LEMMA ClientSets ==
    \A S \in SUBSET Clients :
        /\ IsFiniteSet(S) /\ Cardinality(S) \in Nat /\ Cardinality(S) <= Cardinality(Clients)
        /\ \A T \in SUBSET S : Cardinality(T) <= Cardinality(S)
        /\ \A c \in Clients : /\ Cardinality(S \cup {c}) <= Cardinality(S) + 1
                              /\ c \in S => Cardinality(S \ {c}) = Cardinality(S) - 1
<1> SUFFICES ASSUME NEW S \in SUBSET Clients
             PROVE /\ IsFiniteSet(S) /\ Cardinality(S) \in Nat
                   /\ Cardinality(S) <= Cardinality(Clients)
                   /\ \A T \in SUBSET S : Cardinality(T) <= Cardinality(S)
                   /\ \A c \in Clients :
                        /\ Cardinality(S \cup {c}) <= Cardinality(S) + 1
                        /\ c \in S => Cardinality(S \ {c}) = Cardinality(S) - 1
  OBVIOUS
<1>1. IsFiniteSet(S) /\ Cardinality(S) <= Cardinality(Clients)
  BY Limits, FS_Subset
<1>2. Cardinality(S) \in Nat
  BY <1>1, FS_CardinalityType
<1>3. \A T \in SUBSET S : Cardinality(T) <= Cardinality(S)
  BY <1>1, FS_Subset
<1>4. \A c \in Clients : Cardinality(S \cup {c}) <= Cardinality(S) + 1
  BY <1>1, <1>2, FS_AddElement
<1>5. \A c \in Clients : c \in S => Cardinality(S \ {c}) = Cardinality(S) - 1
  BY <1>1, FS_RemoveElement
<1> QED BY <1>1, <1>2, <1>3, <1>4, <1>5

LEMMA RequestSets ==
    /\ Entitled \subseteq Clients /\ Creators \subseteq Clients
    /\ \A i : Guessing(i) \subseteq Clients
BY DEF Entitled, Creators, Guessing

LEMMA LiveSets ==
    ASSUME codes \in Seq(Code)
    PROVE  /\ Live \subseteq 1..Len(codes) /\ IsFiniteSet(Live) /\ Cardinality(Live) \in Nat
           /\ \A T \in SUBSET Live : /\ IsFiniteSet(T) /\ Cardinality(T) \in Nat
                                   /\ Cardinality(T) <= Cardinality(Live)
<1>1. Len(codes) \in Nat /\ DOMAIN codes = 1..Len(codes)
  OBVIOUS
<1>2. Live \subseteq 1..Len(codes)
  BY <1>1 DEF Live
<1>3. IsFiniteSet(1..Len(codes))
  BY <1>1, FS_Interval
<1>4. IsFiniteSet(Live)
  BY <1>2, <1>3, FS_Subset
<1> QED BY <1>2, <1>4, FS_CardinalityType, FS_Subset

\* One request changes.
LEMMA ClientBecomes ==
    ASSUME client \in [Clients -> Client], NEW c \in Clients, NEW new \in Client,
           client' = [client EXCEPT ![c] = new]
    PROVE  /\ client' \in [Clients -> Client] /\ client'[c] = new
           /\ \A d \in Clients \ {c} : client'[d] = client[d]
OBVIOUS

LEMMA ClientMoves ==
    ASSUME client \in [Clients -> Client], NEW c \in Clients, NEW step \in ClientSteps,
           ClientGoes(c, step)
    PROVE  /\ client' \in [Clients -> Client]
           /\ client'[c].at = step /\ client'[c].number = client[c].number
           /\ client'[c].read = client[c].read /\ client'[c].late = client[c].late
           /\ \A d \in Clients \ {c} : client'[d] = client[d]
<1> DEFINE new == [client[c] EXCEPT !.at = step]
<1>1. client[c] \in Client
  OBVIOUS
<1>2. /\ new \in Client /\ new.at = step /\ new.number = client[c].number
      /\ new.read = client[c].read /\ new.late = client[c].late
  BY <1>1 DEF Client
<1>3. client' = [client EXCEPT ![c] = new]
  BY DEF ClientGoes
<1> HIDE DEF new
<1> QED BY <1>2, <1>3

LEMMA ClientEnds ==
    ASSUME client \in [Clients -> Client], NEW c \in Clients, ClientDone(c)
    PROVE  /\ client' \in [Clients -> Client] /\ client'[c].at = "idle"
           /\ \A d \in Clients \ {c} : client'[d] = client[d]
<1>1. NoClient \in Client /\ NoClient.at = "idle"
  BY DEF NoClient, Client, ClientSteps
<1> QED BY <1>1, ClientBecomes DEF ClientDone

\* One row changes.
LEMMA RowBecomes ==
    ASSUME codes \in Seq(Code), NEW i \in DOMAIN codes, NEW row \in Code,
           codes' = [codes EXCEPT ![i] = row]
    PROVE  /\ codes' \in Seq(Code) /\ Len(codes') = Len(codes) /\ DOMAIN codes' = DOMAIN codes
           /\ codes'[i] = row /\ \A j \in DOMAIN codes \ {i} : codes'[j] = codes[j]
OBVIOUS

-----------------------------------------------------------------------------
(* What leaves each part of the invariant alone *)

\* No request becomes entitled, and the counter is only left or lapses.
LEMMA EntitledShrinks ==
    ASSUME OtpTypeOK, EntitledAreFew, issued' = issued,
           counter'.count = counter.count \/ counter'.count = 0,
           Entitled' \subseteq Entitled,
           \A c \in Clients : client'[c].at = "expire" =>
               client[c].at = "expire" /\ client'[c].number = client[c].number
    PROVE  EntitledAreFew'
<1>1. /\ Cardinality(Entitled) \in Nat /\ Cardinality(Entitled') \in Nat
      /\ Cardinality(Entitled') <= Cardinality(Entitled)
  BY ClientSets, RequestSets
<1>2. issued \in Nat /\ MaxPerHour \in Nat /\ counter.count \in Nat
  BY Limits DEF OtpTypeOK
<1> QED BY <1>1, <1>2 DEF EntitledAreFew

LEMMA LiveShrinks ==
    ASSUME OtpTypeOK, LiveCodesAreBounded,
           Live' \subseteq Live, Creators' \subseteq Creators
    PROVE  LiveCodesAreBounded'
<1>1. /\ Cardinality(Creators) \in Nat /\ Cardinality(Creators') \in Nat
      /\ Cardinality(Creators') <= Cardinality(Creators)
      /\ Cardinality(Clients) \in Nat
  BY ClientSets, RequestSets
<1>2. /\ Cardinality(Live) \in Nat /\ Cardinality(Live') \in Nat
      /\ Cardinality(Live') <= Cardinality(Live)
  BY LiveSets DEF OtpTypeOK
<1> QED BY <1>1, <1>2 DEF LiveCodesAreBounded, Creators

\* The counter stays, and nobody comes to or leaves the step between INCR and EXPIRE.
LEMMA StaysSettled ==
    ASSUME CounterIsSettled, UNCHANGED <<counter, orphaned>>,
           \A c \in Clients : client'[c].at = "expire" <=> client[c].at = "expire"
    PROVE  CounterIsSettled'
BY DEF CounterIsSettled, CounterLapses

\* The rows keep their counts, and nobody is about to compare who was not.
LEMMA GuessesShrink ==
    ASSUME OtpTypeOK, GuessesAreCounted, raced' = raced, DOMAIN codes' = DOMAIN codes,
           \A i \in DOMAIN codes : /\ codes'[i].attempts = codes[i].attempts
                                   /\ codes'[i].guesses = codes[i].guesses
                                   /\ Guessing(i)' \subseteq Guessing(i)
    PROVE  GuessesAreCounted'
<1> SUFFICES ASSUME ~raced, NEW i \in DOMAIN codes
             PROVE /\ codes'[i].attempts <= MaxAttempts
                   /\ codes'[i].guesses + Cardinality(Guessing(i)') <= codes'[i].attempts
  BY DEF GuessesAreCounted
<1>1. /\ Cardinality(Guessing(i)) \in Nat /\ Cardinality(Guessing(i)') \in Nat
      /\ Cardinality(Guessing(i)') <= Cardinality(Guessing(i))
  BY ClientSets, RequestSets
<1>2. codes[i] \in Code
  BY DEF OtpTypeOK
<1>3. codes[i].guesses \in Nat /\ codes[i].attempts \in Nat
  BY <1>2 DEF Code
<1> QED BY <1>1, <1>3 DEF GuessesAreCounted

-----------------------------------------------------------------------------
(* sendOtp *)

\* A request ends, or goes on to discard, and neither rows nor counter change.
LEMMA MovesInv ==
    ASSUME OtpInv, NEW c \in Clients, client' \in [Clients -> Client],
           \A d \in Clients \ {c} : client'[d] = client[d],
           client'[c].at \in {"idle", "discard"},
           client'[c].at = "discard" /\ ~client'[c].late => c \in Entitled,
           UNCHANGED <<codes, counter, issued, raced>>,
           orphaned' \in BOOLEAN, deaths' \in 0..MaxDeaths, CounterIsSettled'
    PROVE  OtpInv'
<1> USE DEF OtpInv
<1>1. OtpTypeOK'
  BY DEF OtpTypeOK
<1>2. /\ Creators' \subseteq Creators /\ Live' = Live
      /\ \A i : Guessing(i)' \subseteq Guessing(i)
  BY DEF Creators, Guessing, Live
<1>3. EntitledAreFew'
  <2>1. Entitled' \subseteq Entitled
    BY DEF Entitled
  <2>2. \A d \in Clients : client'[d].at = "expire" =>
               client[d].at = "expire" /\ client'[d].number = client[d].number
    OBVIOUS
  <2> QED BY <2>1, <2>2, EntitledShrinks
<1>4. LiveCodesAreBounded'
  BY <1>2, LiveShrinks
<1>5. RowsExist'
  BY DEF RowsExist
<1>6. GuessesAreCounted'
  BY <1>2, GuessesShrink
<1> QED BY <1>1, <1>3, <1>4, <1>5, <1>6

LEMMA LimitInv == ASSUME OtpInv, NEW c \in Clients, Limit(c) PROVE OtpInv'
<1>0. /\ client \in [Clients -> Client] /\ client[c].at = "limit" /\ CounterIsSettled
      /\ orphaned' \in BOOLEAN /\ deaths' \in 0..MaxDeaths
      /\ UNCHANGED <<codes, counter, issued, raced, orphaned>>
  BY Limits DEF OtpInv, OtpTypeOK, Limit
<1>1. CASE ClientDone(c)
  <2>1. /\ client' \in [Clients -> Client] /\ client'[c].at = "idle"
        /\ \A d \in Clients \ {c} : client'[d] = client[d]
    BY <1>0, <1>1, ClientEnds
  <2>2. CounterIsSettled'
    BY <1>0, <2>1, StaysSettled
  <2> QED BY <1>0, <2>1, <2>2, MovesInv
<1>2. CASE client[c].number <= MaxPerHour /\ ClientGoes(c, "discard")
  <2>1. /\ client' \in [Clients -> Client]
        /\ client'[c].at = "discard" /\ client'[c].late = client[c].late
        /\ \A d \in Clients \ {c} : client'[d] = client[d]
    BY <1>0, <1>2, ClientMoves DEF ClientSteps
  <2>2. ~client[c].late => c \in Entitled
    BY <1>0, <1>2 DEF Entitled
  <2>3. CounterIsSettled'
    BY <1>0, <2>1, StaysSettled
  <2> QED BY <1>0, <2>1, <2>2, <2>3, MovesInv
<1> QED BY <1>1, <1>2 DEF Limit

\* A request that dies between INCR and EXPIRE leaves its counter without a lifetime.
LEMMA DieInv == ASSUME OtpInv, NEW c \in Clients, Die(c) PROVE OtpInv'
<1>1. client \in [Clients -> Client] /\ orphaned \in BOOLEAN /\ CounterIsSettled
  BY DEF OtpInv, OtpTypeOK
<1>2. deaths' \in 0..MaxDeaths
  BY Limits DEF OtpInv, OtpTypeOK, Die
<1>3. /\ client' \in [Clients -> Client] /\ client'[c].at = "idle"
      /\ \A d \in Clients \ {c} : client'[d] = client[d]
      /\ UNCHANGED <<codes, counter, issued, raced>>
      /\ orphaned' = (orphaned \/ client[c].at = "expire")
  BY <1>1, ClientEnds DEF Die
<1>4. orphaned' \in BOOLEAN
  BY <1>1, <1>3
<1>5. CASE client[c].at = "expire"
  <2>1. \A d \in Clients : client'[d].at # "expire"
    BY <1>1, <1>3, <1>5 DEF CounterIsSettled
  <2>2. counter.left = Forever /\ orphaned'
    BY <1>1, <1>3, <1>5 DEF CounterIsSettled, CounterLapses
  <2>3. CounterIsSettled'
    BY <1>1, <1>3, <2>1, <2>2 DEF CounterIsSettled, CounterLapses, Forever
  <2> QED BY <1>2, <1>3, <1>4, <2>3, MovesInv
<1>6. CASE client[c].at # "expire"
  <2>1. orphaned' = orphaned
    BY <1>1, <1>3, <1>6
  <2>2. CounterIsSettled'
    BY <1>1, <1>3, <1>6, <2>1, StaysSettled
  <2> QED BY <1>2, <1>3, <1>4, <2>2, MovesInv
<1> QED BY <1>5, <1>6

LEMMA IncrInv == ASSUME OtpInv, NEW c \in Clients, Incr(c) PROVE OtpInv'
<1> USE DEF OtpInv
<1>0. /\ client \in [Clients -> Client] /\ client[c] \in Client /\ client[c].at = "idle"
      /\ counter.count \in 0..MaxPerHour + 1 /\ counter.left \in 0..Forever
      /\ counter.count <= MaxPerHour /\ issued \in Nat
      /\ UNCHANGED <<codes, raced, orphaned, deaths>>
  BY DEF OtpTypeOK, Incr
<1>1. CASE counter.count = 0
  <2> DEFINE first == [NoClient EXCEPT !.at = "expire", !.number = 1]
  <2>1. /\ first \in Client /\ first.at = "expire" /\ first.number = 1 /\ ~first.late
    BY DEF NoClient, Client, ClientSteps
  <2>2. /\ counter' = [count |-> 1, left |-> Forever] /\ issued' = 0
        /\ client' = [d \in Clients |->
              IF d = c THEN first ELSE [client[d] EXCEPT !.late = client[d].at # "idle"]]
    BY <1>1 DEF Incr
  <2> HIDE DEF first
  <2>3. \A d \in Clients : LET new == [client[d] EXCEPT !.late = client[d].at # "idle"]
                           IN  /\ new \in Client /\ new.late = (client[d].at # "idle")
                               /\ new.at = client[d].at /\ new.number = client[d].number
                               /\ new.read = client[d].read
    <3> SUFFICES ASSUME NEW d \in Clients, NEW late \in BOOLEAN
                 PROVE  LET new == [client[d] EXCEPT !.late = late]
                        IN  /\ new \in Client /\ new.late = late
                            /\ new.at = client[d].at /\ new.number = client[d].number
                            /\ new.read = client[d].read
      OBVIOUS
    <3>1. client[d] \in Client
      BY <1>0
    <3> QED BY <3>1 DEF Client
  <2>4. /\ client' \in [Clients -> Client] /\ client'[c] = first
        /\ \A d \in Clients \ {c} :
              /\ client'[d].late = (client[d].at # "idle") /\ client'[d].at = client[d].at
              /\ client'[d].number = client[d].number /\ client'[d].read = client[d].read
    BY <2>1, <2>2, <2>3
  <2>5. OtpTypeOK'
    BY <1>0, <2>2, <2>4, Limits DEF OtpTypeOK
  <2>6. EntitledAreFew'
    <3>1. Entitled' \subseteq {c}
      BY <2>4 DEF Entitled
    <3>2. \A d \in Clients \ {c} : client'[d].at = "expire" => client'[d].number = 1
      BY <2>4 DEF EntitledAreFew
    <3>3. Cardinality(Entitled') \in Nat /\ Cardinality(Entitled') <= 1
      <4>1. IsFiniteSet({c}) /\ Cardinality({c}) = 1
        BY FS_Singleton
      <4>2. IsFiniteSet(Entitled') /\ Cardinality(Entitled') <= Cardinality({c})
        BY <3>1, <4>1, FS_Subset
      <4> QED BY <4>1, <4>2, FS_CardinalityType
    <3> QED BY <2>1, <2>2, <2>4, <3>2, <3>3, Limits DEF EntitledAreFew
  <2>7. CounterIsSettled'
    <3>1. counter.left = 0 /\ counter.left # Forever
      BY <1>1, Limits DEF CounterIsSettled
    <3>2. ~orphaned /\ \A d \in Clients : client[d].at # "expire"
      BY <3>1 DEF CounterIsSettled, CounterLapses
    <3>3. counter'.left = Forever' /\ counter'.count # 0
      BY <2>2 DEF Forever
    <3> QED BY <1>0, <2>1, <2>4, <3>2, <3>3 DEF CounterIsSettled, CounterLapses
  <2>8. /\ Creators' \subseteq Creators /\ Live' = Live
        /\ \A i : Guessing(i)' \subseteq Guessing(i)
    BY <1>0, <2>1, <2>4 DEF Creators, Guessing, Live
  <2>9. LiveCodesAreBounded' /\ GuessesAreCounted'
    BY <1>0, <2>8, LiveShrinks, GuessesShrink
  <2>10. RowsExist'
    BY <1>0, <2>1, <2>4 DEF RowsExist
  <2> QED BY <2>5, <2>6, <2>7, <2>9, <2>10
<1>2. CASE counter.count # 0
  <2> DEFINE next == [NoClient EXCEPT !.at = "limit", !.number = counter.count + 1]
  <2>1. next \in Client /\ next.at = "limit" /\ next.number = counter.count + 1
    <3>1. counter.count + 1 \in Nat /\ "limit" \in ClientSteps
      BY <1>0, Limits DEF ClientSteps
    <3>2. \A n \in Nat : LET new == [NoClient EXCEPT !.at = "limit", !.number = n]
                        IN  new \in Client /\ new.at = "limit" /\ new.number = n
      BY <3>1 DEF NoClient, Client
    <3> QED BY <3>1, <3>2
  <2>2. /\ counter' = [counter EXCEPT !.count = @ + 1] /\ issued' = issued
        /\ client' = [client EXCEPT ![c] = next]
    BY <1>0, <1>2 DEF Incr
  <2> HIDE DEF next
  <2>3. /\ client' \in [Clients -> Client] /\ client'[c] = next
        /\ \A d \in Clients \ {c} : client'[d] = client[d]
    BY <1>0, <2>1, <2>2, ClientBecomes
  <2>4. /\ counter'.count = counter.count + 1 /\ counter'.left = counter.left
        /\ counter' \in [count : 0..MaxPerHour + 1, left : 0..Forever]
    <3>1. counter \in [count : 0..MaxPerHour + 1, left : 0..Forever]
      BY <1>0 DEF OtpTypeOK
    <3>2. counter' = [counter EXCEPT !.count = counter.count + 1]
      BY <2>2
    <3>3. counter.count + 1 \in 0..MaxPerHour + 1
      BY <1>0, <3>1, Limits DEF Incr
    <3> QED BY <3>1, <3>2, <3>3
  <2>5. OtpTypeOK'
    BY <1>0, <2>2, <2>3, <2>4 DEF OtpTypeOK
  <2>6. EntitledAreFew'
    <3>1. Entitled' \subseteq Entitled \cup {c}
      BY <2>3 DEF Entitled
    <3>2. c \in Entitled' => counter.count + 1 <= MaxPerHour
      BY <2>1, <2>3 DEF Entitled
    <3>3. /\ Cardinality(Entitled) \in Nat /\ Cardinality(Entitled') \in Nat
          /\ Cardinality(Entitled') <= Cardinality(Entitled) + 1
          /\ c \notin Entitled' => Cardinality(Entitled') <= Cardinality(Entitled)
      <4>1. Cardinality(Entitled \cup {c}) <= Cardinality(Entitled) + 1
        BY ClientSets, RequestSets
      <4>2. Entitled \cup {c} \in SUBSET Clients
        BY RequestSets
      <4>3. Cardinality(Entitled') <= Cardinality(Entitled \cup {c})
        BY <3>1, <4>2, ClientSets
      <4>4. c \notin Entitled' => Entitled' \subseteq Entitled
        BY <3>1
      <4>5. /\ Cardinality(Entitled) \in Nat /\ Cardinality(Entitled') \in Nat
            /\ Cardinality(Entitled \cup {c}) \in Nat
        BY <3>1, <4>2, ClientSets, RequestSets
      <4> QED BY <4>1, <4>3, <4>4, <4>5, ClientSets, RequestSets
    <3>4. /\ issued' + Cardinality(Entitled') <= MaxPerHour
          /\ issued' + Cardinality(Entitled') <= counter'.count
      BY <1>0, <1>2, <2>2, <2>4, <3>2, <3>3, Limits DEF EntitledAreFew
    <3>5. \A d \in Clients : client'[d].at = "expire" => client'[d].number = 1
      BY <2>1, <2>3 DEF EntitledAreFew
    <3> QED BY <3>4, <3>5 DEF EntitledAreFew
  <2>7. CounterIsSettled'
    <3>1. \A d \in Clients : client'[d].at = "expire" <=> client[d].at = "expire"
      BY <1>0, <2>1, <2>3
    <3>2. counter'.left = counter.left /\ counter'.count # 0
      BY <1>0, <2>2, Limits
    <3> QED BY <1>0, <3>1, <3>2 DEF CounterIsSettled, CounterLapses, Forever
  <2>8. /\ Creators' \subseteq Creators /\ Live' = Live
        /\ \A i : Guessing(i)' \subseteq Guessing(i)
    BY <1>0, <2>1, <2>3 DEF Creators, Guessing, Live
  <2>9. LiveCodesAreBounded' /\ GuessesAreCounted'
    BY <1>0, <2>8, LiveShrinks, GuessesShrink
  <2>10. RowsExist'
    BY <1>0, <2>1, <2>3 DEF RowsExist
  <2> QED BY <2>5, <2>6, <2>7, <2>9, <2>10
<1> QED BY <1>1, <1>2

LEMMA ExpireInv == ASSUME OtpInv, NEW c \in Clients, Expire(c) PROVE OtpInv'
<1> USE DEF OtpInv
<1>0. /\ client \in [Clients -> Client] /\ client[c].at = "expire" /\ client[c].number = 1
      /\ UNCHANGED <<codes, issued, raced, orphaned, deaths>>
  BY DEF OtpTypeOK, EntitledAreFew, Expire
<1>1. /\ client' \in [Clients -> Client] /\ client'[c].at = "limit"
      /\ client'[c].number = client[c].number /\ client'[c].late = client[c].late
      /\ \A d \in Clients \ {c} : client'[d] = client[d]
  BY <1>0, ClientMoves DEF Expire, ClientSteps
<1>2. /\ counter'.count = counter.count /\ counter'.left = WindowTTL
      /\ counter' \in [count : 0..MaxPerHour + 1, left : 0..Forever]
  BY Limits DEF Expire, OtpTypeOK
<1>3. OtpTypeOK'
  BY <1>0, <1>1, <1>2 DEF OtpTypeOK
<1>4. EntitledAreFew'
  <2>1. Entitled' \subseteq Entitled
    BY <1>0, <1>1 DEF Entitled
  <2>2. \A d \in Clients : client'[d].at = "expire" =>
               client[d].at = "expire" /\ client'[d].number = client[d].number
    BY <1>1
  <2> QED BY <1>0, <1>2, <2>1, <2>2, EntitledShrinks
<1>5. CounterIsSettled'
  <2>1. ~orphaned /\ \A d \in Clients : client'[d].at # "expire"
    BY <1>0, <1>1 DEF CounterIsSettled
  <2>2. counter.count # 0 /\ counter'.left # Forever'
    BY <1>0, <1>2, Limits DEF CounterIsSettled, CounterLapses, Forever
  <2> QED BY <1>0, <1>2, <2>1, <2>2 DEF CounterIsSettled, CounterLapses
<1>6. /\ Creators' \subseteq Creators /\ Live' = Live
      /\ \A i : Guessing(i)' \subseteq Guessing(i)
  BY <1>0, <1>1 DEF Creators, Guessing, Live
<1>7. LiveCodesAreBounded' /\ GuessesAreCounted'
  BY <1>0, <1>6, LiveShrinks, GuessesShrink
<1>8. RowsExist'
  BY <1>0, <1>1 DEF RowsExist
<1> QED BY <1>3, <1>4, <1>5, <1>7, <1>8

\* What a change of one field leaves of a row.
LEMMA RowFields ==
    ASSUME NEW row \in Code, NEW left \in 0..CodeTTL, NEW n \in Nat
    PROVE  /\ [row EXCEPT !.left = left] \in Code /\ [row EXCEPT !.left = left].left = left
           /\ [row EXCEPT !.left = left].attempts = row.attempts
           /\ [row EXCEPT !.left = left].guesses = row.guesses
           /\ [row EXCEPT !.attempts = n] \in Code /\ [row EXCEPT !.attempts = n].attempts = n
           /\ [row EXCEPT !.attempts = n].left = row.left
           /\ [row EXCEPT !.attempts = n].guesses = row.guesses
           /\ [row EXCEPT !.guesses = n] \in Code /\ [row EXCEPT !.guesses = n].guesses = n
           /\ [row EXCEPT !.guesses = n].left = row.left
           /\ [row EXCEPT !.guesses = n].attempts = row.attempts
           /\ [row EXCEPT !.sent = TRUE] \in Code
           /\ [row EXCEPT !.sent = TRUE].left = row.left
           /\ [row EXCEPT !.sent = TRUE].attempts = row.attempts
           /\ [row EXCEPT !.sent = TRUE].guesses = row.guesses
BY DEF Code

\* Rows that keep their counts: the lifetimes may only shrink.
OnlyLapse ==
    /\ codes' \in Seq(Code) /\ Len(codes') = Len(codes) /\ DOMAIN codes' = DOMAIN codes
    /\ \A i \in DOMAIN codes : /\ codes'[i].attempts = codes[i].attempts
                               /\ codes'[i].guesses = codes[i].guesses
                               /\ codes'[i].left <= codes[i].left

LEMMA LapseShrinks == ASSUME OtpTypeOK, OnlyLapse PROVE Live' \subseteq Live
<1> SUFFICES ASSUME NEW i \in Live' PROVE i \in Live
  OBVIOUS
<1>1. i \in DOMAIN codes /\ codes'[i].left > 0 /\ codes[i] \in Code /\ codes'[i] \in Code
  BY DEF Live, OnlyLapse, OtpTypeOK
<1>2. codes[i].left \in Nat /\ codes'[i].left \in Nat
  BY <1>1, Limits DEF Code
<1> QED BY <1>1, <1>2 DEF Live, OnlyLapse

\* All rows lapse, by one tick or at once.
LEMMA AllRows ==
    ASSUME codes \in Seq(Code), NEW lapsed \in [DOMAIN codes -> Code],
           codes' = lapsed,
           \A i \in DOMAIN codes : /\ lapsed[i].attempts = codes[i].attempts
                                   /\ lapsed[i].guesses = codes[i].guesses
                                   /\ lapsed[i].left <= codes[i].left
    PROVE  OnlyLapse
<1>1. Len(codes) \in Nat /\ DOMAIN codes = 1..Len(codes)
  OBVIOUS
<1>2. lapsed \in Seq(Code) /\ Len(lapsed) = Len(codes)
  BY <1>1
<1> QED BY <1>1, <1>2 DEF OnlyLapse

LEMMA OneRow ==
    ASSUME codes \in Seq(Code), NEW i \in DOMAIN codes, NEW row \in Code,
           codes' = [codes EXCEPT ![i] = row],
           row.attempts = codes[i].attempts, row.guesses = codes[i].guesses,
           row.left <= codes[i].left
    PROVE  OnlyLapse
<1>1. /\ codes' \in Seq(Code) /\ Len(codes') = Len(codes) /\ DOMAIN codes' = DOMAIN codes
      /\ codes'[i] = row /\ \A j \in DOMAIN codes \ {i} : codes'[j] = codes[j]
  BY RowBecomes
<1>2. \A j \in DOMAIN codes : codes[j] \in Code
  OBVIOUS
<1>3. \A j \in DOMAIN codes : codes[j].left <= codes[j].left
  BY <1>2, Limits DEF Code
<1> QED BY <1>1, <1>3 DEF OnlyLapse

LEMMA DiscardInv == ASSUME OtpInv, NEW c \in Clients, Discard(c) PROVE OtpInv'
<1> USE DEF OtpInv
<1>0. /\ client \in [Clients -> Client] /\ client[c].at = "discard" /\ codes \in Seq(Code)
      /\ UNCHANGED <<counter, issued, raced, orphaned, deaths>>
  BY DEF OtpTypeOK, Discard
<1>1. /\ client' \in [Clients -> Client] /\ client'[c].at = "create"
      /\ client'[c].number = client[c].number /\ client'[c].late = client[c].late
      /\ \A d \in Clients \ {c} : client'[d] = client[d]
  BY <1>0, ClientMoves DEF Discard, ClientSteps
<1>2. OnlyLapse /\ Live' = {}
  <2> DEFINE lapsed == [i \in DOMAIN codes |-> [codes[i] EXCEPT !.left = 0]]
  <2>1. \A i \in DOMAIN codes : /\ [codes[i] EXCEPT !.left = 0] \in Code
                                /\ [codes[i] EXCEPT !.left = 0].left = 0
                                /\ [codes[i] EXCEPT !.left = 0].attempts = codes[i].attempts
                                /\ [codes[i] EXCEPT !.left = 0].guesses = codes[i].guesses
                                /\ 0 <= codes[i].left
    <3> SUFFICES ASSUME NEW i \in DOMAIN codes
                 PROVE  /\ [codes[i] EXCEPT !.left = 0] \in Code
                        /\ [codes[i] EXCEPT !.left = 0].left = 0
                        /\ [codes[i] EXCEPT !.left = 0].attempts = codes[i].attempts
                        /\ [codes[i] EXCEPT !.left = 0].guesses = codes[i].guesses
                        /\ 0 <= codes[i].left
      OBVIOUS
    <3>1. codes[i] \in Code /\ 0 \in 0..CodeTTL
      BY <1>0, Limits
    <3>2. 0 <= codes[i].left
      BY <3>1, Limits DEF Code
    <3> QED BY <3>1, <3>2, RowFields
  <2>2. codes' = lapsed
    BY DEF Discard
  <2>3. /\ lapsed \in [DOMAIN codes -> Code]
        /\ \A i \in DOMAIN codes : /\ lapsed[i].attempts = codes[i].attempts
                                   /\ lapsed[i].guesses = codes[i].guesses
                                   /\ lapsed[i].left = 0 /\ lapsed[i].left <= codes[i].left
    BY <2>1
  <2> HIDE DEF lapsed
  <2>4. OnlyLapse
    BY <1>0, <2>2, <2>3, AllRows
  <2>5. Live' = {}
    BY <2>2, <2>3 DEF Live
  <2> QED BY <2>4, <2>5
<1>3. OtpTypeOK'
  BY <1>0, <1>1, <1>2 DEF OtpTypeOK, OnlyLapse
<1>4. EntitledAreFew'
  <2>1. Entitled' \subseteq Entitled
    BY <1>0, <1>1 DEF Entitled
  <2>2. \A d \in Clients : client'[d].at = "expire" =>
               client[d].at = "expire" /\ client'[d].number = client[d].number
    BY <1>1
  <2> QED BY <1>0, <2>1, <2>2, EntitledShrinks
<1>5. CounterIsSettled'
  BY <1>0, <1>1, StaysSettled
<1>6. LiveCodesAreBounded'
  <2>1. /\ Cardinality(Creators') \in Nat /\ Cardinality(Creators') <= Cardinality(Clients)
        /\ Cardinality(Live') = 0
    BY <1>2, ClientSets, FS_EmptySet DEF Creators
  <2> QED BY <2>1 DEF LiveCodesAreBounded, Creators
<1>7. RowsExist'
  BY <1>1, <1>2 DEF RowsExist, OnlyLapse
<1>8. GuessesAreCounted'
  <2>1. \A i : Guessing(i)' \subseteq Guessing(i)
    BY <1>1 DEF Guessing
  <2> QED BY <1>0, <1>2, <2>1, GuessesShrink DEF OnlyLapse
<1> QED BY <1>3, <1>4, <1>5, <1>6, <1>7, <1>8

LEMMA CreateInv == ASSUME OtpInv, NEW c \in Clients, Create(c) PROVE OtpInv'
<1> USE DEF OtpInv
<1>0. /\ client \in [Clients -> Client] /\ client[c].at = "create" /\ codes \in Seq(Code)
      /\ Len(codes) < MaxCodes /\ Len(codes) \in Nat /\ DOMAIN codes = 1..Len(codes)
      /\ UNCHANGED <<counter, raced, orphaned, deaths>> /\ issued \in Nat /\ counter.count \in Nat
  BY Limits DEF OtpTypeOK, Create
<1>1. /\ client' \in [Clients -> Client] /\ client'[c].at = "idle"
      /\ \A d \in Clients \ {c} : client'[d] = client[d]
  BY <1>0, ClientEnds DEF Create
<1>2. NewCode \in Code /\ NewCode.attempts = 0 /\ NewCode.guesses = 0
  BY Limits DEF NewCode, Code
<1>3. /\ codes' \in Seq(Code) /\ Len(codes') = Len(codes) + 1
      /\ codes'[Len(codes) + 1] = NewCode
      /\ \A i \in 1..Len(codes) : codes'[i] = codes[i]
      /\ DOMAIN codes' = 1..(Len(codes) + 1)
  BY <1>0, <1>2, AppendProperties DEF Create
<1>4. issued' = IF client[c].late THEN issued ELSE issued + 1
  BY DEF Create
<1>5. OtpTypeOK'
  BY <1>0, <1>1, <1>3, <1>4, Limits DEF OtpTypeOK
<1>6. EntitledAreFew'
  <2>1. Entitled' = Entitled \ {c}
    BY <1>1 DEF Entitled
  <2>2. c \in Entitled <=> ~client[c].late
    BY <1>0 DEF Entitled
  <2>3. Cardinality(Entitled) \in Nat
    BY ClientSets, RequestSets
  <2>4. /\ c \in Entitled => Cardinality(Entitled') = Cardinality(Entitled) - 1
        /\ c \notin Entitled => Cardinality(Entitled') = Cardinality(Entitled)
    <3>1. c \in Entitled => Cardinality(Entitled') = Cardinality(Entitled) - 1
      BY <2>1, ClientSets, RequestSets
    <3>2. c \notin Entitled => Entitled' = Entitled
      BY <2>1
    <3> QED BY <3>1, <3>2
  <2>5. issued' + Cardinality(Entitled') = issued + Cardinality(Entitled)
    BY <1>0, <1>4, <2>2, <2>3, <2>4
  <2>6. \A d \in Clients : client'[d].at = "expire" => client'[d].number = 1
    BY <1>1 DEF EntitledAreFew
  <2> QED BY <1>0, <2>5, <2>6 DEF EntitledAreFew
<1>7. CounterIsSettled'
  BY <1>0, <1>1, StaysSettled
<1>8. LiveCodesAreBounded'
  <2>1. Live' \subseteq Live \cup {Len(codes) + 1}
    BY <1>0, <1>3 DEF Live
  <2>2. IsFiniteSet(Live) /\ Cardinality(Live) \in Nat
    BY <1>0, LiveSets
  <2>3. /\ IsFiniteSet(Live \cup {Len(codes) + 1})
        /\ Cardinality(Live \cup {Len(codes) + 1}) <= Cardinality(Live) + 1
    BY <2>2, FS_AddElement
  <2>4. /\ IsFiniteSet(Live') /\ Cardinality(Live') <= Cardinality(Live \cup {Len(codes) + 1})
    BY <2>1, <2>3, FS_Subset
  <2>5. /\ Cardinality(Live') \in Nat /\ Cardinality(Live \cup {Len(codes) + 1}) \in Nat
    BY <2>3, <2>4, FS_CardinalityType
  <2>6. Creators' = Creators \ {c} /\ c \in Creators
    BY <1>0, <1>1 DEF Creators
  <2>7. /\ Cardinality(Creators) \in Nat /\ Cardinality(Clients) \in Nat
        /\ Cardinality(Creators') = Cardinality(Creators) - 1
    BY <2>6, ClientSets, RequestSets
  <2> QED BY <2>2, <2>3, <2>4, <2>5, <2>7 DEF LiveCodesAreBounded, Creators
<1>9. RowsExist'
  BY <1>0, <1>1, <1>3 DEF RowsExist
<1>10. GuessesAreCounted'
  <2> SUFFICES ASSUME ~raced, NEW i \in DOMAIN codes'
               PROVE /\ codes'[i].attempts <= MaxAttempts
                     /\ codes'[i].guesses + Cardinality(Guessing(i)') <= codes'[i].attempts
    BY <1>0 DEF GuessesAreCounted
  <2>1. Guessing(i)' = Guessing(i)
    BY <1>0, <1>1 DEF Guessing
  <2>2. CASE i \in DOMAIN codes
    BY <1>0, <1>3, <2>1, <2>2 DEF GuessesAreCounted
  <2>3. CASE i \notin DOMAIN codes
    <3>1. codes'[i] = NewCode
      BY <1>0, <1>3, <2>3
    <3>2. Guessing(i) = {}
      BY <2>3 DEF Guessing, RowsExist
    <3> QED BY <1>2, <2>1, <3>1, <3>2, FS_EmptySet, Limits
  <2> QED BY <2>2, <2>3
<1> QED BY <1>5, <1>6, <1>7, <1>8, <1>9, <1>10

LEMMA DeliverInv == ASSUME OtpInv, NEW i \in DOMAIN codes, Deliver(i) PROVE OtpInv'
<1> USE DEF OtpInv
<1>0. /\ codes \in Seq(Code) /\ codes[i] \in Code
      /\ UNCHANGED <<counter, client, issued, raced, orphaned, deaths>>
  BY DEF OtpTypeOK, Deliver
<1>1. codes' = [codes EXCEPT ![i] = [codes[i] EXCEPT !.sent = TRUE]]
  BY <1>0 DEF Deliver
<1>2. codes[i].left <= codes[i].left
  BY <1>0, Limits DEF Code
<1>3. OnlyLapse
  <2>1. /\ [codes[i] EXCEPT !.sent = TRUE] \in Code
        /\ [codes[i] EXCEPT !.sent = TRUE].left <= codes[i].left
        /\ [codes[i] EXCEPT !.sent = TRUE].attempts = codes[i].attempts
        /\ [codes[i] EXCEPT !.sent = TRUE].guesses = codes[i].guesses
    BY <1>0, <1>2 DEF Code
  <2> QED BY <1>0, <1>1, <2>1, OneRow
<1>4. /\ Live' \subseteq Live /\ Creators' \subseteq Creators /\ Entitled' = Entitled
      /\ \A j : Guessing(j)' = Guessing(j)
  BY <1>0, <1>3, LapseShrinks DEF Creators, Entitled, Guessing
<1>5. OtpTypeOK'
  BY <1>0, <1>3 DEF OtpTypeOK, OnlyLapse
<1>6. EntitledAreFew' /\ CounterIsSettled' /\ RowsExist'
  <2>1. CounterIsSettled'
    BY <1>0, StaysSettled
  <2> QED BY <1>0, <1>3, <1>4, <2>1 DEF EntitledAreFew, RowsExist, OnlyLapse
<1>7. LiveCodesAreBounded' /\ GuessesAreCounted'
  BY <1>0, <1>3, <1>4, LiveShrinks, GuessesShrink DEF OnlyLapse
<1> QED BY <1>5, <1>6, <1>7

LEMMA OtpTickInv == ASSUME OtpInv, OtpTick PROVE OtpInv'
<1> USE DEF OtpInv
<1>0. codes \in Seq(Code) /\ UNCHANGED <<client, issued, raced, orphaned, deaths>>
  BY DEF OtpTypeOK, OtpTick
<1>1. OnlyLapse
  <2> DEFINE sooner(n) == IF n = 0 THEN 0 ELSE n - 1
             lapsed == [i \in DOMAIN codes |-> [codes[i] EXCEPT !.left = sooner(codes[i].left)]]
  <2>1. \A i \in DOMAIN codes :
            LET row == [codes[i] EXCEPT !.left = sooner(codes[i].left)]
            IN  /\ row \in Code /\ row.left <= codes[i].left
                /\ row.attempts = codes[i].attempts /\ row.guesses = codes[i].guesses
    <3> SUFFICES ASSUME NEW i \in DOMAIN codes
                 PROVE  LET row == [codes[i] EXCEPT !.left = sooner(codes[i].left)]
                        IN  /\ row \in Code /\ row.left <= codes[i].left
                            /\ row.attempts = codes[i].attempts /\ row.guesses = codes[i].guesses
      OBVIOUS
    <3>0. codes[i] \in Code
      BY <1>0
    <3>1. codes[i] \in Code /\ codes[i].left \in 0..CodeTTL
      BY <3>0 DEF Code
    <3>2. sooner(codes[i].left) \in 0..CodeTTL /\ sooner(codes[i].left) <= codes[i].left
      BY <3>1, Limits
    <3> HIDE DEF sooner
    <3> QED BY <3>1, <3>2, RowFields
  <2>2. codes' = lapsed
    BY DEF OtpTick
  <2>3. /\ lapsed \in [DOMAIN codes -> Code]
        /\ \A i \in DOMAIN codes : /\ lapsed[i].attempts = codes[i].attempts
                                   /\ lapsed[i].guesses = codes[i].guesses
                                   /\ lapsed[i].left <= codes[i].left
    BY <2>1
  <2> HIDE DEF lapsed
  <2> QED BY <1>0, <2>2, <2>3, AllRows
<1>2. /\ counter' \in [count : 0..MaxPerHour + 1, left : 0..Forever]
      /\ counter'.count = counter.count \/ counter'.count = 0
      /\ counter'.left = Forever <=> counter.left = Forever
      /\ counter'.count = 0 => counter'.left = 0
  <2>0. /\ counter \in [count : 0..MaxPerHour + 1, left : 0..Forever]
        /\ counter.left \in 0..Forever
        /\ counter.count = 0 => counter.left = 0
    BY DEF OtpTypeOK, CounterIsSettled
  <2>1. CASE counter.left \in {0, Forever}
    <3>1. counter' = counter
      BY <2>0, <2>1, Limits DEF OtpTick
    <3> QED BY <2>0, <3>1
  <2>2. CASE counter.left \notin {0, Forever} /\ counter.left = 1
    <3>1. counter' = [count |-> 0, left |-> 0]
      BY <2>2 DEF OtpTick
    <3>2. counter'.count = 0 /\ counter'.left = 0
      BY <3>1
    <3>3. 0 # Forever /\ counter.left # Forever
      BY <2>2, Limits
    <3>4. counter' \in [count : 0..MaxPerHour + 1, left : 0..Forever]
      BY <3>1, Limits
    <3> QED BY <3>2, <3>3, <3>4
  <2>3. CASE counter.left \notin {0, Forever} /\ counter.left # 1
    <3>1. counter' = [counter EXCEPT !.left = @ - 1]
      BY <2>3 DEF OtpTick
    <3>2. counter.left - 1 \in 0..Forever /\ counter.left - 1 # Forever
      BY <2>0, <2>3, Limits
    <3>3. counter'.count = counter.count /\ counter'.left = counter.left - 1
      BY <2>0, <3>1
    <3>4. counter.count # 0 /\ counter.left # Forever
      BY <2>0, <2>3
    <3>5. counter' \in [count : 0..MaxPerHour + 1, left : 0..Forever]
      BY <2>0, <3>1, <3>2
    <3> QED BY <3>2, <3>3, <3>4, <3>5
  <2> QED BY <2>1, <2>2, <2>3
<1>3. /\ Live' \subseteq Live /\ Creators' \subseteq Creators /\ Entitled' = Entitled
      /\ \A j : Guessing(j)' = Guessing(j)
  BY <1>0, <1>1, LapseShrinks DEF Creators, Entitled, Guessing
<1>4. OtpTypeOK'
  BY <1>0, <1>1, <1>2 DEF OtpTypeOK, OnlyLapse
<1>5. EntitledAreFew'
  BY <1>0, <1>2, <1>3, EntitledShrinks
<1>6. CounterIsSettled' /\ RowsExist'
  <2>1. CounterIsSettled'
    BY <1>0, <1>2 DEF CounterIsSettled, CounterLapses, Forever
  <2> QED BY <1>0, <1>1, <2>1 DEF RowsExist, OnlyLapse
<1>7. LiveCodesAreBounded' /\ GuessesAreCounted'
  BY <1>0, <1>1, <1>3, LiveShrinks, GuessesShrink DEF OnlyLapse
<1> QED BY <1>4, <1>5, <1>6, <1>7

-----------------------------------------------------------------------------
(* verifyOtp *)

\* A verifying request has nothing to do with the limit.
LEMMA VerifierKeepsLimit ==
    ASSUME OtpInv, NEW c \in Clients, client' \in [Clients -> Client],
           \A d \in Clients \ {c} : client'[d] = client[d],
           client[c].at # "expire", client'[c].at \in {"idle", "count", "compare", "use"},
           UNCHANGED <<counter, issued, orphaned, deaths>>
    PROVE  EntitledAreFew' /\ CounterIsSettled' /\ Creators' \subseteq Creators
<1> USE DEF OtpInv
<1>1. Entitled' \subseteq Entitled /\ Creators' \subseteq Creators
  BY DEF Entitled, Creators
<1>2. \A d \in Clients : client'[d].at = "expire" =>
           client[d].at = "expire" /\ client'[d].number = client[d].number
  OBVIOUS
<1>3. CounterIsSettled'
  <2>1. \A d \in Clients : client'[d].at = "expire" <=> client[d].at = "expire"
    OBVIOUS
  <2> QED BY <2>1, StaysSettled
<1> QED BY <1>1, <1>2, <1>3, EntitledShrinks

LEMMA LookInv == ASSUME OtpInv, NEW c \in Clients, Look(c) PROVE OtpInv'
<1> USE DEF OtpInv
<1>0. /\ client \in [Clients -> Client] /\ client[c].at = "idle" /\ codes \in Seq(Code)
      /\ UNCHANGED <<codes, counter, issued, raced, orphaned, deaths>>
  BY DEF OtpTypeOK, Look
<1>1. PICK i \in Live : codes[i].attempts < MaxAttempts /\ Found(c, i)
  BY DEF Look
<1>2. i \in DOMAIN codes /\ i \in Nat /\ codes[i].attempts \in Nat
  <2>1. i \in DOMAIN codes /\ i \in Nat
    BY <1>0, LiveSets DEF Live
  <2>2. codes[i] \in Code
    BY <1>0, <2>1
  <2> QED BY <2>1, <2>2 DEF Code
<1> DEFINE new == [at |-> "count", number |-> i, late |-> FALSE, read |-> codes[i].attempts]
<1>3. /\ new \in Client /\ new.at = "count" /\ new.number = i /\ new.read = codes[i].attempts
      /\ client' = [client EXCEPT ![c] = new]
  BY <1>1, <1>2 DEF Client, ClientSteps, Found
<1> HIDE DEF new
<1>4. /\ client' \in [Clients -> Client] /\ client'[c] = new
      /\ \A d \in Clients \ {c} : client'[d] = client[d]
  BY <1>0, <1>3, ClientBecomes
<1>5. OtpTypeOK'
  BY <1>0, <1>4 DEF OtpTypeOK
<1>6. EntitledAreFew' /\ CounterIsSettled' /\ Creators' \subseteq Creators
  BY <1>0, <1>3, <1>4, VerifierKeepsLimit
<1>7. Live' = Live /\ \A j : Guessing(j)' \subseteq Guessing(j)
  BY <1>0, <1>3, <1>4 DEF Live, Guessing
<1>8. LiveCodesAreBounded' /\ GuessesAreCounted'
  BY <1>0, <1>6, <1>7, LiveShrinks, GuessesShrink
<1>9. RowsExist'
  BY <1>0, <1>1, <1>2, <1>3, <1>4 DEF RowsExist
<1> QED BY <1>5, <1>6, <1>8, <1>9

LEMMA CountInv == ASSUME OtpInv, NEW c \in Clients, Count(c) PROVE OtpInv'
<1> USE DEF OtpInv
<1> DEFINE n == client[c].number
           row == [codes[n] EXCEPT !.attempts = client[c].read + 1]
<1>0. /\ client \in [Clients -> Client] /\ client[c] \in Client /\ client[c].at = "count"
      /\ codes \in Seq(Code) /\ UNCHANGED <<counter, issued, orphaned, deaths>>
  BY DEF OtpTypeOK, Count
<1>1. /\ n \in DOMAIN codes /\ client[c].read < MaxAttempts /\ client[c].read \in Nat
  BY <1>0 DEF RowsExist, Client
<1>2. codes[n] \in Code
  BY <1>0, <1>1
<1>3. /\ row \in Code /\ row.left = codes[n].left /\ row.guesses = codes[n].guesses
      /\ row.attempts = client[c].read + 1
  <2>1. \A k \in Nat : /\ [codes[n] EXCEPT !.attempts = k] \in Code
                       /\ [codes[n] EXCEPT !.attempts = k].left = codes[n].left
                       /\ [codes[n] EXCEPT !.attempts = k].guesses = codes[n].guesses
                       /\ [codes[n] EXCEPT !.attempts = k].attempts = k
    BY <1>2 DEF Code
  <2>2. client[c].read + 1 \in Nat
    BY <1>1
  <2> QED BY <2>1, <2>2
<1>4. codes' = [codes EXCEPT ![n] = row]
  BY <1>1 DEF Count
<1>5. raced' = (raced \/ codes[n].attempts # client[c].read)
  BY DEF Count
<1>6. /\ client' \in [Clients -> Client] /\ client'[c].at = "compare" /\ client'[c].number = n
      /\ \A d \in Clients \ {c} : client'[d] = client[d]
  BY <1>0, ClientMoves DEF Count, ClientSteps
<1> HIDE DEF n, row
<1>7. /\ codes' \in Seq(Code) /\ Len(codes') = Len(codes) /\ DOMAIN codes' = DOMAIN codes
      /\ codes'[n] = row /\ \A j \in DOMAIN codes \ {n} : codes'[j] = codes[j]
  BY <1>0, <1>1, <1>3, <1>4, RowBecomes
<1>8. OtpTypeOK'
  BY <1>0, <1>5, <1>6, <1>7 DEF OtpTypeOK
<1>9. EntitledAreFew' /\ CounterIsSettled' /\ Creators' \subseteq Creators
  BY <1>0, <1>6, VerifierKeepsLimit
<1>10. LiveCodesAreBounded'
  <2>1. Live' \subseteq Live
    BY <1>3, <1>7 DEF Live
  <2> QED BY <1>9, <2>1, LiveShrinks
<1>11. RowsExist'
  BY <1>1, <1>6, <1>7 DEF RowsExist
<1>12. GuessesAreCounted'
  <2> SUFFICES ASSUME ~raced, codes[n].attempts = client[c].read, NEW i \in DOMAIN codes
               PROVE /\ codes'[i].attempts <= MaxAttempts
                     /\ codes'[i].guesses + Cardinality(Guessing(i)') <= codes'[i].attempts
    BY <1>5, <1>7 DEF GuessesAreCounted
  <2>1. /\ codes[i].attempts <= MaxAttempts
        /\ codes[i].guesses + Cardinality(Guessing(i)) <= codes[i].attempts
    BY DEF GuessesAreCounted
  <2>2. CASE i # n
    <3>1. Guessing(i)' = Guessing(i)
      BY <1>0, <1>6, <2>2 DEF Guessing
    <3> QED BY <1>7, <2>1, <2>2, <3>1
  <2>3. CASE i = n
    <3>1. Guessing(i)' = Guessing(i) \cup {c}
      BY <1>0, <1>6, <2>3 DEF Guessing
    <3>2. /\ Cardinality(Guessing(i)) \in Nat /\ Cardinality(Guessing(i)') \in Nat
          /\ Cardinality(Guessing(i)') <= Cardinality(Guessing(i)) + 1
      BY <3>1, ClientSets, RequestSets
    <3>3. codes[n].guesses \in Nat
      BY <1>2 DEF Code
    <3> QED BY <1>1, <1>3, <1>7, <2>1, <2>3, <3>2, <3>3, Limits
  <2> QED BY <2>2, <2>3
<1> QED BY <1>8, <1>9, <1>10, <1>11, <1>12

LEMMA CompareInv == ASSUME OtpInv, NEW c \in Clients, Compare(c) PROVE OtpInv'
<1> USE DEF OtpInv
<1> DEFINE n == client[c].number
           row == [codes[n] EXCEPT !.guesses = @ + 1]
<1>0. /\ client \in [Clients -> Client] /\ client[c].at = "compare"
      /\ codes \in Seq(Code) /\ UNCHANGED <<counter, issued, raced, orphaned, deaths>>
  BY DEF OtpTypeOK, Compare
<1>1. n \in DOMAIN codes
  BY <1>0 DEF RowsExist
<1>2. codes[n] \in Code
  BY <1>0, <1>1
<1>3. /\ row \in Code /\ row.left = codes[n].left /\ row.guesses = codes[n].guesses + 1
      /\ row.attempts = codes[n].attempts /\ codes[n].guesses \in Nat
  BY <1>2 DEF Code
<1>4. codes' = [codes EXCEPT ![n] = row]
  BY <1>1 DEF Compare
<1>5. PICK to \in {"use", "idle"} :
        /\ client' \in [Clients -> Client] /\ client'[c].at = to
        /\ to = "use" => client'[c].number = n
        /\ \A d \in Clients \ {c} : client'[d] = client[d]
  BY <1>0, ClientMoves, ClientEnds DEF Compare, ClientSteps
<1> HIDE DEF n, row
<1>6. /\ codes' \in Seq(Code) /\ Len(codes') = Len(codes) /\ DOMAIN codes' = DOMAIN codes
      /\ codes'[n] = row /\ \A j \in DOMAIN codes \ {n} : codes'[j] = codes[j]
  BY <1>0, <1>1, <1>3, <1>4, RowBecomes
<1>7. OtpTypeOK'
  BY <1>0, <1>5, <1>6 DEF OtpTypeOK
<1>8. EntitledAreFew' /\ CounterIsSettled' /\ Creators' \subseteq Creators
  BY <1>0, <1>5, VerifierKeepsLimit
<1>9. LiveCodesAreBounded'
  <2>1. Live' \subseteq Live
    BY <1>3, <1>6 DEF Live
  <2> QED BY <1>8, <2>1, LiveShrinks
<1>10. RowsExist'
  BY <1>1, <1>5, <1>6 DEF RowsExist
<1>11. GuessesAreCounted'
  <2> SUFFICES ASSUME ~raced, NEW i \in DOMAIN codes
               PROVE /\ codes'[i].attempts <= MaxAttempts
                     /\ codes'[i].guesses + Cardinality(Guessing(i)') <= codes'[i].attempts
    BY <1>0, <1>6 DEF GuessesAreCounted
  <2>1. /\ codes[i].attempts <= MaxAttempts
        /\ codes[i].guesses + Cardinality(Guessing(i)) <= codes[i].attempts
    BY DEF GuessesAreCounted
  <2>2. CASE i # n
    <3>1. Guessing(i)' = Guessing(i)
      BY <1>0, <1>5, <2>2 DEF Guessing, n
    <3> QED BY <1>6, <2>1, <2>2, <3>1
  <2>3. CASE i = n
    <3>1. Guessing(i)' = Guessing(i) \ {c} /\ c \in Guessing(i)
      BY <1>0, <1>5, <2>3 DEF Guessing, n
    <3>2. /\ Cardinality(Guessing(i)) \in Nat
          /\ Cardinality(Guessing(i)') = Cardinality(Guessing(i)) - 1
      BY <3>1, ClientSets, RequestSets
    <3> QED BY <1>3, <1>6, <2>1, <2>3, <3>2
  <2> QED BY <2>2, <2>3
<1> QED BY <1>7, <1>8, <1>9, <1>10, <1>11

LEMMA UseInv == ASSUME OtpInv, NEW c \in Clients, Use(c) PROVE OtpInv'
<1> USE DEF OtpInv
<1> DEFINE n == client[c].number
           row == [codes[n] EXCEPT !.left = 0]
<1>0. /\ client \in [Clients -> Client] /\ client[c].at = "use"
      /\ codes \in Seq(Code) /\ UNCHANGED <<counter, issued, raced, orphaned, deaths>>
  BY DEF OtpTypeOK, Use
<1>1. n \in DOMAIN codes
  BY <1>0 DEF RowsExist
<1>2. codes[n] \in Code /\ 0 \in 0..CodeTTL
  BY <1>0, <1>1, Limits
<1>3. /\ row \in Code /\ row.left = 0 /\ row.guesses = codes[n].guesses
      /\ row.attempts = codes[n].attempts
  BY <1>2, RowFields
<1>4. 0 <= codes[n].left
  BY <1>2, Limits DEF Code
<1>5. codes' = [codes EXCEPT ![n] = row]
  BY <1>1 DEF Use
<1>6. /\ client' \in [Clients -> Client] /\ client'[c].at = "idle"
      /\ \A d \in Clients \ {c} : client'[d] = client[d]
  BY <1>0, ClientEnds DEF Use
<1> HIDE DEF n, row
<1>7. OnlyLapse
  BY <1>0, <1>1, <1>3, <1>4, <1>5, OneRow
<1>8. OtpTypeOK'
  BY <1>0, <1>6, <1>7 DEF OtpTypeOK, OnlyLapse
<1>9. EntitledAreFew' /\ CounterIsSettled' /\ Creators' \subseteq Creators
  BY <1>0, <1>6, VerifierKeepsLimit
<1>10. Live' \subseteq Live /\ \A i : Guessing(i)' \subseteq Guessing(i)
  BY <1>0, <1>6, <1>7, LapseShrinks DEF Guessing
<1>11. LiveCodesAreBounded' /\ GuessesAreCounted'
  BY <1>0, <1>7, <1>9, <1>10, LiveShrinks, GuessesShrink DEF OnlyLapse
<1>12. RowsExist'
  BY <1>6, <1>7 DEF RowsExist, OnlyLapse
<1> QED BY <1>8, <1>9, <1>11, <1>12

-----------------------------------------------------------------------------
LEMMA OtpInitInv == OtpInit => OtpInv
<1> SUFFICES ASSUME OtpInit PROVE OtpInv
  OBVIOUS
<1> USE Limits DEF OtpInit
<1>1. NoClient \in Client /\ NoClient.at = "idle"
  BY DEF NoClient, Client, ClientSteps
<1>2. OtpTypeOK
  <2>1. codes \in Seq(Code) /\ Len(codes) <= MaxCodes
    OBVIOUS
  <2>2. /\ counter \in [count : 0..MaxPerHour + 1, left : 0..Forever]
        /\ issued \in Nat /\ deaths \in 0..MaxDeaths
    OBVIOUS
  <2>3. client \in [Clients -> Client] /\ raced \in BOOLEAN /\ orphaned \in BOOLEAN
    BY <1>1
  <2> QED BY <2>1, <2>2, <2>3 DEF OtpTypeOK
<1>3. Live = {} /\ Entitled = {} /\ Creators = {}
  BY <1>1 DEF Live, Entitled, Creators
<1>4. EntitledAreFew
  BY <1>1, <1>3, FS_EmptySet DEF EntitledAreFew
<1>5. CounterIsSettled
  BY <1>1 DEF CounterIsSettled, CounterLapses
<1>6. LiveCodesAreBounded
  <2>1. Cardinality(Clients) \in Nat
    BY FS_CardinalityType
  <2>2. Cardinality(Live) = 0 /\ Cardinality(Creators) = 0
    BY <1>3, FS_EmptySet
  <2> QED BY <2>1, <2>2 DEF LiveCodesAreBounded, Creators
<1>7. RowsExist /\ GuessesAreCounted
  BY <1>1 DEF RowsExist, GuessesAreCounted
<1> QED BY <1>2, <1>4, <1>5, <1>6, <1>7 DEF OtpInv

LEMMA OtpStepInv == OtpInv /\ [OtpNext]_otpVars => OtpInv'
<1> SUFFICES ASSUME OtpInv, [OtpNext]_otpVars PROVE OtpInv'
  OBVIOUS
<1>1. CASE UNCHANGED otpVars
  BY <1>1 DEF otpVars, OtpInv, OtpTypeOK, EntitledAreFew, CounterIsSettled,
              CounterLapses, Forever, LiveCodesAreBounded,
              RowsExist, GuessesAreCounted, Entitled, Live, Guessing
<1>2. ASSUME NEW c \in Clients,
             \/ Incr(c) \/ Expire(c) \/ Limit(c) \/ Discard(c) \/ Create(c)
             \/ Look(c) \/ Count(c) \/ Compare(c) \/ Use(c)
             \/ Die(c)
      PROVE  OtpInv'
  BY <1>2, IncrInv, ExpireInv, LimitInv, DiscardInv, CreateInv,
     LookInv, CountInv, CompareInv, UseInv, DieInv
<1> QED BY <1>1, <1>2, DeliverInv, OtpTickInv DEF OtpNext

\* The strengthened invariant holds throughout.
THEOREM OtpInvariance == OtpSpec => []OtpInv
BY OtpInitInv, OtpStepInv, PTL DEF OtpSpec

\* Rows, counter and requests keep their types.
THEOREM OtpTypes == OtpSpec => []OtpTypeOK
<1>1. OtpInv => OtpTypeOK
  BY DEF OtpInv
<1> QED BY <1>1, OtpInvariance, PTL

\* One life of otp:phone:<phone> lets at most maxPerPhonePerHour codes be created
\* (checkOtpRateLimit in otpService.ts), however the requests overlap.
THEOREM PhoneLimitHolds == OtpSpec => []RateLimitHolds
<1>1. OtpInv => RateLimitHolds
  <2> SUFFICES ASSUME OtpInv PROVE RateLimitHolds
    OBVIOUS
  <2>1. Cardinality(Entitled) \in Nat /\ issued \in Nat
    BY ClientSets, RequestSets DEF OtpInv, OtpTypeOK
  <2> QED BY <2>1, Limits DEF OtpInv, EntitledAreFew, RateLimitHolds
<1> QED BY <1>1, OtpInvariance, PTL

\* The counter otp:phone:<phone> has no lifetime, so that it locks the phone out for good,
\* exactly while a request is between INCR and EXPIRE and after one has died just there
\* (checkOtpRateLimit in otpService.ts); no other death and no overlap has that effect.
THEOREM PhoneIsNotLockedOut == OtpSpec => []CounterLapses
<1>1. OtpInv => CounterLapses
  BY DEF OtpInv, CounterIsSettled
<1> QED BY <1>1, OtpInvariance, PTL

\* No more codes are live at once than requests overlap (sendOtp in otpService.ts).
THEOREM LiveCodesAreFew == OtpSpec => []LiveCodesAreBounded
<1>1. OtpInv => LiveCodesAreBounded
  BY DEF OtpInv
<1> QED BY <1>1, OtpInvariance, PTL

\* No code is guessed at more often than maxAttempts, unless two verifications wrote one
\* count over the other's (verifyOtp in otpService.ts).
THEOREM GuessesAreLimited == OtpSpec => []AttemptsAreLimited
<1>1. OtpInv => AttemptsAreLimited
  <2> SUFFICES ASSUME OtpInv, ~raced, NEW i \in DOMAIN codes
               PROVE  codes[i].guesses <= MaxAttempts
    BY DEF AttemptsAreLimited
  <2>1. codes[i] \in Code
    BY DEF OtpInv, OtpTypeOK
  <2>2. /\ codes[i].guesses \in Nat /\ codes[i].attempts \in Nat
        /\ Cardinality(Guessing(i)) \in Nat
    BY <2>1, ClientSets, RequestSets DEF Code
  <2>3. /\ codes[i].attempts <= MaxAttempts
        /\ codes[i].guesses + Cardinality(Guessing(i)) <= codes[i].attempts
    BY DEF OtpInv, GuessesAreCounted
  <2> QED BY <2>2, <2>3, Limits
<1> QED BY <1>1, OtpInvariance, PTL

-----------------------------------------------------------------------------
(* The cooldown *)

\* Where the ride is open and nothing was lost, a cooldown that still runs has its key, or a
\* caller about to set it.
KeyIsThere ==
    \/ lost \/ ~rideOpen \/ sinceOver >= Cooldown
    \/ keyLeft + sinceOver >= Cooldown
    \/ \E p \in Callers : caller[p].at = "cooling"

\* A key was set within a caller's time of the end of an offer.
KeySuits == keyLeft > 0 => keyLeft + sinceOver <= Cooldown + CallTime

\* The offer that a caller is about to end is still pending, or was over after it was read;
\* and whoever is about to set the key has seen an offer's end.
EndsAreRecent ==
    \A p \in Callers :
       /\ caller[p].at = "cooling" => sinceOver <= caller[p].age
       /\ caller[p].at \in {"withdrawing", "expiring"} =>
             /\ caller[p].bid # NoBid
             /\ pending = caller[p].bid \/ sinceOver <= caller[p].age

\* A request that has passed the check, long after the end of an offer, passed it rightly.
ChecksHold ==
    \A p \in Callers : caller[p].at = "offering" =>
       \/ lost \/ ~rideOpen \/ sinceOver >= Cooldown
       \/ sinceOver <= CallTime + caller[p].age

CooldownInv == CooldownTypeOK /\ KeyIsThere /\ KeySuits /\ EndsAreRecent /\ ChecksHold

LEMMA CooldownInitInv == CooldownInit => CooldownInv
<1> SUFFICES ASSUME CooldownInit PROVE CooldownInv
  OBVIOUS
<1> USE CooldownAssumption DEF CooldownInit, LongAgo
<1>1. \A p \in Callers : caller[p] = NoCaller
  OBVIOUS
<1>2. NoCaller \in Caller
  BY DEF NoCaller, Caller, Posts
<1>3. CooldownTypeOK
  <2>1. caller \in [Callers -> Caller]
    BY <1>2
  <2>2. sinceOver \in 0..LongAgo /\ keyLeft \in 0..Cooldown
    OBVIOUS
  <2> QED BY <2>1, <2>2 DEF CooldownTypeOK
<1>4. KeyIsThere /\ KeySuits
  BY DEF KeyIsThere, KeySuits
<1>5. EndsAreRecent /\ ChecksHold
  BY <1>1 DEF EndsAreRecent, ChecksHold, NoCaller
<1> QED BY <1>3, <1>4, <1>5 DEF CooldownInv

\* What a caller is after it enters, moves on or leaves.
LEMMA CallerSteps ==
    ASSUME caller \in [Callers -> Caller], CallTime \in Nat, NEW p \in Callers, NEW post \in Posts
    PROVE  /\ \A b \in Bids \cup {NoBid} : Enter(p, post, b) =>
                 /\ caller' \in [Callers -> Caller]
                 /\ caller[p].at = "idle"
                 /\ caller'[p] = [at |-> post, bid |-> b, age |-> 0]
                 /\ \A q \in Callers \ {p} : caller'[q] = caller[q]
           /\ MoveTo(p, post) =>
                 /\ caller' \in [Callers -> Caller]
                 /\ caller'[p] = [caller[p] EXCEPT !.at = post]
                 /\ \A q \in Callers \ {p} : caller'[q] = caller[q]
           /\ Leave(p) =>
                 /\ caller' \in [Callers -> Caller]
                 /\ caller'[p] = NoCaller
                 /\ \A q \in Callers \ {p} : caller'[q] = caller[q]
<1>1. ASSUME NEW b \in Bids \cup {NoBid} PROVE [at |-> post, bid |-> b, age |-> 0] \in Caller
  BY DEF Caller
<1>2. [caller[p] EXCEPT !.at = post] \in Caller
  BY DEF Caller
<1>3. NoCaller \in Caller
  BY DEF NoCaller, Caller, Posts
<1> QED BY <1>1, <1>2, <1>3 DEF Enter, MoveTo, Leave

\* What becomes of the clocks when an offer is over, or was already.
LEMMA BidOverSteps ==
    ASSUME NEW b, BidIsOver(b), pending \in Bids \cup {NoBid}, sinceOver \in Nat, lost \in BOOLEAN
    PROVE  /\ pending' \in Bids \cup {NoBid} /\ lost' \in BOOLEAN
           /\ sinceOver' \in {0, sinceOver}
           /\ \/ pending' = pending /\ sinceOver' = sinceOver /\ (lost' <=> lost)
              \/ sinceOver' = 0 /\ pending' = NoBid /\ pending = b
<1>1. CASE b # NoBid /\ pending = b
  BY <1>1 DEF BidIsOver
<1>2. CASE ~(b # NoBid /\ pending = b)
  BY <1>2 DEF BidIsOver
<1> QED BY <1>1, <1>2

LEMMA CooldownStepInv == CooldownInv /\ [CooldownNext]_cooldownVars => CooldownInv'
<1> SUFFICES ASSUME CooldownInv, [CooldownNext]_cooldownVars PROVE CooldownInv'
  OBVIOUS
<1> USE CooldownAssumption DEF LongAgo
<1>1. /\ caller \in [Callers -> Caller] /\ pending \in Bids \cup {NoBid}
      /\ keyLeft \in 0..Cooldown /\ sinceOver \in 0..(Cooldown + CallTime)
      /\ rideOpen \in BOOLEAN /\ lost \in BOOLEAN
  BY DEF CooldownInv, CooldownTypeOK
<1>2. \A p \in Callers : /\ caller[p].at \in Posts /\ caller[p].bid \in Bids \cup {NoBid}
                         /\ caller[p].age \in 0..CallTime
  BY <1>1 DEF Caller
<1>3. KeyIsThere /\ KeySuits /\ EndsAreRecent /\ ChecksHold
  BY DEF CooldownInv
<1>4. ASSUME NEW p \in Callers, OfferCheck(p) PROVE CooldownInv'
  <2>1. /\ caller' \in [Callers -> Caller] /\ caller[p].at = "idle"
        /\ caller'[p] = [at |-> "offering", bid |-> NoBid, age |-> 0]
        /\ \A q \in Callers \ {p} : caller'[q] = caller[q]
    BY <1>1, <1>4, CallerSteps DEF OfferCheck, Posts
  <2>2. CooldownTypeOK'
    BY <1>1, <1>4, <2>1 DEF OfferCheck, CooldownTypeOK
  <2>3. KeyIsThere'
    BY <1>1, <1>2, <1>3, <1>4, <2>1 DEF OfferCheck, KeyIsThere, NoCaller
  <2>4. KeySuits'
    BY <1>1, <1>2, <1>3, <1>4, <2>1 DEF OfferCheck, KeySuits, EndsAreRecent
  <2>5. EndsAreRecent'
    BY <1>1, <1>2, <1>3, <1>4, <2>1 DEF OfferCheck, EndsAreRecent, NoCaller, NewBid
  <2>6. ChecksHold'
    BY <1>1, <1>2, <1>3, <1>4, <2>1 DEF OfferCheck, ChecksHold, NoCaller, KeyIsThere, EndsAreRecent
  <2> QED BY <2>2, <2>3, <2>4, <2>5, <2>6 DEF CooldownInv
<1>5. ASSUME NEW p \in Callers, OfferCommit(p) PROVE CooldownInv'
  <2>1. /\ caller' \in [Callers -> Caller] /\ caller'[p] = NoCaller
        /\ \A q \in Callers \ {p} : caller'[q] = caller[q]
    BY <1>1, <1>5, CallerSteps DEF OfferCommit, Posts
  <2>2. CooldownTypeOK'
    BY <1>1, <1>5, <2>1 DEF OfferCommit, CooldownTypeOK
  <2>3. KeyIsThere'
    BY <1>1, <1>2, <1>3, <1>5, <2>1 DEF OfferCommit, KeyIsThere, NoCaller
  <2>4. KeySuits'
    BY <1>1, <1>2, <1>3, <1>5, <2>1 DEF OfferCommit, KeySuits, EndsAreRecent
  <2>5. EndsAreRecent'
    BY <1>1, <1>2, <1>3, <1>5, <2>1 DEF OfferCommit, EndsAreRecent, NoCaller, NewBid
  <2>6. ChecksHold'
    BY <1>1, <1>2, <1>3, <1>5, <2>1 DEF OfferCommit, ChecksHold, NoCaller, KeyIsThere, EndsAreRecent
  <2> QED BY <2>2, <2>3, <2>4, <2>5, <2>6 DEF CooldownInv
<1>6. ASSUME NEW p \in Callers, WithdrawRead(p) PROVE CooldownInv'
  <2>1. /\ caller' \in [Callers -> Caller] /\ caller[p].at = "idle"
        /\ caller'[p] = [at |-> "withdrawing", bid |-> pending, age |-> 0]
        /\ \A q \in Callers \ {p} : caller'[q] = caller[q]
    BY <1>1, <1>6, CallerSteps DEF WithdrawRead, Posts
  <2>2. CooldownTypeOK'
    BY <1>1, <1>6, <2>1 DEF WithdrawRead, CooldownTypeOK
  <2>3. KeyIsThere'
    BY <1>1, <1>2, <1>3, <1>6, <2>1 DEF WithdrawRead, KeyIsThere, NoCaller
  <2>4. KeySuits'
    BY <1>1, <1>2, <1>3, <1>6, <2>1 DEF WithdrawRead, KeySuits, EndsAreRecent
  <2>5. EndsAreRecent'
    BY <1>1, <1>2, <1>3, <1>6, <2>1 DEF WithdrawRead, EndsAreRecent, NoCaller, NewBid
  <2>6. ChecksHold'
    BY <1>1, <1>2, <1>3, <1>6, <2>1 DEF WithdrawRead, ChecksHold, NoCaller,
       KeyIsThere, EndsAreRecent
  <2> QED BY <2>2, <2>3, <2>4, <2>5, <2>6 DEF CooldownInv
<1>7. ASSUME NEW p \in Callers, WithdrawCommit(p) PROVE CooldownInv'
  <2>1. /\ caller' \in [Callers -> Caller]
        /\ caller'[p] = [caller[p] EXCEPT !.at = "cooling"]
        /\ \A q \in Callers \ {p} : caller'[q] = caller[q]
    BY <1>1, <1>7, CallerSteps DEF WithdrawCommit, Posts
  <2>2. caller'[p].at = "cooling" /\ caller'[p].age \in 0..CallTime
    BY <1>2, <2>1
  <2>3. /\ pending' \in Bids \cup {NoBid} /\ sinceOver' \in {0, sinceOver}
        /\ \/ pending' = pending /\ sinceOver' = sinceOver
           \/ sinceOver' = 0 /\ pending' = NoBid /\ pending = caller[p].bid
    BY <1>1, <1>7, BidOverSteps DEF WithdrawCommit
  <2>4. lost' \in BOOLEAN /\ (sinceOver' = 0 \/ (lost' <=> lost))
    BY <1>1, <1>7, BidOverSteps DEF WithdrawCommit
  <2>5. keyLeft' = keyLeft
    BY <1>7 DEF WithdrawCommit
  <2>6. rideOpen' = rideOpen
    BY <1>7 DEF WithdrawCommit
  <2>7. sinceOver' <= caller'[p].age
    <3>1. caller[p].at \in {"withdrawing", "expiring"} /\ caller[p].bid # NoBid
      BY <1>3, <1>7 DEF WithdrawCommit, EndsAreRecent
    <3>2. CASE pending = caller[p].bid
      BY <1>2, <1>7, <2>1, <3>1, <3>2 DEF WithdrawCommit, BidIsOver
    <3>3. CASE sinceOver <= caller[p].age
      BY <1>1, <1>2, <2>1, <2>3, <3>3
    <3> QED BY <1>3, <3>1, <3>2, <3>3 DEF EndsAreRecent
  <2>8. CooldownTypeOK'
    BY <1>1, <2>1, <2>3, <2>4, <2>5, <2>6 DEF CooldownTypeOK
  <2>9. KeyIsThere'
    BY <2>2 DEF KeyIsThere
  <2>10. KeySuits'
    <3> SUFFICES ASSUME keyLeft > 0 PROVE keyLeft + sinceOver' <= Cooldown + CallTime
      BY <2>5 DEF KeySuits
    <3>1. CASE sinceOver' = 0
      BY <1>1, <3>1
    <3>2. CASE sinceOver' = sinceOver
      BY <1>3, <3>2 DEF KeySuits
    <3> QED BY <2>3, <3>1, <3>2
  <2>11. EndsAreRecent'
    <3> SUFFICES ASSUME NEW q \in Callers
                 PROVE  /\ caller'[q].at = "cooling" => sinceOver' <= caller'[q].age
                        /\ caller'[q].at \in {"withdrawing", "expiring"} =>
                              /\ caller'[q].bid # NoBid
                              /\ pending' = caller'[q].bid \/ sinceOver' <= caller'[q].age
      BY DEF EndsAreRecent
    <3>0. CASE q = p
      BY <2>2, <2>7, <3>0
    <3>1. CASE sinceOver' = 0 /\ caller'[q] = caller[q]
      BY <1>2, <1>3, <3>1 DEF EndsAreRecent
    <3>2. CASE pending' = pending /\ sinceOver' = sinceOver /\ caller'[q] = caller[q]
      BY <1>3, <3>2 DEF EndsAreRecent
    <3> QED BY <2>1, <2>3, <3>0, <3>1, <3>2
  <2>12. ChecksHold'
    <3> SUFFICES ASSUME NEW q \in Callers, caller'[q].at = "offering"
                 PROVE  \/ lost' \/ ~rideOpen' \/ sinceOver' >= Cooldown
                        \/ sinceOver' <= CallTime + caller'[q].age
      BY DEF ChecksHold
    <3>1. caller'[q] = caller[q]
      BY <2>1, <2>2
    <3>2. CASE sinceOver' = 0
      BY <1>2, <3>1, <3>2
    <3>3. CASE sinceOver' # 0
      <4>1. sinceOver' = sinceOver
        BY <2>3, <3>3
      <4>2. lost' <=> lost
        BY <2>4, <3>3
      <4> QED BY <1>3, <2>6, <3>1, <4>1, <4>2 DEF ChecksHold
    <3> QED BY <3>2, <3>3
  <2> QED BY <2>8, <2>9, <2>10, <2>11, <2>12 DEF CooldownInv
<1>8. ASSUME NEW p \in Callers, Decline(p) PROVE CooldownInv'
  <2>1. /\ caller' \in [Callers -> Caller] /\ caller[p].at = "idle"
        /\ caller'[p] = [at |-> "cooling", bid |-> NoBid, age |-> 0]
        /\ \A q \in Callers \ {p} : caller'[q] = caller[q]
    BY <1>1, <1>8, CallerSteps DEF Decline, Posts
  <2>2. caller'[p].at = "cooling" /\ caller'[p].age \in 0..CallTime
    BY <1>2, <2>1
  <2>3. /\ pending' \in Bids \cup {NoBid} /\ sinceOver' \in {0, sinceOver}
        /\ \/ pending' = pending /\ sinceOver' = sinceOver
           \/ sinceOver' = 0 /\ pending' = NoBid /\ pending = pending
    BY <1>1, <1>8, BidOverSteps DEF Decline
  <2>4. lost' \in BOOLEAN /\ (sinceOver' = 0 \/ (lost' <=> lost))
    BY <1>1, <1>8, BidOverSteps DEF Decline
  <2>5. keyLeft' = keyLeft
    BY <1>8 DEF Decline
  <2>6. rideOpen' = rideOpen
    BY <1>8 DEF Decline
  <2>7. sinceOver' <= caller'[p].age
    BY <1>8, <2>1 DEF Decline, BidIsOver
  <2>8. CooldownTypeOK'
    BY <1>1, <2>1, <2>3, <2>4, <2>5, <2>6 DEF CooldownTypeOK
  <2>9. KeyIsThere'
    BY <2>2 DEF KeyIsThere
  <2>10. KeySuits'
    <3> SUFFICES ASSUME keyLeft > 0 PROVE keyLeft + sinceOver' <= Cooldown + CallTime
      BY <2>5 DEF KeySuits
    <3>1. CASE sinceOver' = 0
      BY <1>1, <3>1
    <3>2. CASE sinceOver' = sinceOver
      BY <1>3, <3>2 DEF KeySuits
    <3> QED BY <2>3, <3>1, <3>2
  <2>11. EndsAreRecent'
    <3> SUFFICES ASSUME NEW q \in Callers
                 PROVE  /\ caller'[q].at = "cooling" => sinceOver' <= caller'[q].age
                        /\ caller'[q].at \in {"withdrawing", "expiring"} =>
                              /\ caller'[q].bid # NoBid
                              /\ pending' = caller'[q].bid \/ sinceOver' <= caller'[q].age
      BY DEF EndsAreRecent
    <3>0. CASE q = p
      BY <2>2, <2>7, <3>0
    <3>1. CASE sinceOver' = 0 /\ caller'[q] = caller[q]
      BY <1>2, <1>3, <3>1 DEF EndsAreRecent
    <3>2. CASE pending' = pending /\ sinceOver' = sinceOver /\ caller'[q] = caller[q]
      BY <1>3, <3>2 DEF EndsAreRecent
    <3> QED BY <2>1, <2>3, <3>0, <3>1, <3>2
  <2>12. ChecksHold'
    <3> SUFFICES ASSUME NEW q \in Callers, caller'[q].at = "offering"
                 PROVE  \/ lost' \/ ~rideOpen' \/ sinceOver' >= Cooldown
                        \/ sinceOver' <= CallTime + caller'[q].age
      BY DEF ChecksHold
    <3>1. caller'[q] = caller[q]
      BY <2>1, <2>2
    <3>2. CASE sinceOver' = 0
      BY <1>2, <3>1, <3>2
    <3>3. CASE sinceOver' # 0
      <4>1. sinceOver' = sinceOver
        BY <2>3, <3>3
      <4>2. lost' <=> lost
        BY <2>4, <3>3
      <4> QED BY <1>3, <2>6, <3>1, <4>1, <4>2 DEF ChecksHold
    <3> QED BY <3>2, <3>3
  <2> QED BY <2>8, <2>9, <2>10, <2>11, <2>12 DEF CooldownInv
<1>9. ASSUME NEW p \in Callers, ExpiryRead(p) PROVE CooldownInv'
  <2>1. /\ caller' \in [Callers -> Caller] /\ caller[p].at = "idle"
        /\ caller'[p] = [at |-> "expiring", bid |-> pending, age |-> 0]
        /\ \A q \in Callers \ {p} : caller'[q] = caller[q]
    BY <1>1, <1>9, CallerSteps DEF ExpiryRead, Posts
  <2>2. CooldownTypeOK'
    BY <1>1, <1>9, <2>1 DEF ExpiryRead, CooldownTypeOK
  <2>3. KeyIsThere'
    BY <1>1, <1>2, <1>3, <1>9, <2>1 DEF ExpiryRead, KeyIsThere, NoCaller
  <2>4. KeySuits'
    BY <1>1, <1>2, <1>3, <1>9, <2>1 DEF ExpiryRead, KeySuits, EndsAreRecent
  <2>5. EndsAreRecent'
    BY <1>1, <1>2, <1>3, <1>9, <2>1 DEF ExpiryRead, EndsAreRecent, NoCaller, NewBid
  <2>6. ChecksHold'
    BY <1>1, <1>2, <1>3, <1>9, <2>1 DEF ExpiryRead, ChecksHold, NoCaller, KeyIsThere, EndsAreRecent
  <2> QED BY <2>2, <2>3, <2>4, <2>5, <2>6 DEF CooldownInv
<1>10. ASSUME NEW p \in Callers, ExpiryCommit(p) PROVE CooldownInv'
  <2>1. /\ caller' \in [Callers -> Caller]
        /\ caller'[p] = [caller[p] EXCEPT !.at = "cooling"]
        /\ \A q \in Callers \ {p} : caller'[q] = caller[q]
    BY <1>1, <1>10, CallerSteps DEF ExpiryCommit, Posts
  <2>2. caller'[p].at = "cooling" /\ caller'[p].age \in 0..CallTime
    BY <1>2, <2>1
  <2>3. /\ pending' \in Bids \cup {NoBid} /\ sinceOver' \in {0, sinceOver}
        /\ \/ pending' = pending /\ sinceOver' = sinceOver
           \/ sinceOver' = 0 /\ pending' = NoBid /\ pending = caller[p].bid
    BY <1>1, <1>10, BidOverSteps DEF ExpiryCommit
  <2>4. lost' \in BOOLEAN /\ (sinceOver' = 0 \/ (lost' <=> lost))
    BY <1>1, <1>10, BidOverSteps DEF ExpiryCommit
  <2>5. keyLeft' = keyLeft
    BY <1>10 DEF ExpiryCommit
  <2>6. rideOpen' = rideOpen
    BY <1>10 DEF ExpiryCommit
  <2>7. sinceOver' <= caller'[p].age
    <3>1. caller[p].at \in {"withdrawing", "expiring"} /\ caller[p].bid # NoBid
      BY <1>3, <1>10 DEF ExpiryCommit, EndsAreRecent
    <3>2. CASE pending = caller[p].bid
      BY <1>2, <1>10, <2>1, <3>1, <3>2 DEF ExpiryCommit, BidIsOver
    <3>3. CASE sinceOver <= caller[p].age
      BY <1>1, <1>2, <2>1, <2>3, <3>3
    <3> QED BY <1>3, <3>1, <3>2, <3>3 DEF EndsAreRecent
  <2>8. CooldownTypeOK'
    BY <1>1, <2>1, <2>3, <2>4, <2>5, <2>6 DEF CooldownTypeOK
  <2>9. KeyIsThere'
    BY <2>2 DEF KeyIsThere
  <2>10. KeySuits'
    <3> SUFFICES ASSUME keyLeft > 0 PROVE keyLeft + sinceOver' <= Cooldown + CallTime
      BY <2>5 DEF KeySuits
    <3>1. CASE sinceOver' = 0
      BY <1>1, <3>1
    <3>2. CASE sinceOver' = sinceOver
      BY <1>3, <3>2 DEF KeySuits
    <3> QED BY <2>3, <3>1, <3>2
  <2>11. EndsAreRecent'
    <3> SUFFICES ASSUME NEW q \in Callers
                 PROVE  /\ caller'[q].at = "cooling" => sinceOver' <= caller'[q].age
                        /\ caller'[q].at \in {"withdrawing", "expiring"} =>
                              /\ caller'[q].bid # NoBid
                              /\ pending' = caller'[q].bid \/ sinceOver' <= caller'[q].age
      BY DEF EndsAreRecent
    <3>0. CASE q = p
      BY <2>2, <2>7, <3>0
    <3>1. CASE sinceOver' = 0 /\ caller'[q] = caller[q]
      BY <1>2, <1>3, <3>1 DEF EndsAreRecent
    <3>2. CASE pending' = pending /\ sinceOver' = sinceOver /\ caller'[q] = caller[q]
      BY <1>3, <3>2 DEF EndsAreRecent
    <3> QED BY <2>1, <2>3, <3>0, <3>1, <3>2
  <2>12. ChecksHold'
    <3> SUFFICES ASSUME NEW q \in Callers, caller'[q].at = "offering"
                 PROVE  \/ lost' \/ ~rideOpen' \/ sinceOver' >= Cooldown
                        \/ sinceOver' <= CallTime + caller'[q].age
      BY DEF ChecksHold
    <3>1. caller'[q] = caller[q]
      BY <2>1, <2>2
    <3>2. CASE sinceOver' = 0
      BY <1>2, <3>1, <3>2
    <3>3. CASE sinceOver' # 0
      <4>1. sinceOver' = sinceOver
        BY <2>3, <3>3
      <4>2. lost' <=> lost
        BY <2>4, <3>3
      <4> QED BY <1>3, <2>6, <3>1, <4>1, <4>2 DEF ChecksHold
    <3> QED BY <3>2, <3>3
  <2> QED BY <2>8, <2>9, <2>10, <2>11, <2>12 DEF CooldownInv
<1>11. ASSUME NEW p \in Callers, SetCooldown(p) PROVE CooldownInv'
  <2>1. /\ caller' \in [Callers -> Caller] /\ caller'[p] = NoCaller
        /\ \A q \in Callers \ {p} : caller'[q] = caller[q]
    BY <1>1, <1>11, CallerSteps DEF SetCooldown, Posts
  <2>2. CooldownTypeOK'
    <3>1. lost' \in BOOLEAN
      BY <1>1, <1>11 DEF SetCooldown
    <3>2. keyLeft' \in 0..Cooldown
      BY <1>1, <1>11 DEF SetCooldown
    <3> QED BY <1>1, <1>11, <2>1, <3>1, <3>2 DEF SetCooldown, CooldownTypeOK
  <2>3. KeyIsThere'
    BY <1>1, <1>2, <1>3, <1>11, <2>1 DEF SetCooldown, KeyIsThere, NoCaller
  <2>4. KeySuits'
    BY <1>1, <1>2, <1>3, <1>11, <2>1 DEF SetCooldown, KeySuits, EndsAreRecent
  <2>5. EndsAreRecent'
    BY <1>1, <1>2, <1>3, <1>11, <2>1 DEF SetCooldown, EndsAreRecent, NoCaller, NewBid
  <2>6. ChecksHold'
    BY <1>1, <1>2, <1>3, <1>11, <2>1 DEF SetCooldown, ChecksHold, NoCaller,
       KeyIsThere, EndsAreRecent
  <2> QED BY <2>2, <2>3, <2>4, <2>5, <2>6 DEF CooldownInv
<1>12. ASSUME NEW p \in Callers, GiveUp(p) PROVE CooldownInv'
  <2>1. /\ caller' \in [Callers -> Caller] /\ caller'[p] = NoCaller
        /\ \A q \in Callers \ {p} : caller'[q] = caller[q]
    BY <1>1, <1>12, CallerSteps DEF GiveUp, Posts
  <2>2. CooldownTypeOK'
    BY <1>1, <1>12, <2>1 DEF GiveUp, CooldownTypeOK
  <2>3. KeyIsThere'
    BY <1>1, <1>2, <1>3, <1>12, <2>1 DEF GiveUp, KeyIsThere, NoCaller
  <2>4. KeySuits'
    BY <1>1, <1>2, <1>3, <1>12, <2>1 DEF GiveUp, KeySuits, EndsAreRecent
  <2>5. EndsAreRecent'
    BY <1>1, <1>2, <1>3, <1>12, <2>1 DEF GiveUp, EndsAreRecent, NoCaller, NewBid
  <2>6. ChecksHold'
    BY <1>1, <1>2, <1>3, <1>12, <2>1 DEF GiveUp, ChecksHold, NoCaller, KeyIsThere, EndsAreRecent
  <2> QED BY <2>2, <2>3, <2>4, <2>5, <2>6 DEF CooldownInv
<1>13. ASSUME NEW p \in Callers, DieBeforeKey(p) PROVE CooldownInv'
  <2>1. /\ caller' \in [Callers -> Caller] /\ caller'[p] = NoCaller
        /\ \A q \in Callers \ {p} : caller'[q] = caller[q]
    BY <1>1, <1>13, CallerSteps DEF DieBeforeKey, Posts
  <2>2. CooldownTypeOK'
    BY <1>1, <1>13, <2>1 DEF DieBeforeKey, CooldownTypeOK
  <2>3. KeyIsThere'
    BY <1>1, <1>2, <1>3, <1>13, <2>1 DEF DieBeforeKey, KeyIsThere, NoCaller
  <2>4. KeySuits'
    BY <1>1, <1>2, <1>3, <1>13, <2>1 DEF DieBeforeKey, KeySuits, EndsAreRecent
  <2>5. EndsAreRecent'
    BY <1>1, <1>2, <1>3, <1>13, <2>1 DEF DieBeforeKey, EndsAreRecent, NoCaller, NewBid
  <2>6. ChecksHold'
    BY <1>1, <1>2, <1>3, <1>13, <2>1 DEF DieBeforeKey, ChecksHold, NoCaller,
       KeyIsThere, EndsAreRecent
  <2> QED BY <2>2, <2>3, <2>4, <2>5, <2>6 DEF CooldownInv
<1>14. CASE RideCloses
  <2>1. /\ pending' \in Bids \cup {NoBid} /\ sinceOver' \in {0, sinceOver}
        /\ \/ pending' = pending /\ sinceOver' = sinceOver
           \/ sinceOver' = 0
    BY <1>1, <1>14, BidOverSteps DEF RideCloses
  <2>2. lost' \in BOOLEAN
    BY <1>1, <1>14, BidOverSteps DEF RideCloses
  <2>3. rideOpen' = FALSE
    BY <1>14 DEF RideCloses
  <2>4. keyLeft' = keyLeft /\ caller' = caller
    BY <1>14 DEF RideCloses
  <2>5. CooldownTypeOK'
    <3>1. rideOpen' \in BOOLEAN
      BY <2>3
    <3>2. sinceOver' \in 0..LongAgo
      BY <1>1, <2>1
    <3> QED BY <1>1, <2>1, <2>2, <2>4, <3>1, <3>2 DEF CooldownTypeOK
  <2>6. KeyIsThere' /\ ChecksHold'
    BY <2>3 DEF KeyIsThere, ChecksHold
  <2>7. KeySuits'
    <3> SUFFICES ASSUME keyLeft > 0 PROVE keyLeft + sinceOver' <= Cooldown + CallTime
      BY <2>4 DEF KeySuits
    <3>1. CASE sinceOver' = 0
      BY <1>1, <3>1
    <3>2. CASE sinceOver' = sinceOver
      BY <1>3, <3>2 DEF KeySuits
    <3> QED BY <2>1, <3>1, <3>2
  <2>8. EndsAreRecent'
    <3> SUFFICES ASSUME NEW q \in Callers
                 PROVE  /\ caller'[q].at = "cooling" => sinceOver' <= caller'[q].age
                        /\ caller'[q].at \in {"withdrawing", "expiring"} =>
                              /\ caller'[q].bid # NoBid
                              /\ pending' = caller'[q].bid \/ sinceOver' <= caller'[q].age
      BY DEF EndsAreRecent
    <3>1. CASE sinceOver' = 0 /\ caller'[q] = caller[q]
      BY <1>2, <1>3, <3>1 DEF EndsAreRecent
    <3>2. CASE pending' = pending /\ sinceOver' = sinceOver /\ caller'[q] = caller[q]
      BY <1>3, <3>2 DEF EndsAreRecent
    <3> QED BY <2>1, <2>4, <3>1, <3>2
  <2> QED BY <2>5, <2>6, <2>7, <2>8 DEF CooldownInv
<1>15. CASE CooldownTick
  <2>1. \A p \in Callers :
           /\ caller'[p].at = caller[p].at /\ caller'[p].bid = caller[p].bid
           /\ caller'[p].age = IF caller[p].at = "idle" THEN caller[p].age ELSE caller[p].age + 1
    BY <1>1, <1>2, <1>15 DEF CooldownTick, Caller
  <2>2. CooldownTypeOK'
    <3>1. \A p \in Callers : caller'[p] \in Caller
      BY <1>1, <1>2, <1>15 DEF CooldownTick, Caller
    <3>2. caller' \in [Callers -> Caller]
      BY <3>1, <1>15 DEF CooldownTick
    <3>3. keyLeft' \in 0..Cooldown /\ sinceOver' \in 0..LongAgo
      BY <1>1, <1>15 DEF CooldownTick
    <3> QED BY <1>1, <3>2, <3>3, <1>15 DEF CooldownTick, CooldownTypeOK
  <2>3. KeyIsThere'
    BY <1>1, <1>2, <1>3, <1>15, <2>1 DEF CooldownTick, KeyIsThere
  <2>4. KeySuits'
    BY <1>1, <1>3, <1>15 DEF CooldownTick, KeySuits
  <2>5. EndsAreRecent'
    BY <1>1, <1>2, <1>3, <1>15, <2>1 DEF CooldownTick, EndsAreRecent
  <2>6. ChecksHold'
    BY <1>1, <1>2, <1>3, <1>15, <2>1 DEF CooldownTick, ChecksHold
  <2> QED BY <2>2, <2>3, <2>4, <2>5, <2>6 DEF CooldownInv
<1>16. CASE UNCHANGED cooldownVars
  BY <1>16 DEF cooldownVars, CooldownInv, CooldownTypeOK, KeyIsThere, KeySuits, EndsAreRecent,
               ChecksHold
<1> QED BY <1>4, <1>5, <1>6, <1>7, <1>8, <1>9, <1>10, <1>11, <1>12, <1>13, <1>14, <1>15, <1>16
    DEF CooldownNext

\* Keys, callers and clocks keep to CooldownInv, for all numbers of callers and all times.
THEOREM CooldownInvariance == CooldownSpec => []CooldownInv
BY CooldownInitInv, CooldownStepInv, PTL DEF CooldownSpec

\* Callers, key and clocks keep their types, for every length of the cooldown and of requests.
THEOREM CooldownTypes == CooldownSpec => []CooldownTypeOK
BY CooldownInvariance, PTL DEF CooldownInv

\* No driver is held back for longer than the cooldown and one request's time.
THEOREM CooldownEnds == CooldownSpec => []CooldownLapses
<1>1. CooldownInv => CooldownLapses
  BY CooldownAssumption DEF CooldownInv, CooldownTypeOK, LongAgo, KeySuits, CooldownLapses
<1> QED BY <1>1, CooldownInvariance, PTL

\* acceptRide lets an offer pass within the cooldown only at its beginning, or when the key
\* was lost.
THEOREM ReOffersAreHeldBack == CooldownSpec => ReOffersWait
<1>1. CooldownInv /\ [CooldownNext]_cooldownVars
      => [Offered => sinceOver <= 2 * CallTime \/ sinceOver >= Cooldown \/ lost]_cooldownVars
  <2> SUFFICES ASSUME CooldownInv, CooldownNext, Offered
               PROVE  sinceOver <= 2 * CallTime \/ sinceOver >= Cooldown \/ lost
    OBVIOUS
  <2>1. PICK p \in Callers : OfferCommit(p)
    BY DEF CooldownNext, Offered, OfferCheck, WithdrawRead, WithdrawCommit, Decline, ExpiryRead,
           ExpiryCommit, SetCooldown, GiveUp, DieBeforeKey, RideCloses, CooldownTick, BidIsOver
  <2>2. caller[p].age \in 0..CallTime /\ CallTime \in Nat /\ sinceOver \in Nat
    BY CooldownAssumption DEF CooldownInv, CooldownTypeOK, Caller, LongAgo
  <2>3. lost \/ sinceOver >= Cooldown \/ sinceOver <= CallTime + caller[p].age
    BY <2>1 DEF CooldownInv, ChecksHold, OfferCommit
  <2> QED BY <2>2, <2>3
<1> QED BY <1>1, CooldownInvariance, PTL DEF CooldownSpec, ReOffersWait
=============================================================================
