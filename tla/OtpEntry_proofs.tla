--------------------------- MODULE OtpEntry_proofs ---------------------------
(***************************************************************************)
(* The one-time code for any devices, requests under way and bounds: the   *)
(* types, one session per challenge, one live challenge, the cooldown, and *)
(* a code field that is never left open for an invalidated challenge.      *)
(***************************************************************************)
EXTENDS OtpEntry, SequenceTheorems, TLAPS

-----------------------------------------------------------------------------
(* The invariant. *)

Asks(f) == flight[f].op \in {"request", "resend"}
Awaited(f) == flight[f].live /\ flight[f].waits

\* Requests and screens name challenges that exist; a message under way is of a
\* challenge of its own, whose outcome is not known yet.
Refers(r) ==
    /\ r.chal <= Len(challenges)
    /\ r.waits => r.phase # "none"
    /\ r.phase # "none" => r.dev \in Devices /\ r.op # "none"
    /\ r.op = "verify" => r.chal # 0
    /\ r.phase = "answered" => r.waits /\ r.answer # "none"
    /\ r.phase = "sending" =>
         /\ r.op \in {"request", "resend"} /\ r.chal # 0
         /\ challenges[r.chal].status = "PENDING"
Referring ==
    /\ \A d \in Devices : screen[d].chal <= Len(challenges)
    /\ \A f \in Flights : Refers(flight[f])
    /\ \A f, g \in Flights :
         flight[f].phase = "sending" /\ flight[g].phase = "sending" /\ flight[f].chal = flight[g].chal
         => f = g

\* A challenge that was answered with a session is consumed.
Granted ==
    \A n \in 1 .. MaxChallenges :
        /\ grants[n] <= 1
        /\ (n > Len(challenges) \/ ~challenges[n].consumed) => grants[n] = 0

\* Only the newest challenge may be open.
LiveLast == \A n \in DOMAIN challenges : Open(challenges[n]) => n = Len(challenges)

\* A screen waits for one request at a time.
OneAwaited ==
    /\ \A f \in Flights : Awaited(f) => screen[flight[f].dev].loading
    /\ \A f, g \in Flights : Awaited(f) /\ Awaited(g) /\ flight[f].dev = flight[g].dev => f = g

\* The challenges a screen has asked for since it opened.
Visits(d) == {n \in DOMAIN challenges : challenges[n].by = d /\ challenges[n].visit}

\* The request a code field waits for may have replaced its challenge.
Replacing(f) ==
    /\ Awaited(f) /\ Asks(f)
    /\ flight[f].phase = "sending" \/ (flight[f].phase = "answered" /\ flight[f].answer # "limited")
Carrying(f) ==
    /\ Awaited(f) /\ Asks(f)
    /\ flight[f].phase = "sending" \/ (flight[f].phase = "answered" /\ flight[f].answer = "ok")
Current ==
    /\ \A d \in Devices : screen[d].view = "code" =>
         \/ \A n \in Visits(d) : n <= screen[d].chal
         \/ \E f \in Flights : flight[f].dev = d /\ Replacing(f)
    /\ \A f \in Flights : Carrying(f) => \A n \in Visits(flight[f].dev) : n <= flight[f].chal

\* The strengthenings: what is well formed, what the service promises on top of
\* it, and what the screens do.
Base == OtpTypeOK /\ Referring
ServiceInv == Granted /\ LiveLast /\ CooldownHeld
ClientInv == OneAwaited /\ Current

-----------------------------------------------------------------------------
(* Types. *)

LEMMA NoFlightType == NoFlight \in Request
  BY OtpAssumption DEF NoFlight, Request, ChallengeIds

LEMMA BlankType == Blank \in Screen
  BY OtpAssumption DEF Blank, Screen, Views, ChallengeIds

LEMMA LaunchedType ==
    ASSUME OtpTypeOK, NEW f \in Flights, NEW d \in Devices, NEW chal \in ChallengeIds,
           NEW op \in {"check", "request", "resend", "verify", "logout"}, NEW right \in BOOLEAN
    PROVE  LET l == Launched(f, d, op, chal, right) IN
           /\ l \in [Flights -> Request]
           /\ \A g \in Flights : g # f => l[g] = flight[g]
           /\ l[f].dev = d /\ l[f].op = op /\ l[f].phase = "sent" /\ l[f].chal = chal
           /\ l[f].waits /\ l[f].live
<1> DEFINE new == [NoFlight EXCEPT !.dev = d, !.op = op, !.phase = "sent", !.waits = TRUE,
                                   !.live = TRUE, !.chal = chal, !.bearer = held[d],
                                   !.right = right]
<1>1. held[d] \in ChallengeIds
  BY DEF OtpTypeOK
<1>2. new \in Request
  BY <1>1, NoFlightType DEF Request
<1>3. new.dev = d /\ new.op = op /\ new.phase = "sent" /\ new.chal = chal
  BY NoFlightType DEF Request
<1>4. new.waits /\ new.live
  BY NoFlightType DEF Request
<1>5. Launched(f, d, op, chal, right) = [flight EXCEPT ![f] = new]
  BY DEF Launched
<1> HIDE DEF new
<1> QED  BY <1>2, <1>3, <1>4, <1>5 DEF OtpTypeOK

\* A request that is answered is heard, or is over.
LEMMA AnsweredType ==
    ASSUME OtpTypeOK, NEW f \in Flights, NEW answer \in {"ok", "denied", "limited", "unavailable"}
    PROVE  /\ Answered(f, answer) \in [Flights -> Request]
           /\ \A g \in Flights : g # f => Answered(f, answer)[g] = flight[g]
           /\ Answered(f, answer)[f] =
                IF flight[f].waits THEN [flight[f] EXCEPT !.phase = "answered", !.answer = answer]
                ELSE NoFlight
<1>1. flight[f] \in Request
  BY DEF OtpTypeOK
<1>2. [flight[f] EXCEPT !.phase = "answered", !.answer = answer] \in Request
  BY <1>1 DEF Request
<1> QED  BY <1>1, <1>2, NoFlightType DEF Answered, OtpTypeOK

\* What a screen becomes is a screen.
LEMMA ShownType ==
    ASSUME OtpTypeOK, NEW d \in Devices, NEW r \in Request,
           NEW answer \in {"ok", "denied", "limited", "unavailable"}
    PROVE  Shown(d, r, answer) \in Screen
<1> screen[d] \in Screen /\ r.chal \in ChallengeIds
  BY DEF OtpTypeOK, Request
<1>1. Blank \in Screen /\ AfterCheck(answer) \in Screen /\ AfterVerify(screen[d], answer) \in Screen
         /\ AfterLogout(screen[d], answer) \in Screen
  BY BlankType DEF AfterCheck, AfterVerify, AfterLogout, Screen, Views, Blank
<1>2. \A a : AppTransition(screen[d], r, a) \in Screen
  BY BlankType DEF AppTransition, Screen, Views, Blank
<1> QED  BY <1>1, <1>2 DEF Shown, FormTransition

-----------------------------------------------------------------------------
(* Types and references, action by action. *)

\* A step of a screen: some requests change, none of them into sending.
LEMMA QuietKeeps ==
    ASSUME Base, UNCHANGED <<clock, challenges, grants, owned>>,
           sessions' \subseteq sessions,
           screen' \in [Devices -> Screen], held' \in [Devices -> ChallengeIds],
           flight' \in [Flights -> Request],
           \A d \in Devices : screen'[d].chal <= Len(challenges),
           \A g \in Flights : flight'[g] = flight[g] \/ (Refers(flight'[g]) /\ flight'[g].phase # "sending")
    PROVE  Base'
<1>1. OtpTypeOK'
  BY DEF Base, OtpTypeOK
<1>2. \A g \in Flights : Refers(flight[g])'
  BY DEF Base, Referring, Refers
<1>3. \A f, g \in Flights :
         flight'[f].phase = "sending" /\ flight'[g].phase = "sending" /\ flight'[f].chal = flight'[g].chal
         => f = g
  BY DEF Base, Referring
<1> QED  BY <1>1, <1>2, <1>3 DEF Base, Referring

LEMMA NoFlightRefers == ASSUME Base PROVE Refers(NoFlight)
  BY DEF Base, OtpTypeOK, Refers, NoFlight

\* A screen sends a request about the challenge it shows, or about none.
LEMMA LaunchKeeps ==
    ASSUME Base, NEW f \in Flights, NEW d \in Devices, NEW chal \in ChallengeIds,
           NEW op \in {"check", "request", "resend", "verify", "logout"}, NEW right \in BOOLEAN,
           UNCHANGED <<clock, serverVars, held, owned>>,
           chal <= Len(challenges), op = "verify" => chal # 0,
           flight' = Launched(f, d, op, chal, right),
           NEW s \in Screen, s.chal <= Len(challenges), screen' = [screen EXCEPT ![d] = s]
    PROVE  Base'
<1>1. /\ flight' \in [Flights -> Request]
      /\ \A g \in Flights : g # f => flight'[g] = flight[g]
      /\ flight'[f].dev = d /\ flight'[f].op = op /\ flight'[f].phase = "sent" /\ flight'[f].chal = chal
      /\ flight'[f].waits
  BY LaunchedType DEF Base
<1>2. Refers(flight'[f])
  BY <1>1 DEF Refers
<1>3. screen' \in [Devices -> Screen] /\ \A x \in Devices : screen'[x].chal <= Len(challenges)
  BY DEF Base, OtpTypeOK, Referring
<1>4. held' \in [Devices -> ChallengeIds] /\ sessions' \subseteq sessions
  BY DEF Base, OtpTypeOK, serverVars
<1> QED  BY <1>1, <1>2, <1>3, <1>4, QuietKeeps DEF serverVars

\* The service answers: nothing but the request changes.
LEMMA AnswerKeeps ==
    ASSUME Base, NEW f \in Flights, NEW answer \in {"ok", "denied", "limited", "unavailable"},
           flight' = Answered(f, answer),
           sessions' \subseteq sessions, UNCHANGED <<clock, challenges, grants, screen, held, owned>>
    PROVE  Base'
<1>1. /\ flight' \in [Flights -> Request]
      /\ \A g \in Flights : g # f => flight'[g] = flight[g]
      /\ flight'[f] = IF flight[f].waits THEN [flight[f] EXCEPT !.phase = "answered", !.answer = answer]
                       ELSE NoFlight
  BY AnsweredType DEF Base
<1>2. Refers(flight'[f]) /\ flight'[f].phase # "sending"
  <2>1. CASE ~flight[f].waits
    BY <1>1, <2>1, NoFlightRefers DEF NoFlight
  <2>2. CASE flight[f].waits
    <3>1. Refers(flight[f]) /\ flight[f] \in Request
      BY DEF Base, Referring, OtpTypeOK
    <3>2. flight'[f] = [flight[f] EXCEPT !.phase = "answered", !.answer = answer]
      BY <1>1, <2>2
    <3> QED  BY <2>2, <3>1, <3>2 DEF Refers, Request
  <2> QED  BY <2>1, <2>2
<1>3. /\ screen' \in [Devices -> Screen] /\ held' \in [Devices -> ChallengeIds]
      /\ \A d \in Devices : screen'[d].chal <= Len(challenges)
  BY DEF Base, OtpTypeOK, Referring
<1> QED  BY <1>1, <1>2, <1>3, QuietKeeps

LEMMA Lengths ==
    ASSUME OtpTypeOK
    PROVE  /\ Len(challenges) \in Nat /\ Len(challenges) \in ChallengeIds
           /\ DOMAIN challenges = 1 .. Len(challenges)
           /\ challenges \in [1 .. Len(challenges) -> Challenge]
<1>1. Len(challenges) \in Nat /\ DOMAIN challenges = 1 .. Len(challenges)
         /\ challenges \in [1 .. Len(challenges) -> Challenge]
  BY LenProperties DEF OtpTypeOK
<1> QED  BY <1>1, OtpAssumption DEF OtpTypeOK, ChallengeIds

LEMMA FunctionAsSeq ==
    ASSUME NEW S, NEW n \in Nat, NEW e \in [1 .. n -> S]
    PROVE  e \in Seq(S) /\ Len(e) = n
<1>1. e \in Seq(S)
  BY SeqDef
<1>2. DOMAIN e = 1 .. n /\ DOMAIN e = 1 .. Len(e) /\ Len(e) \in Nat
  BY <1>1, LenProperties
<1> QED  BY <1>1, <1>2

\* The records of challenges change in place.
LEMMA RecordsKeep ==
    ASSUME Base, UNCHANGED <<clock, owned>>,
           challenges' \in [1 .. Len(challenges) -> Challenge],
           sessions' \subseteq 1 .. Len(challenges), grants' \in [1 .. MaxChallenges -> Nat],
           screen' \in [Devices -> Screen], held' \in [Devices -> ChallengeIds],
           flight' \in [Flights -> Request],
           \A d \in Devices : screen'[d].chal <= Len(challenges),
           \A g \in Flights :
              \/ Refers(flight'[g]) /\ flight'[g].phase # "sending"
              \/ /\ flight'[g] = flight[g]
                 /\ flight[g].phase = "sending" =>
                       challenges'[flight[g].chal].status = challenges[flight[g].chal].status
    PROVE  Base'
<1>1. challenges' \in Seq(Challenge) /\ Len(challenges') = Len(challenges)
  BY FunctionAsSeq, Lengths DEF Base
<1>2. DOMAIN challenges' = 1 .. Len(challenges)
  OBVIOUS
<1>3. OtpTypeOK'
  BY <1>1, <1>2 DEF Base, OtpTypeOK
<1>4. ASSUME NEW g \in Flights PROVE Refers(flight[g])'
  <2>1. CASE Refers(flight'[g]) /\ flight'[g].phase # "sending"
    BY <1>1, <2>1 DEF Refers
  <2>2. CASE flight'[g] = flight[g] /\ (flight[g].phase = "sending" =>
                       challenges'[flight[g].chal].status = challenges[flight[g].chal].status)
    <3>1. Refers(flight[g])
      BY DEF Base, Referring
    <3> QED  BY <1>1, <2>2, <3>1 DEF Refers
  <2> QED  BY <2>1, <2>2
<1>5. \A f, g \in Flights :
         flight'[f].phase = "sending" /\ flight'[g].phase = "sending" /\ flight'[f].chal = flight'[g].chal
         => f = g
  BY DEF Base, Referring
<1> QED  BY <1>1, <1>3, <1>4, <1>5 DEF Base, Referring

-----------------------------------------------------------------------------

LEMMA ScreenFacts ==
    ASSUME Base, NEW d \in Devices
    PROVE  /\ screen[d] \in Screen /\ screen[d].chal \in ChallengeIds /\ screen[d].chal <= Len(challenges)
           /\ held[d] \in ChallengeIds
           /\ Blank \in Screen /\ Blank.chal = 0 /\ 0 <= Len(challenges) /\ 0 \in ChallengeIds
<1>1. screen[d] \in Screen /\ held[d] \in ChallengeIds
  BY DEF Base, OtpTypeOK
<1>2. Blank.chal = 0 /\ 0 <= Len(challenges) /\ 0 \in ChallengeIds
  BY Lengths, OtpAssumption DEF Base, Blank, ChallengeIds
<1> QED  BY <1>1, <1>2, BlankType DEF Screen, Base, Referring

\* A screen changes without a request.
LEMMA ScreenKeeps ==
    ASSUME Base, NEW d \in Devices, NEW s \in Screen, s.chal <= Len(challenges),
           screen' = [screen EXCEPT ![d] = s], UNCHANGED <<clock, serverVars, held, flight, owned>>
    PROVE  Base'
<1>1. screen' \in [Devices -> Screen] /\ \A x \in Devices : screen'[x].chal <= Len(challenges)
  BY DEF Base, OtpTypeOK, Referring
<1>2. held' \in [Devices -> ChallengeIds] /\ flight' \in [Flights -> Request] /\ sessions' \subseteq sessions
  BY DEF Base, OtpTypeOK, serverVars
<1> QED  BY <1>1, <1>2, QuietKeeps DEF serverVars

LEMMA UseKeeps ==
    ASSUME Base, NEW f \in Flights, NEW d \in Devices, Use(f, d), owned' = owned
    PROVE  Base'
<1> DEFINE s == [screen[d] EXCEPT !.loading = TRUE]
<1>0. s \in Screen /\ s.chal <= Len(challenges)
  BY ScreenFacts DEF Screen
<1>1. CASE Check(f, d)
  <2>1. CASE held[d] = 0
    <3> DEFINE b == [Blank EXCEPT !.view = "phone"]
    <3>1. b \in Screen /\ b.chal <= Len(challenges)
      BY ScreenFacts DEF Screen, Blank, Views
    <3>2. screen' = [screen EXCEPT ![d] = b] /\ UNCHANGED <<clock, serverVars, held, flight, owned>>
      BY <1>1, <2>1 DEF Check, Checked
    <3> HIDE DEF b
    <3> QED  BY <3>1, <3>2, ScreenKeeps
  <2>2. CASE held[d] # 0
    <3> DEFINE c == [screen[d] EXCEPT !.view = "checking", !.loading = TRUE]
    <3>1. c \in Screen /\ c.chal <= Len(challenges)
      BY ScreenFacts DEF Screen, Views
    <3>2. screen' = [screen EXCEPT ![d] = c] /\ flight' = Launched(f, d, "check", 0, FALSE)
          /\ UNCHANGED <<clock, serverVars, held, owned>>
      BY <1>1, <2>2 DEF Check, Checked
    <3> HIDE DEF c
    <3> QED  BY <3>1, <3>2, ScreenFacts, LaunchKeeps
  <2> QED  BY <2>1, <2>2
<1>2. ASSUME NEW resend \in BOOLEAN, Ask(f, d, resend) PROVE Base'
  <2> DEFINE op == IF resend THEN "resend" ELSE "request"
  <2>1. screen' = [screen EXCEPT ![d] = s] /\ flight' = Launched(f, d, op, screen[d].chal, FALSE)
        /\ UNCHANGED <<clock, serverVars, held, owned>>
    BY <1>2 DEF Ask
  <2>2. op \in {"request", "resend"}
    OBVIOUS
  <2> HIDE DEF s, op
  <2> QED  BY <1>0, <2>1, <2>2, ScreenFacts, LaunchKeeps
<1>3. ASSUME NEW right \in BOOLEAN, Enter(f, d, right) PROVE Base'
  <2>1. screen' = [screen EXCEPT ![d] = s] /\ flight' = Launched(f, d, "verify", screen[d].chal, right)
        /\ screen[d].chal # 0 /\ UNCHANGED <<clock, serverVars, held, owned>>
    BY <1>3 DEF Enter
  <2> HIDE DEF s
  <2> QED  BY <1>0, <2>1, ScreenFacts, LaunchKeeps
<1>4. CASE SignedOut(f, d) /\ UNCHANGED <<clock, serverVars, held>>
  <2>1. CASE held[d] = 0
    <3> DEFINE b == [Blank EXCEPT !.view = "phone"]
    <3>1. b \in Screen /\ b.chal <= Len(challenges)
      BY ScreenFacts DEF Screen, Blank, Views
    <3>2. screen' = [screen EXCEPT ![d] = b] /\ UNCHANGED <<clock, serverVars, held, flight, owned>>
      BY <1>4, <2>1 DEF SignedOut
    <3> HIDE DEF b
    <3> QED  BY <3>1, <3>2, ScreenKeeps
  <2>2. CASE held[d] # 0
    <3>1. screen' = [screen EXCEPT ![d] = s] /\ flight' = Launched(f, d, "logout", 0, FALSE)
          /\ UNCHANGED <<clock, serverVars, held, owned>>
      BY <1>4, <2>2 DEF SignedOut
    <3> HIDE DEF s
    <3> QED  BY <1>0, <3>1, ScreenFacts, LaunchKeeps
  <2> QED  BY <2>1, <2>2
<1> QED  BY <1>1, <1>2, <1>3, <1>4 DEF Use, AppCheck, FormCheck, AppRequest, FormRequest, AppVerify,
             FormVerify, AppLogout, FormLogout

LEMMA EditPhoneKeeps == ASSUME Base, NEW d \in Devices, EditPhone(d), owned' = owned PROVE Base'
<1> DEFINE b == [Blank EXCEPT !.view = "phone"]
<1>1. b \in Screen /\ b.chal <= Len(challenges)
  BY ScreenFacts DEF Screen, Blank, Views
<1>2. screen' = [screen EXCEPT ![d] = b] /\ UNCHANGED <<clock, serverVars, held, flight, owned>>
  BY DEF EditPhone
<1> HIDE DEF b
<1> QED  BY <1>1, <1>2, ScreenKeeps

LEMMA FlightFacts ==
    ASSUME Base, NEW f \in Flights
    PROVE  flight[f] \in Request /\ Refers(flight[f])
  BY DEF Base, OtpTypeOK, Referring

LEMMA LeaveKeeps == ASSUME Base, NEW d \in Devices, Leave(d), owned' = owned PROVE Base'
<1>1. challenges' \in [1 .. Len(challenges) -> Challenge]
  <2>1. \A n \in 1 .. Len(challenges) : challenges[n] \in Challenge
                                          /\ [challenges[n] EXCEPT !.visit = FALSE] \in Challenge
    BY Lengths DEF Base, Challenge
  <2> QED  BY <2>1, Lengths DEF Leave, Base
<1>2. \A n \in 1 .. Len(challenges) : challenges'[n].status = challenges[n].status
  BY Lengths DEF Leave, Base, Challenge
<1>3. ASSUME NEW g \in Flights
      PROVE  /\ flight'[g] \in Request
             /\ flight'[g].phase = flight[g].phase /\ flight'[g].chal = flight[g].chal
             /\ Refers(flight'[g])
  BY FlightFacts DEF Leave, Request, Refers
<1>4. flight' = [g \in Flights |-> flight'[g]]
  BY DEF Leave
<1>5. screen' \in [Devices -> Screen] /\ \A x \in Devices : screen'[x].chal <= Len(challenges)
  BY ScreenFacts DEF Leave, Base, OtpTypeOK
<1>6. challenges' \in Seq(Challenge) /\ Len(challenges') = Len(challenges)
  BY <1>1, FunctionAsSeq, Lengths DEF Base
<1>7. DOMAIN challenges' = 1 .. Len(challenges)
  BY <1>1
<1>8. OtpTypeOK'
  BY <1>3, <1>4, <1>5, <1>6, <1>7, Lengths DEF Leave, Base, OtpTypeOK
<1>9. ASSUME NEW g \in Flights PROVE Refers(flight[g])'
  <2>1. flight'[g].chal \in ChallengeIds
    BY <1>3 DEF Request
  <2>2. flight'[g].chal # 0 => flight'[g].chal \in 1 .. Len(challenges)
    BY <1>3, <2>1, OtpAssumption DEF Refers, ChallengeIds
  <2> QED  BY <1>2, <1>3, <1>6, <2>2 DEF Refers
<1>10. \A f, g \in Flights :
         flight'[f].phase = "sending" /\ flight'[g].phase = "sending" /\ flight'[f].chal = flight'[g].chal
         => f = g
  BY <1>3 DEF Base, Referring
<1> QED  BY <1>5, <1>6, <1>8, <1>9, <1>10 DEF Base, Referring

LEMMA LimitKeeps == ASSUME Base, NEW f \in Flights, Limit(f), owned' = owned PROVE Base'
  BY AnswerKeeps DEF Limit, serverVars

LEMMA StampKeeps == ASSUME Base, NEW f \in Flights, Stamp(f), owned' = owned PROVE Base'
<1> DEFINE r == [flight[f] EXCEPT !.phase = "stamped", !.now = clock]
<1>1. flight' = [flight EXCEPT ![f] = r]
  BY DEF Stamp
<1>2. r \in Request /\ Refers(r) /\ r.phase # "sending"
  BY FlightFacts DEF Base, OtpTypeOK, Request, Refers, Stamp
<1>3. /\ flight' \in [Flights -> Request]
      /\ \A g \in Flights : flight'[g] = flight[g] \/ (Refers(flight'[g]) /\ flight'[g].phase # "sending")
  BY <1>1, <1>2 DEF Base, OtpTypeOK
<1>4. /\ screen' \in [Devices -> Screen] /\ held' \in [Devices -> ChallengeIds] /\ sessions' \subseteq sessions
      /\ \A d \in Devices : screen'[d].chal <= Len(challenges)
  BY DEF Stamp, serverVars, Base, OtpTypeOK, Referring
<1> QED  BY <1>3, <1>4, QuietKeeps DEF Stamp, serverVars

LEMMA ServeSessionKeeps == ASSUME Base, NEW f \in Flights, ServeSession(f), owned' = owned PROVE Base'
<1>1. sessions' \subseteq sessions
  BY DEF ServeSession
<1>2. \E answer \in {"ok", "denied"} : flight' = Answered(f, answer)
  BY DEF ServeSession
<1> QED  BY <1>1, <1>2, AnswerKeeps DEF ServeSession

LEMMA RevokeKeeps == ASSUME Base, NEW n, Revoke(n), owned' = owned PROVE Base'
<1>1. /\ screen' \in [Devices -> Screen] /\ held' \in [Devices -> ChallengeIds] /\ sessions' \subseteq sessions
      /\ flight' \in [Flights -> Request] /\ flight' = flight
      /\ \A d \in Devices : screen'[d].chal <= Len(challenges)
  BY DEF Revoke, Base, OtpTypeOK, Referring
<1> QED  BY <1>1, QuietKeeps DEF Revoke

LEMMA TickKeeps == ASSUME Base, Tick, owned' = owned PROVE Base'
<1>1. clock' \in 0 .. MaxTime
  BY OtpAssumption DEF Tick, Base, OtpTypeOK
<1>2. OtpTypeOK'
  BY <1>1 DEF Tick, serverVars, Base, OtpTypeOK
<1> QED  BY <1>2 DEF Tick, serverVars, Base, Referring, Refers

-----------------------------------------------------------------------------
(* The steps that change challenges. *)

Fresh(f) == [issued |-> flight[f].now, status |-> "PENDING", consumed |-> FALSE, failed |-> 0,
             by |-> flight[f].dev, visit |-> flight[f].live /\ flight[f].waits]
Issues(f) ==
    /\ flight[f].phase = "stamped" /\ flight[f].op \in {"request", "resend"} /\ ~Recent(flight[f].now)
    /\ Len(challenges) < MaxChallenges /\ challenges' = Append(Invalidated, Fresh(f))
    /\ flight' = [flight EXCEPT ![f].phase = "sending", ![f].chal = Len(challenges) + 1]
    /\ UNCHANGED <<clock, sessions, grants, screen, held>>

\* A new challenge comes last, the others only become consumed.
LEMMA IssuedRecords ==
    ASSUME Base, NEW f \in Flights, Issues(f)
    PROVE  /\ challenges' \in Seq(Challenge) /\ Len(challenges') = Len(challenges) + 1
           /\ challenges'[Len(challenges) + 1] = Fresh(f)
           /\ \A n \in 1 .. Len(challenges) :
                 challenges'[n] = IF Open(challenges[n]) THEN [challenges[n] EXCEPT !.consumed = TRUE]
                                  ELSE challenges[n]
<1>1. \A n \in 1 .. Len(challenges) : challenges[n] \in Challenge
                                        /\ [challenges[n] EXCEPT !.consumed = TRUE] \in Challenge
  BY Lengths DEF Base, Challenge
<1>2. Invalidated \in [1 .. Len(challenges) -> Challenge]
  BY <1>1, Lengths DEF Base, Invalidated
<1>3. Invalidated \in Seq(Challenge) /\ Len(Invalidated) = Len(challenges)
  BY <1>2, FunctionAsSeq, Lengths DEF Base
<1>4. Fresh(f) \in Challenge
  <2>1. flight[f].now \in 0 .. MaxTime /\ flight[f].dev \in Devices
        /\ flight[f].live \in BOOLEAN /\ flight[f].waits \in BOOLEAN
    BY FlightFacts DEF Issues, Request, Refers
  <2>2. 0 \in 0 .. MaxFailedAttempts
    BY OtpAssumption
  <2> QED  BY <2>1, <2>2 DEF Fresh, Challenge
<1>5. \A n \in 1 .. Len(challenges) :
         Invalidated[n] = IF Open(challenges[n]) THEN [challenges[n] EXCEPT !.consumed = TRUE]
                          ELSE challenges[n]
  BY Lengths DEF Base, Invalidated
<1>6. challenges' = Append(Invalidated, Fresh(f))
  BY DEF Issues
<1>7. challenges' \in Seq(Challenge) /\ Len(challenges') = Len(challenges) + 1
      /\ challenges'[Len(challenges) + 1] = Fresh(f)
      /\ \A n \in 1 .. Len(challenges) : challenges'[n] = Invalidated[n]
  BY <1>3, <1>4, <1>6
<1> QED  BY <1>5, <1>7

LEMMA IssuesKeeps == ASSUME Base, NEW f \in Flights, Issues(f), owned' = owned PROVE Base'
<1> DEFINE r == [flight[f] EXCEPT !.phase = "sending", !.chal = Len(challenges) + 1]
<1>1. flight' = [flight EXCEPT ![f] = r]
  BY DEF Issues
<1>2. Len(challenges) \in Nat /\ Len(challenges) + 1 \in ChallengeIds /\ Len(challenges) + 1 <= MaxChallenges
  BY Lengths, OtpAssumption DEF Base, ChallengeIds, Issues
<1>3. r \in Request /\ r.phase = "sending" /\ r.chal = Len(challenges) + 1
      /\ r.op = flight[f].op /\ r.dev = flight[f].dev /\ r.waits = flight[f].waits
  BY <1>2, FlightFacts DEF Request
<1> HIDE DEF r
<1>4. flight' \in [Flights -> Request] /\ flight'[f] = r /\ \A g \in Flights : g # f => flight'[g] = flight[g]
  BY <1>1, <1>3 DEF Base, OtpTypeOK
<1>5. challenges' \in Seq(Challenge) /\ Len(challenges') = Len(challenges) + 1
      /\ DOMAIN challenges' = 1 .. Len(challenges')
  BY IssuedRecords, LenProperties
<1>6. OtpTypeOK'
  BY <1>2, <1>4, <1>5, Lengths DEF Issues, Base, OtpTypeOK
<1>7. ASSUME NEW g \in Flights PROVE Refers(flight[g])'
  <2>1. CASE g = f
    <3>0. challenges'[Len(challenges) + 1] = Fresh(f)
      BY IssuedRecords
    <3>1. challenges'[Len(challenges) + 1].status = "PENDING"
      BY <3>0 DEF Fresh
    <3>2. flight[f].dev \in Devices /\ flight[f].op \in {"request", "resend"}
      BY FlightFacts DEF Issues, Refers
    <3> QED  BY <1>2, <1>3, <1>4, <1>5, <2>1, <3>1, <3>2 DEF Refers
  <2>2. CASE g # f
    <3>1. flight'[g] = flight[g] /\ flight[g] \in Request /\ Refers(flight[g])
      BY <1>4, <2>2, FlightFacts
    <3>2. flight[g].chal # 0 => flight[g].chal \in 1 .. Len(challenges)
      BY <1>2, <3>1, OtpAssumption DEF Request, Refers, ChallengeIds
    <3>3. ASSUME NEW n \in 1 .. Len(challenges) PROVE challenges'[n].status = challenges[n].status
      <4>1. challenges[n] \in Challenge
        BY Lengths DEF Base
      <4> QED  BY <4>1, IssuedRecords DEF Challenge
    <3>4. flight[g].chal <= Len(challenges')
      BY <1>2, <1>5, <3>1, OtpAssumption DEF Request, Refers, ChallengeIds
    <3> QED  BY <3>1, <3>2, <3>3, <3>4 DEF Refers
  <2> QED  BY <2>1, <2>2
<1>8. \A g \in Flights : g # f => flight'[g].chal # Len(challenges) + 1
  BY <1>2, <1>4, FlightFacts, OtpAssumption DEF Request, Refers, ChallengeIds
<1>9. \A g, h \in Flights :
         flight'[g].phase = "sending" /\ flight'[h].phase = "sending" /\ flight'[g].chal = flight'[h].chal
         => g = h
  BY <1>3, <1>4, <1>8 DEF Base, Referring
<1>10. \A d \in Devices : screen'[d].chal <= Len(challenges')
  <2> TAKE d \in Devices
  <2>1. screen'[d] = screen[d] /\ screen[d].chal \in ChallengeIds /\ screen[d].chal <= Len(challenges)
    BY ScreenFacts DEF Issues
  <2> QED  BY <1>2, <1>5, <2>1, OtpAssumption DEF ChallengeIds
<1> QED  BY <1>6, <1>7, <1>9, <1>10 DEF Base, Referring

LEMMA IssueCases ==
    ASSUME NEW f \in Flights, Issue(f)
    PROVE  \/ Issues(f)
           \/ /\ flight[f].phase = "stamped"
              /\ flight' = Answered(f, "limited") /\ UNCHANGED <<clock, challenges, sessions, grants, screen, held>>
  BY DEF Issue, Issues, Fresh

LEMMA IssueKeeps == ASSUME Base, NEW f \in Flights, Issue(f), owned' = owned PROVE Base'
<1>1. CASE Issues(f)
  BY <1>1, IssuesKeeps
<1>2. CASE flight' = Answered(f, "limited") /\ UNCHANGED <<clock, challenges, sessions, grants, screen, held>>
  BY <1>2, AnswerKeeps
<1> QED  BY <1>1, <1>2, IssueCases

\* One record changes as its message is sent or its code is entered.
LEMMA ChangedRecord ==
    ASSUME Base, NEW n \in 1 .. Len(challenges), NEW c \in Challenge,
           challenges' = [challenges EXCEPT ![n] = c]
    PROVE  /\ challenges' \in [1 .. Len(challenges) -> Challenge]
           /\ Len(challenges') = Len(challenges)
           /\ challenges'[n] = c
           /\ \A m \in 1 .. Len(challenges) : m # n => challenges'[m] = challenges[m]
<1>1. challenges' \in [1 .. Len(challenges) -> Challenge]
  BY Lengths DEF Base
<1>2. Len(challenges') = Len(challenges)
  BY <1>1, FunctionAsSeq, Lengths DEF Base
<1> QED  BY <1>1, <1>2, Lengths DEF Base

\* The challenge of a request under way.
LEMMA ChalFacts ==
    ASSUME Base, NEW f \in Flights, flight[f].chal # 0
    PROVE  flight[f].chal \in 1 .. Len(challenges) /\ challenges[flight[f].chal] \in Challenge
<1>1. flight[f].chal \in 1 .. Len(challenges)
  BY FlightFacts, Lengths, OtpAssumption DEF Base, Request, Refers, ChallengeIds
<1> QED  BY <1>1, Lengths DEF Base

\* The answered request as the other lemmas need it.
LEMMA AnsweredRefers ==
    ASSUME Base, NEW f \in Flights, NEW answer \in {"ok", "denied", "limited", "unavailable"},
           flight' = Answered(f, answer)
    PROVE  /\ flight' \in [Flights -> Request] /\ \A g \in Flights : g # f => flight'[g] = flight[g]
           /\ Refers(flight'[f]) /\ flight'[f].phase # "sending"
           /\ flight'[f].dev \in {flight[f].dev, NoDevice}
           /\ \/ ~flight'[f].waits /\ flight'[f].phase = "none" /\ ~flight'[f].live
              \/ /\ flight[f].waits /\ flight'[f].phase = "answered" /\ flight'[f].answer = answer
                 /\ flight'[f].op = flight[f].op /\ flight'[f].chal = flight[f].chal
                 /\ flight'[f].live = flight[f].live /\ flight'[f].dev = flight[f].dev
                 /\ flight'[f].waits
<1>1. /\ flight' \in [Flights -> Request]
      /\ \A g \in Flights : g # f => flight'[g] = flight[g]
      /\ flight'[f] = IF flight[f].waits THEN [flight[f] EXCEPT !.phase = "answered", !.answer = answer]
                       ELSE NoFlight
  BY AnsweredType DEF Base
<1>2. CASE ~flight[f].waits
  <2>1. flight'[f] = NoFlight
    BY <1>1, <1>2
  <2>2. Refers(flight'[f])
    BY <2>1, NoFlightRefers
  <2>3. /\ ~flight'[f].waits /\ flight'[f].phase = "none" /\ ~flight'[f].live
        /\ flight'[f].dev = NoDevice
    BY <2>1 DEF NoFlight
  <2> QED  BY <1>1, <2>2, <2>3
<1>3. CASE flight[f].waits
  <2>1. Refers(flight[f]) /\ flight[f] \in Request
    BY FlightFacts
  <2>2. flight'[f] = [flight[f] EXCEPT !.phase = "answered", !.answer = answer]
    BY <1>1, <1>3
  <2>3. /\ flight'[f].phase = "answered" /\ flight'[f].answer = answer
        /\ flight'[f].op = flight[f].op /\ flight'[f].chal = flight[f].chal
        /\ flight'[f].live = flight[f].live /\ flight'[f].dev = flight[f].dev
        /\ flight'[f].waits = flight[f].waits
    BY <2>1, <2>2 DEF Request
  <2>4. Refers(flight'[f])
    BY <1>3, <2>1, <2>3 DEF Refers
  <2> QED  BY <1>1, <1>3, <2>3, <2>4
<1> QED  BY <1>2, <1>3

LEMMA SendKeeps == ASSUME Base, NEW f \in Flights, Send(f), owned' = owned PROVE Base'
<1>1. flight[f].phase = "sending" /\ flight[f].chal # 0 /\ UNCHANGED <<clock, sessions, grants, screen, held>>
  BY FlightFacts DEF Send, Refers
<1> DEFINE n == flight[f].chal
<1>2. ASSUME NEW status \in {"ACCEPTED", "FAILED"}, NEW answer \in {"ok", "unavailable"},
             challenges' = [challenges EXCEPT ![n].status = status], flight' = Answered(f, answer)
      PROVE  Base'
  <2> DEFINE c == [challenges[n] EXCEPT !.status = status]
  <2>1. c \in Challenge
    BY <1>1, ChalFacts DEF Challenge
  <2>2. challenges' = [challenges EXCEPT ![n] = c]
    BY <1>2
  <2>3. n \in 1 .. Len(challenges)
    BY <1>1, ChalFacts
  <2> HIDE DEF c
  <2>4. /\ challenges' \in [1 .. Len(challenges) -> Challenge]
        /\ \A m \in 1 .. Len(challenges) : m # n => challenges'[m] = challenges[m]
    BY <2>1, <2>2, <2>3, ChangedRecord
  <2>5. ASSUME NEW g \in Flights
        PROVE  \/ Refers(flight'[g]) /\ flight'[g].phase # "sending"
               \/ /\ flight'[g] = flight[g]
                  /\ flight[g].phase = "sending" =>
                        challenges'[flight[g].chal].status = challenges[flight[g].chal].status
    <3>1. CASE g = f
      BY <1>2, <3>1, AnsweredRefers
    <3>2. CASE g # f
      <4>1. flight'[g] = flight[g]
        BY <1>2, <3>2, AnsweredRefers
      <4>2. ASSUME flight[g].phase = "sending" PROVE challenges'[flight[g].chal] = challenges[flight[g].chal]
        <5>1. flight[g].chal # n /\ flight[g].chal # 0
          BY <1>1, <3>2, <4>2, FlightFacts DEF Base, Referring, Refers
        <5> QED  BY <2>4, <5>1, ChalFacts
      <4> QED  BY <4>1, <4>2
    <3> QED  BY <3>1, <3>2
  <2>6. /\ flight' \in [Flights -> Request] /\ sessions' \subseteq 1 .. Len(challenges)
        /\ grants' \in [1 .. MaxChallenges -> Nat] /\ screen' \in [Devices -> Screen]
        /\ held' \in [Devices -> ChallengeIds]
        /\ \A d \in Devices : screen'[d].chal <= Len(challenges)
    BY <1>1, <1>2, AnsweredRefers, Lengths DEF Base, OtpTypeOK, Referring
  <2> QED  BY <1>1, <2>4, <2>5, <2>6, RecordsKeep
<1>3. CASE UNCHANGED challenges /\ flight' = Answered(f, "unavailable")
  BY <1>1, <1>3, AnswerKeeps
<1> QED  BY <1>2, <1>3 DEF Send

LEMMA SignInCases ==
    ASSUME NEW f \in Flights, SignIn(f)
    PROVE  LET r == flight[f]  c == challenges[flight[f].chal] IN
           /\ r.phase = "stamped" /\ r.op = "verify" /\ UNCHANGED <<clock, screen, held>>
           /\ \/ flight' = Answered(f, "denied") /\ UNCHANGED <<challenges, sessions, grants>>
              \/ /\ Verifiable(c, r.now) /\ challenges' = [challenges EXCEPT ![r.chal].failed = @ + 1]
                 /\ flight' = Answered(f, "denied") /\ UNCHANGED <<sessions, grants>>
              \/ /\ Verifiable(c, r.now) /\ challenges' = [challenges EXCEPT ![r.chal].consumed = TRUE]
                 /\ sessions' = sessions \cup {r.chal} /\ grants' = [grants EXCEPT ![r.chal] = @ + 1]
                 /\ flight' = Answered(f, "ok")
  BY DEF SignIn, serverVars

LEMMA SignInKeeps == ASSUME Base, NEW f \in Flights, SignIn(f), owned' = owned PROVE Base'
<1> DEFINE n == flight[f].chal
<1>1. flight[f].op = "verify" /\ n # 0 /\ UNCHANGED <<clock, screen, held>>
  BY SignInCases, FlightFacts DEF Refers
<1>2. n \in 1 .. Len(challenges) /\ challenges[n] \in Challenge /\ n \in 1 .. MaxChallenges
  BY <1>1, ChalFacts, Lengths, OtpAssumption DEF Base, OtpTypeOK
<1>3. ASSUME NEW c \in Challenge, c.status = challenges[n].status,
             challenges' = [challenges EXCEPT ![n] = c],
             NEW answer \in {"ok", "denied"}, flight' = Answered(f, answer),
             sessions' \subseteq sessions \cup {n}, grants' \in [1 .. MaxChallenges -> Nat]
      PROVE  Base'
  <2>1. /\ challenges' \in [1 .. Len(challenges) -> Challenge] /\ challenges'[n] = c
        /\ \A m \in 1 .. Len(challenges) : m # n => challenges'[m] = challenges[m]
    BY <1>2, <1>3, ChangedRecord
  <2>2. ASSUME NEW g \in Flights
        PROVE  \/ Refers(flight'[g]) /\ flight'[g].phase # "sending"
               \/ /\ flight'[g] = flight[g]
                  /\ flight[g].phase = "sending" =>
                        challenges'[flight[g].chal].status = challenges[flight[g].chal].status
    <3>1. CASE g = f
      BY <1>3, <3>1, AnsweredRefers
    <3>2. CASE g # f
      <4>1. flight'[g] = flight[g]
        BY <1>3, <3>2, AnsweredRefers
      <4>2. flight[g].chal # 0 => challenges'[flight[g].chal].status = challenges[flight[g].chal].status
        BY <1>3, <2>1, ChalFacts
      <4>3. flight[g].phase = "sending" => flight[g].chal # 0
        BY FlightFacts DEF Refers
      <4> QED  BY <4>1, <4>2, <4>3
    <3> QED  BY <3>1, <3>2
  <2>3. /\ flight' \in [Flights -> Request] /\ sessions' \subseteq 1 .. Len(challenges)
        /\ screen' \in [Devices -> Screen] /\ held' \in [Devices -> ChallengeIds]
        /\ \A d \in Devices : screen'[d].chal <= Len(challenges)
    BY <1>1, <1>2, <1>3, AnsweredRefers, Lengths DEF Base, OtpTypeOK, Referring
  <2> QED  BY <1>1, <1>3, <2>1, <2>2, <2>3, RecordsKeep
<1>4. CASE flight' = Answered(f, "denied") /\ UNCHANGED <<challenges, sessions, grants>>
  BY <1>1, <1>4, AnswerKeeps
<1>5. CASE /\ Verifiable(challenges[n], flight[f].now) /\ challenges' = [challenges EXCEPT ![n].failed = @ + 1]
           /\ flight' = Answered(f, "denied") /\ UNCHANGED <<sessions, grants>>
  <2> DEFINE c == [challenges[n] EXCEPT !.failed = @ + 1]
  <2>1. challenges[n].failed + 1 \in 0 .. MaxFailedAttempts
    <3>1. challenges[n].failed \in 0 .. MaxFailedAttempts
      BY <1>2 DEF Challenge
    <3>2. challenges[n].failed < MaxFailedAttempts
      BY <1>5 DEF Verifiable
    <3> QED  BY <3>1, <3>2, OtpAssumption
  <2>2. c \in Challenge /\ c.status = challenges[n].status
    BY <1>2, <2>1 DEF Challenge
  <2>3. challenges' = [challenges EXCEPT ![n] = c]
    BY <1>5
  <2>4. sessions' \subseteq sessions \cup {n} /\ grants' \in [1 .. MaxChallenges -> Nat]
    BY <1>5 DEF Base, OtpTypeOK
  <2> HIDE DEF c
  <2> QED  BY <1>3, <1>5, <2>2, <2>3, <2>4
<1>6. CASE /\ challenges' = [challenges EXCEPT ![n].consumed = TRUE]
           /\ sessions' = sessions \cup {n} /\ grants' = [grants EXCEPT ![n] = @ + 1]
           /\ flight' = Answered(f, "ok")
  <2> DEFINE c == [challenges[n] EXCEPT !.consumed = TRUE]
  <2>1. c \in Challenge /\ c.status = challenges[n].status
    BY <1>2 DEF Challenge
  <2>2. challenges' = [challenges EXCEPT ![n] = c]
    BY <1>6
  <2>3. sessions' \subseteq sessions \cup {n} /\ grants' \in [1 .. MaxChallenges -> Nat]
    BY <1>2, <1>6 DEF Base, OtpTypeOK
  <2> HIDE DEF c
  <2> QED  BY <1>3, <1>6, <2>1, <2>2, <2>3
<1> QED  BY <1>4, <1>5, <1>6, SignInCases

-----------------------------------------------------------------------------
(* The client hears the answer, or gives up. *)

\* What the screen becomes names a challenge that exists.
LEMMA ShownChal ==
    ASSUME Base, NEW d \in Devices, NEW f \in Flights,
           NEW answer \in {"ok", "denied", "limited", "unavailable"}
    PROVE  /\ Shown(d, flight[f], answer) \in Screen
           /\ Shown(d, flight[f], answer).chal <= Len(challenges)
<1> DEFINE r == flight[f]
<1>1. /\ r \in Request /\ r.chal <= Len(challenges)
      /\ screen[d] \in Screen /\ screen[d].chal <= Len(challenges)
      /\ 0 <= Len(challenges) /\ Blank \in Screen /\ Blank.chal = 0
  BY FlightFacts, ScreenFacts DEF Refers
<1>2. Shown(d, r, answer) \in Screen
  BY <1>1, ShownType DEF Base
<1>3. [screen[d] EXCEPT !.loading = FALSE].chal = screen[d].chal
  BY <1>1 DEF Screen
<1>4. \A v : [Blank EXCEPT !.view = v].chal = 0
  BY DEF Blank
<1>5. AfterCheck(answer).chal = 0
  BY <1>4 DEF AfterCheck
<1>6. /\ AfterVerify(screen[d], answer).chal \in {0, screen[d].chal}
      /\ AfterLogout(screen[d], answer).chal \in {0, screen[d].chal}
  BY <1>3, <1>4 DEF AfterVerify, AfterLogout
<1>7. \A a : AppTransition(screen[d], r, a).chal \in {0, r.chal, screen[d].chal}
  BY <1>3, <1>4 DEF AppTransition
<1>8. Shown(d, r, answer).chal \in {0, r.chal, screen[d].chal}
  BY <1>5, <1>6, <1>7 DEF Shown, FormTransition
<1> QED  BY <1>1, <1>2, <1>8

\* A request ends or is no longer waited for, and its screen changes.
LEMMA HeardKeeps ==
    ASSUME Base, NEW f \in Flights, NEW d \in Devices,
           NEW answer \in {"ok", "denied", "limited", "unavailable"},
           UNCHANGED <<clock, challenges, grants, owned>>, sessions' \subseteq sessions,
           NEW r \in Request, flight' = [flight EXCEPT ![f] = r],
           Refers(r), r.phase # "sending",
           screen' = [screen EXCEPT ![d] = Shown(d, flight[f], answer)],
           held' \in [Devices -> ChallengeIds]
    PROVE  Base'
<1>1. screen' \in [Devices -> Screen] /\ \A x \in Devices : screen'[x].chal <= Len(challenges)
  BY ShownChal DEF Base, OtpTypeOK, Referring
<1>2. /\ flight' \in [Flights -> Request]
      /\ \A g \in Flights : flight'[g] = flight[g] \/ (Refers(flight'[g]) /\ flight'[g].phase # "sending")
  BY DEF Base, OtpTypeOK
<1> QED  BY <1>1, <1>2, QuietKeeps

LEMMA GiveUpKeeps == ASSUME Base, NEW f \in Flights, GiveUp(f), owned' = owned PROVE Base'
<1> DEFINE d == flight[f].dev
           r == IF flight[f].phase = "answered" \/ flight[f].op = "check" THEN NoFlight
                ELSE [flight[f] EXCEPT !.waits = FALSE]
<1>1. /\ flight[f].waits /\ d \in Devices /\ flight' = [flight EXCEPT ![f] = r]
      /\ screen' = [screen EXCEPT ![d] = Shown(d, flight[f], "unavailable")]
      /\ UNCHANGED <<clock, challenges, sessions, grants, held>>
  BY FlightFacts DEF GiveUp, GivesUp, Refers, serverVars
<1>2. CASE r = NoFlight
  <2>1. r \in Request /\ Refers(r) /\ r.phase # "sending"
    BY <1>2, NoFlightType, NoFlightRefers DEF NoFlight
  <2>2. held' \in [Devices -> ChallengeIds] /\ sessions' \subseteq sessions
    BY <1>1 DEF Base, OtpTypeOK
  <2> HIDE DEF d, r
  <2> QED  BY <1>1, <2>1, <2>2, HeardKeeps
<1>3. CASE r = [flight[f] EXCEPT !.waits = FALSE] /\ flight[f].phase # "answered"
  <2>1. /\ r \in Request /\ Refers(r)
        /\ r.phase = flight[f].phase /\ r.chal = flight[f].chal
    BY <1>3, FlightFacts DEF Request, Refers
  <2> HIDE DEF r
  <2>2. /\ flight' \in [Flights -> Request] /\ flight'[f] = r
        /\ \A g \in Flights : g # f => flight'[g] = flight[g]
    BY <1>1, <2>1 DEF Base, OtpTypeOK
  <2>3. /\ screen' \in [Devices -> Screen] /\ \A x \in Devices : screen'[x].chal <= Len(challenges)
    BY <1>1, ShownChal DEF Base, OtpTypeOK, Referring
  <2>4. OtpTypeOK'
    BY <1>1, <2>2, <2>3 DEF Base, OtpTypeOK
  <2>5. \A g \in Flights : Refers(flight[g])'
    <3>1. \A g \in Flights : Refers(flight'[g])
      BY <2>1, <2>2, FlightFacts
    <3> QED  BY <1>1, <3>1 DEF Refers
  <2>6. \A g, h \in Flights :
          flight'[g].phase = "sending" /\ flight'[h].phase = "sending" /\ flight'[g].chal = flight'[h].chal
          => g = h
    <3>1. \A g \in Flights : flight'[g].phase = flight[g].phase /\ flight'[g].chal = flight[g].chal
      BY <2>1, <2>2
    <3> QED  BY <3>1 DEF Base, Referring
  <2> QED  BY <1>1, <2>3, <2>4, <2>5, <2>6 DEF Base, Referring
<1> QED  BY <1>2, <1>3

LEMMA AppAnsweredKeeps == ASSUME Base, NEW f \in Flights, AppAnswered(f), owned' = owned PROVE Base'
<1> DEFINE r == flight[f]
           d == flight[f].dev
<1>1. /\ d \in Devices /\ flight' = [flight EXCEPT ![f] = NoFlight]
      /\ UNCHANGED <<clock, challenges, grants>> /\ sessions' \subseteq sessions
  BY DEF AppAnswered, Devices
<1>2. NoFlight \in Request /\ Refers(NoFlight) /\ NoFlight.phase # "sending"
  BY NoFlightType, NoFlightRefers DEF NoFlight
<1>3. r.chal \in ChallengeIds /\ 0 \in ChallengeIds
      /\ r.answer \in {"ok", "denied", "limited", "unavailable"}
  BY <1>1, FlightFacts, ScreenFacts DEF Request, AppAnswered, Refers
<1>4. held' \in [Devices -> ChallengeIds]
  BY <1>1, <1>3 DEF AppAnswered, Base, OtpTypeOK
<1>5. \E answer \in {"ok", "denied", "limited", "unavailable"} :
         screen' = [screen EXCEPT ![d] = Shown(d, r, answer)]
  BY <1>3 DEF AppAnswered
<1> QED  BY <1>1, <1>2, <1>4, <1>5, HeardKeeps

LEMMA FormAnsweredKeeps == ASSUME Base, NEW f \in Flights, FormAnswered(f), owned' = owned PROVE Base'
<1> DEFINE r == flight[f]
           d == flight[f].dev
<1>1. /\ d \in Devices /\ flight' = [flight EXCEPT ![f] = NoFlight]
      /\ UNCHANGED <<clock, challenges, grants>> /\ sessions' \subseteq sessions
  BY DEF FormAnswered, Devices, serverVars
<1>2. NoFlight \in Request /\ Refers(NoFlight) /\ NoFlight.phase # "sending"
  BY NoFlightType, NoFlightRefers DEF NoFlight
<1>3. r.chal \in ChallengeIds /\ 0 \in ChallengeIds
      /\ r.answer \in {"ok", "denied", "limited", "unavailable"}
  BY <1>1, FlightFacts, ScreenFacts DEF Request, FormAnswered, Refers
<1>4. held' \in [Devices -> ChallengeIds]
  BY <1>1, <1>3 DEF FormAnswered, Base, OtpTypeOK
<1>5. screen' = [screen EXCEPT ![d] = Shown(d, r, r.answer)]
  BY DEF FormAnswered
<1> QED  BY <1>1, <1>2, <1>3, <1>4, <1>5, HeardKeeps

LEMMA BaseInit == ASSUME OtpInit PROVE Base
<1>1. Len(challenges) = 0 /\ challenges \in Seq(Challenge) /\ DOMAIN challenges = {}
  BY EmptySeq DEF OtpInit
<1>2. 0 \in 0 .. MaxTime /\ 0 \in ChallengeIds /\ 0 <= MaxChallenges
  BY OtpAssumption DEF ChallengeIds
<1>3. OtpTypeOK
  BY <1>1, <1>2, BlankType, NoFlightType DEF OtpInit, OtpTypeOK
<1>4. Referring
  BY <1>1 DEF OtpInit, Referring, Refers, Blank, NoFlight
<1> QED  BY <1>3, <1>4 DEF Base

LEMMA OwnedDevices == ASSUME Base PROVE owned \subseteq Devices
  BY OtpAssumption DEF Base, OtpTypeOK

LEMMA BaseStep == ASSUME Base, [OtpNext]_vars PROVE Base'
<1>1. CASE UNCHANGED vars
  BY <1>1 DEF vars, Base, OtpTypeOK, Referring, Refers
<1>2. CASE OtpNext
  <2>1. owned' = owned
    BY <1>2 DEF OtpNext
  <2>2. ASSUME NEW f \in Flights, NEW d \in owned, Use(f, d) PROVE Base'
    BY <2>1, <2>2, OwnedDevices, UseKeeps
  <2>3. ASSUME NEW f \in Flights,
               Limit(f) \/ Stamp(f) \/ Issue(f) \/ Send(f) \/ SignIn(f) \/ ServeSession(f)
        PROVE  Base'
    BY <2>1, <2>3, LimitKeeps, StampKeeps, IssueKeeps, SendKeeps, SignInKeeps, ServeSessionKeeps
  <2>4. ASSUME NEW f \in Flights, GiveUp(f) \/ AppAnswered(f) \/ FormAnswered(f) PROVE Base'
    BY <2>1, <2>4, GiveUpKeeps, AppAnsweredKeeps, FormAnsweredKeeps
  <2>5. ASSUME NEW d \in owned, EditPhone(d) \/ Leave(d) PROVE Base'
    BY <2>1, <2>5, OwnedDevices, EditPhoneKeeps, LeaveKeeps
  <2>6. ASSUME NEW n \in DOMAIN challenges, Revoke(n) PROVE Base'
    BY <2>1, <2>6, RevokeKeeps
  <2>7. CASE Tick
    BY <2>1, <2>7, TickKeeps
  <2> QED  BY <1>2, <2>2, <2>3, <2>4, <2>5, <2>6, <2>7 DEF OtpNext
<1> QED  BY <1>1, <1>2

\* Every state has the types the model declares, whatever the devices, the
\* requests under way and the bounds; with it, no message and no screen refers
\* to a challenge that does not exist (OtpChallengeIssuer.cs, mobile-auth.ts).
THEOREM OtpTypeCorrect == OtpSpec => []OtpTypeOK
<1>1. Base /\ [OtpNext]_vars => Base'
  BY BaseStep
<1>2. OtpInit => Base
  BY BaseInit
<1>3. Base => OtpTypeOK
  BY DEF Base
<1> QED  BY <1>1, <1>2, <1>3, PTL DEF OtpSpec

-----------------------------------------------------------------------------
(* The challenges of the number. *)

\* Records change in place: none opens, and one that is answered is consumed.
LEMMA ServiceKeeps ==
    ASSUME Base, ServiceInv,
           challenges' \in [1 .. Len(challenges) -> Challenge], Len(challenges') = Len(challenges),
           \A n \in 1 .. Len(challenges) :
              /\ challenges'[n].issued = challenges[n].issued
              /\ challenges[n].consumed => challenges'[n].consumed
              /\ Open(challenges'[n]) => Open(challenges[n])
              /\ challenges'[n].status # "FAILED" => challenges[n].status # "FAILED",
           \A n \in 1 .. MaxChallenges :
              \/ grants'[n] = grants[n]
              \/ /\ n \in 1 .. Len(challenges) /\ ~challenges[n].consumed /\ challenges'[n].consumed
                 /\ grants'[n] = grants[n] + 1
    PROVE  ServiceInv'
<1>1. DOMAIN challenges' = 1 .. Len(challenges) /\ DOMAIN challenges = 1 .. Len(challenges)
      /\ Len(challenges) \in Nat
  BY Lengths DEF Base
<1>2. ASSUME NEW n \in 1 .. MaxChallenges
      PROVE  /\ grants'[n] <= 1
             /\ (n > Len(challenges) \/ ~challenges'[n].consumed) => grants'[n] = 0
  <2>1. grants[n] \in Nat /\ grants[n] <= 1
        /\ ((n > Len(challenges) \/ ~challenges[n].consumed) => grants[n] = 0)
    BY DEF Base, OtpTypeOK, ServiceInv, Granted
  <2>2. CASE grants'[n] = grants[n]
    BY <1>1, <2>1, <2>2
  <2>3. CASE /\ n \in 1 .. Len(challenges) /\ ~challenges[n].consumed /\ challenges'[n].consumed
             /\ grants'[n] = grants[n] + 1
    BY <1>1, <2>1, <2>3
  <2> QED  BY <2>2, <2>3
<1>3. Granted'
  BY <1>2 DEF Granted
<1>4. LiveLast'
  BY <1>1 DEF ServiceInv, LiveLast, Open
<1>5. CooldownHeld'
  BY <1>1 DEF ServiceInv, CooldownHeld
<1> QED  BY <1>3, <1>4, <1>5 DEF ServiceInv

LEMMA ServiceIssues ==
    ASSUME Base, ServiceInv, NEW f \in Flights, Issues(f) PROVE ServiceInv'
<1> DEFINE L == Len(challenges)
<1>1. L \in Nat /\ DOMAIN challenges = 1 .. L /\ DOMAIN challenges' = 1 .. L + 1
      /\ Len(challenges') = L + 1 /\ challenges'[L + 1] = Fresh(f) /\ L + 1 <= MaxChallenges
  <2>1. L \in Nat /\ DOMAIN challenges = 1 .. L
    BY Lengths DEF Base
  <2>2. challenges' \in Seq(Challenge) /\ Len(challenges') = L + 1 /\ challenges'[L + 1] = Fresh(f)
    BY IssuedRecords
  <2>3. DOMAIN challenges' = 1 .. L + 1
    BY <2>2, LenProperties
  <2>4. L + 1 <= MaxChallenges
    BY <2>1, OtpAssumption DEF Issues
  <2> QED  BY <2>1, <2>2, <2>3, <2>4
<1>2. ASSUME NEW n \in 1 .. L
      PROVE  /\ challenges[n] \in Challenge
             /\ challenges'[n].issued = challenges[n].issued /\ challenges'[n].status = challenges[n].status
             /\ challenges[n].consumed => challenges'[n].consumed
             /\ ~Open(challenges'[n])
  <2>1. challenges[n] \in Challenge
    BY Lengths DEF Base
  <2>2. challenges'[n] = IF Open(challenges[n]) THEN [challenges[n] EXCEPT !.consumed = TRUE]
                          ELSE challenges[n]
    BY IssuedRecords
  <2> QED  BY <2>1, <2>2 DEF Challenge, Open
<1> HIDE DEF L
<1>3. Granted'
  <2> SUFFICES ASSUME NEW n \in 1 .. MaxChallenges
               PROVE  /\ grants'[n] <= 1
                      /\ (n > Len(challenges') \/ ~challenges'[n].consumed) => grants'[n] = 0
    BY DEF Granted
  <2>1. grants'[n] = grants[n]
    BY DEF Issues
  <2>2. grants[n] <= 1 /\ ((n > L \/ ~challenges[n].consumed) => grants[n] = 0)
    BY DEF ServiceInv, Granted, L
  <2>3. CASE n > L
    BY <2>1, <2>2, <2>3
  <2>4. CASE n \in 1 .. L
    BY <1>1, <1>2, <2>1, <2>2, <2>4
  <2> QED  BY <1>1, <2>3, <2>4
<1>4. LiveLast'
  BY <1>1, <1>2 DEF LiveLast
<1>5. CooldownHeld'
  <2> SUFFICES ASSUME NEW m \in 1 .. L + 1, NEW n \in 1 .. L + 1, m < n,
                      challenges'[m].status # "FAILED", challenges'[n].status # "FAILED"
               PROVE  challenges'[m].issued + Cooldown <= challenges'[n].issued
    BY <1>1 DEF CooldownHeld
  <2>1. CASE n \in 1 .. L
    <3>1. m \in 1 .. L
      BY <1>1, <2>1
    <3> QED  BY <1>1, <1>2, <2>1, <3>1 DEF ServiceInv, CooldownHeld
  <2>2. CASE n = L + 1
    <3>1. m \in 1 .. L
      BY <1>1, <2>2
    <3>2. challenges[m].status \in {"PENDING", "ACCEPTED"} /\ challenges[m].issued \in 0 .. MaxTime
      BY <1>2, <3>1 DEF Challenge
    <3>3. ~(challenges[m].issued + Cooldown > flight[f].now)
      BY <1>1, <3>1, <3>2 DEF Issues, Recent
    <3>4. challenges'[n].issued = flight[f].now /\ flight[f].now \in 0 .. MaxTime
      BY <1>1, <2>2, FlightFacts DEF Fresh, Request
    <3> QED  BY <1>2, <3>1, <3>2, <3>3, <3>4, OtpAssumption
  <2> QED  BY <1>1, <2>1, <2>2
<1> QED  BY <1>3, <1>4, <1>5 DEF ServiceInv

LEMMA ServiceSend ==
    ASSUME Base, ServiceInv, NEW f \in Flights, Send(f) PROVE ServiceInv'
<1> DEFINE n == flight[f].chal
<1>1. /\ n \in 1 .. Len(challenges) /\ challenges[n] \in Challenge
      /\ challenges[n].status = "PENDING" /\ UNCHANGED grants
  BY FlightFacts, ChalFacts DEF Send, Refers
<1>2. ASSUME NEW status \in {"ACCEPTED", "FAILED"},
             challenges' = [challenges EXCEPT ![n].status = status]
      PROVE  ServiceInv'
  <2> DEFINE c == [challenges[n] EXCEPT !.status = status]
  <2>1. /\ c \in Challenge /\ c.issued = challenges[n].issued
        /\ c.consumed = challenges[n].consumed
        /\ Open(c) => Open(challenges[n])
    BY <1>1 DEF Challenge, Open
  <2>2. challenges' = [challenges EXCEPT ![n] = c]
    BY <1>2
  <2> HIDE DEF c
  <2>3. /\ challenges' \in [1 .. Len(challenges) -> Challenge] /\ Len(challenges') = Len(challenges)
        /\ challenges'[n] = c /\ \A m \in 1 .. Len(challenges) : m # n => challenges'[m] = challenges[m]
    BY <1>1, <2>1, <2>2, ChangedRecord
  <2> QED  BY <1>1, <2>1, <2>3, ServiceKeeps
<1>3. CASE UNCHANGED challenges
  BY <1>1, <1>3 DEF ServiceInv, Granted, LiveLast, CooldownHeld
<1> QED  BY <1>2, <1>3 DEF Send

LEMMA ServiceSignIn ==
    ASSUME Base, ServiceInv, NEW f \in Flights, SignIn(f) PROVE ServiceInv'
<1> DEFINE n == flight[f].chal
<1>1. n \in 1 .. Len(challenges) /\ challenges[n] \in Challenge /\ n \in 1 .. MaxChallenges
  <2>1. n # 0
    BY SignInCases, FlightFacts DEF Refers
  <2> QED  BY <2>1, ChalFacts, Lengths, OtpAssumption DEF Base, OtpTypeOK
<1>2. CASE UNCHANGED <<challenges, grants>>
  BY <1>2 DEF ServiceInv, Granted, LiveLast, CooldownHeld
<1>3. ASSUME NEW c \in Challenge, c.issued = challenges[n].issued, c.status = challenges[n].status,
             challenges[n].consumed => c.consumed, challenges' = [challenges EXCEPT ![n] = c],
             \/ UNCHANGED grants
             \/ ~challenges[n].consumed /\ c.consumed /\ grants' = [grants EXCEPT ![n] = @ + 1]
      PROVE  ServiceInv'
  <2>1. /\ challenges' \in [1 .. Len(challenges) -> Challenge] /\ Len(challenges') = Len(challenges)
        /\ challenges'[n] = c /\ \A m \in 1 .. Len(challenges) : m # n => challenges'[m] = challenges[m]
    BY <1>1, <1>3, ChangedRecord
  <2>2. Open(c) => Open(challenges[n])
    BY <1>1, <1>3 DEF Open, Challenge
  <2>3. \A m \in 1 .. MaxChallenges :
           \/ grants'[m] = grants[m]
           \/ m = n /\ ~challenges[n].consumed /\ c.consumed /\ grants'[m] = grants[m] + 1
    BY <1>1, <1>3 DEF Base, OtpTypeOK
  <2> QED  BY <1>1, <1>3, <2>1, <2>2, <2>3, ServiceKeeps
<1>4. CASE /\ Verifiable(challenges[n], flight[f].now) /\ UNCHANGED grants
           /\ challenges' = [challenges EXCEPT ![n].failed = @ + 1]
  <2> DEFINE c == [challenges[n] EXCEPT !.failed = @ + 1]
  <2>1. challenges[n].failed + 1 \in 0 .. MaxFailedAttempts
    <3>1. challenges[n].failed \in 0 .. MaxFailedAttempts
      BY <1>1 DEF Challenge
    <3>2. challenges[n].failed < MaxFailedAttempts
      BY <1>4 DEF Verifiable
    <3> QED  BY <3>1, <3>2, OtpAssumption
  <2>2. c \in Challenge /\ c.issued = challenges[n].issued /\ c.status = challenges[n].status
        /\ (challenges[n].consumed => c.consumed)
    BY <1>1, <2>1 DEF Challenge
  <2>3. challenges' = [challenges EXCEPT ![n] = c]
    BY <1>4
  <2> HIDE DEF c
  <2> QED  BY <1>3, <1>4, <2>2, <2>3
<1>5. CASE /\ Verifiable(challenges[n], flight[f].now)
           /\ challenges' = [challenges EXCEPT ![n].consumed = TRUE]
           /\ grants' = [grants EXCEPT ![n] = @ + 1]
  <2> DEFINE c == [challenges[n] EXCEPT !.consumed = TRUE]
  <2>1. c \in Challenge /\ c.issued = challenges[n].issued /\ c.status = challenges[n].status /\ c.consumed
    BY <1>1 DEF Challenge
  <2>2. challenges' = [challenges EXCEPT ![n] = c] /\ ~challenges[n].consumed
    BY <1>5 DEF Verifiable
  <2> HIDE DEF c
  <2> QED  BY <1>3, <1>5, <2>1, <2>2
<1> QED  BY <1>2, <1>4, <1>5, SignInCases

LEMMA ServiceLeave ==
    ASSUME Base, ServiceInv, NEW d \in Devices, Leave(d) PROVE ServiceInv'
<1>1. ASSUME NEW n \in 1 .. Len(challenges)
      PROVE  /\ challenges'[n] \in Challenge
             /\ challenges'[n].issued = challenges[n].issued
             /\ challenges'[n].consumed = challenges[n].consumed
             /\ challenges'[n].status = challenges[n].status
  <2>1. challenges[n] \in Challenge
    BY Lengths DEF Base
  <2>2. challenges'[n] = IF challenges[n].by = d THEN [challenges[n] EXCEPT !.visit = FALSE]
                          ELSE challenges[n]
    BY Lengths DEF Leave, Base
  <2> QED  BY <2>1, <2>2 DEF Challenge
<1>2. challenges' = [n \in 1 .. Len(challenges) |-> challenges'[n]]
  BY Lengths DEF Leave, Base
<1>3. challenges' \in [1 .. Len(challenges) -> Challenge]
  BY <1>1, <1>2
<1>4. Len(challenges') = Len(challenges)
  BY <1>3, FunctionAsSeq, Lengths DEF Base
<1>5. \A n \in 1 .. Len(challenges) : Open(challenges'[n]) => Open(challenges[n])
  BY <1>1 DEF Open
<1>6. UNCHANGED grants
  BY DEF Leave
<1> QED  BY <1>1, <1>3, <1>4, <1>5, <1>6, ServiceKeeps

LEMMA ServiceStep == ASSUME Base, ServiceInv, [OtpNext]_vars PROVE ServiceInv'
<1>1. CASE UNCHANGED <<challenges, grants>>
  BY <1>1 DEF ServiceInv, Granted, LiveLast, CooldownHeld
<1>2. ASSUME NEW f \in Flights, Issue(f) \/ Send(f) \/ SignIn(f) PROVE ServiceInv'
  <2>1. CASE Issue(f)
    BY <1>1, <2>1, IssueCases, ServiceIssues DEF Issues
  <2> QED  BY <1>2, <2>1, ServiceSend, ServiceSignIn
<1>3. ASSUME NEW f \in Flights, NEW d \in owned, Use(f, d) PROVE UNCHANGED <<challenges, grants>>
  BY <1>3 DEF Use, AppCheck, FormCheck, Check, AppRequest, FormRequest, Ask, AppVerify, FormVerify,
     Enter, AppLogout, FormLogout, serverVars
<1>4. ASSUME NEW f \in Flights, Limit(f) \/ Stamp(f) \/ ServeSession(f) \/ GiveUp(f)
                                 \/ AppAnswered(f) \/ FormAnswered(f)
      PROVE  UNCHANGED <<challenges, grants>>
  BY <1>4 DEF Limit, Stamp, ServeSession, GiveUp, AppAnswered, FormAnswered, serverVars
<1>5. ASSUME NEW d \in owned, EditPhone(d) \/ Leave(d) PROVE ServiceInv'
  <2>1. CASE EditPhone(d)
    BY <1>1, <2>1 DEF EditPhone, serverVars
  <2> QED  BY <1>5, <2>1, OwnedDevices, ServiceLeave
<1>6. ASSUME NEW n, Revoke(n) PROVE UNCHANGED <<challenges, grants>>
  BY <1>6 DEF Revoke
<1>7. Tick \/ UNCHANGED vars => UNCHANGED <<challenges, grants>>
  BY DEF Tick, vars, serverVars
<1> QED  BY <1>1, <1>2, <1>3, <1>4, <1>5, <1>6, <1>7 DEF OtpNext

LEMMA ServiceInit == ASSUME OtpInit PROVE ServiceInv
  BY DEF OtpInit, ServiceInv, Granted, LiveLast, CooldownHeld

\* However parallel entries of one code, repeated entries and resends of new
\* codes interleave, a challenge opens one session at most: what entering the
\* right code does (OtpSignInService.cs) is done to a challenge that is not
\* consumed, and consumes it in the same step.
THEOREM OneSession == OtpSpec => []OneSessionPerChallenge
<1>1. Base /\ ServiceInv /\ [OtpNext]_vars => (Base /\ ServiceInv)'
  BY BaseStep, ServiceStep
<1>2. OtpInit => Base /\ ServiceInv
  BY BaseInit, ServiceInit
<1>3. ServiceInv => OneSessionPerChallenge
  BY DEF ServiceInv, Granted, OneSessionPerChallenge
<1> QED  BY <1>1, <1>2, <1>3, PTL DEF OtpSpec

\* Whatever becomes known of the messages and however late, one challenge of
\* the number at most can be answered: the newest (OtpChallengeIssuer.cs).
THEOREM OneLive == OtpSpec => []OneLiveChallenge
<1>1. Base /\ ServiceInv /\ [OtpNext]_vars => (Base /\ ServiceInv)'
  BY BaseStep, ServiceStep
<1>2. OtpInit => Base /\ ServiceInv
  BY BaseInit, ServiceInit
<1>3. ServiceInv => OneLiveChallenge
  BY DEF ServiceInv, LiveLast, OneLiveChallenge
<1> QED  BY <1>1, <1>2, <1>3, PTL DEF OtpSpec

\* Two messages that were or may have been sent are a cooldown apart, although
\* each request reads the time before it waits for the lock of the number and
\* may be overtaken there (OtpChallengeIssuer.cs).
THEOREM Cooldowns == OtpSpec => []CooldownHeld
<1>1. Base /\ ServiceInv /\ [OtpNext]_vars => (Base /\ ServiceInv)'
  BY BaseStep, ServiceStep
<1>2. OtpInit => Base /\ ServiceInv
  BY BaseInit, ServiceInit
<1>3. ServiceInv => CooldownHeld
  BY DEF ServiceInv
<1> QED  BY <1>1, <1>2, <1>3, PTL DEF OtpSpec

-----------------------------------------------------------------------------
(* The code field. *)

SameVisits == \A d \in Devices : Visits(d)' = Visits(d)

LEMMA VisitsUnchanged == ASSUME UNCHANGED challenges PROVE SameVisits
  BY DEF SameVisits, Visits

\* An awaited request has a screen.
LEMMA AwaitedDevice ==
    ASSUME Base, NEW f \in Flights, Awaited(f)
    PROVE  flight[f].dev \in Devices
  BY FlightFacts DEF Awaited, Refers

\* The service works on a request: the screens and what they asked for stay.
LEMMA ClientServed ==
    ASSUME Base, ClientInv, UNCHANGED screen, SameVisits,
           NEW f \in Flights, \A g \in Flights : g # f => flight'[g] = flight[g],
           Awaited(f)' => Awaited(f) /\ flight'[f].dev = flight[f].dev,
           Replacing(f) => Replacing(f)' /\ flight'[f].dev = flight[f].dev,
           Carrying(f)' => Carrying(f) /\ flight'[f].chal = flight[f].chal
    PROVE  ClientInv'
<1>1. \A g \in Flights : g # f =>
         /\ Awaited(g)' <=> Awaited(g)
         /\ Replacing(g)' <=> Replacing(g)
         /\ Carrying(g)' <=> Carrying(g)
  BY DEF Awaited, Replacing, Carrying, Asks
<1>2. \A g \in Flights : Awaited(g)' => Awaited(g) /\ flight'[g].dev = flight[g].dev
  BY <1>1
<1>3. OneAwaited'
  BY <1>2 DEF ClientInv, OneAwaited
<1>4. ASSUME NEW d \in Devices, screen'[d].view = "code"
      PROVE  \/ \A n \in Visits(d)' : n <= screen'[d].chal
             \/ \E g \in Flights : flight'[g].dev = d /\ Replacing(g)'
  <2>1. \/ \A n \in Visits(d) : n <= screen[d].chal
        \/ \E g \in Flights : flight[g].dev = d /\ Replacing(g)
    BY <1>4 DEF ClientInv, Current
  <2> QED  BY <1>1, <2>1 DEF SameVisits
<1>5. ASSUME NEW g \in Flights, Carrying(g)' PROVE \A n \in Visits(flight[g].dev)' : n <= flight'[g].chal
  <2>1. Awaited(g)'
    BY <1>5 DEF Carrying
  <2>2. /\ Carrying(g) /\ flight'[g].chal = flight[g].chal /\ flight'[g].dev = flight[g].dev
        /\ flight[g].dev \in Devices
    BY <1>1, <1>2, <1>5, <2>1, AwaitedDevice
  <2> QED  BY <2>2 DEF SameVisits, ClientInv, Current
<1> QED  BY <1>3, <1>4, <1>5 DEF ClientInv, Current

\* An idle screen changes, perhaps because it sends a request.
LEMMA ClientSends ==
    ASSUME Base, ClientInv, UNCHANGED challenges, NEW d \in Devices, ~screen[d].loading,
           NEW s, screen' = [screen EXCEPT ![d] = s],
           s.view = "code" => screen[d].view = "code" /\ s.chal = screen[d].chal,
           \/ UNCHANGED flight
           \/ \E f \in Flights :
                /\ ~Awaited(f) /\ s.loading /\ flight'[f].dev = d /\ flight'[f].phase = "sent"
                /\ \A g \in Flights : g # f => flight'[g] = flight[g]
    PROVE  ClientInv'
<1>1. \A g \in Flights : Awaited(g) => flight[g].dev # d
  BY DEF ClientInv, OneAwaited
<1>2. /\ screen'[d] = s /\ \A x \in Devices : x # d => screen'[x] = screen[x]
  BY DEF Base, OtpTypeOK
<1>3. screen[d].view = "code" => \A n \in Visits(d) : n <= screen[d].chal
  BY <1>1 DEF ClientInv, Current, Replacing
<1>4. SameVisits
  BY VisitsUnchanged
<1>5. CASE UNCHANGED flight
  <2>1. \A g \in Flights : /\ Awaited(g)' <=> Awaited(g)
                           /\ Replacing(g)' <=> Replacing(g)
                           /\ Carrying(g)' <=> Carrying(g)
    BY <1>5 DEF Awaited, Replacing, Carrying, Asks
  <2>2. OneAwaited'
    BY <1>1, <1>2, <1>5, <2>1, AwaitedDevice DEF ClientInv, OneAwaited
  <2>3. ASSUME NEW x \in Devices, screen'[x].view = "code"
        PROVE  \/ \A n \in Visits(x)' : n <= screen'[x].chal
               \/ \E g \in Flights : flight'[g].dev = x /\ Replacing(g)'
    BY <1>2, <1>3, <1>4, <1>5, <2>1, <2>3 DEF SameVisits, ClientInv, Current
  <2>4. ASSUME NEW g \in Flights, Carrying(g)' PROVE \A n \in Visits(flight[g].dev)' : n <= flight'[g].chal
    BY <1>4, <1>5, <2>1, <2>4, AwaitedDevice DEF Carrying, SameVisits, ClientInv, Current
  <2> QED  BY <2>2, <2>3, <2>4 DEF ClientInv, Current
<1>6. ASSUME NEW f \in Flights, ~Awaited(f), s.loading, flight'[f].dev = d, flight'[f].phase = "sent",
             \A g \in Flights : g # f => flight'[g] = flight[g]
      PROVE  ClientInv'
  <2>1. \A g \in Flights : g # f => /\ Awaited(g)' <=> Awaited(g)
                                    /\ Replacing(g)' <=> Replacing(g)
                                    /\ Carrying(g)' <=> Carrying(g)
    BY <1>6 DEF Awaited, Replacing, Carrying, Asks
  <2>2. ~Carrying(f)' /\ ~Replacing(f)'
    BY <1>6 DEF Carrying, Replacing
  <2>3. ASSUME NEW x \in Devices, screen'[x].view = "code"
        PROVE  \/ \A n \in Visits(x)' : n <= screen'[x].chal
               \/ \E g \in Flights : flight'[g].dev = x /\ Replacing(g)'
    <3>1. CASE x = d
      BY <1>2, <1>3, <1>4, <2>3, <3>1 DEF SameVisits
    <3>2. CASE x # d
      <4>1. \/ \A n \in Visits(x) : n <= screen[x].chal
            \/ \E g \in Flights : flight[g].dev = x /\ Replacing(g)
        BY <1>2, <2>3, <3>2 DEF ClientInv, Current
      <4> QED  BY <1>2, <1>4, <1>6, <2>1, <3>2, <4>1 DEF SameVisits, Replacing
    <3> QED  BY <3>1, <3>2
  <2>4. ASSUME NEW g \in Flights, Carrying(g)' PROVE \A n \in Visits(flight[g].dev)' : n <= flight'[g].chal
    BY <1>4, <1>6, <2>1, <2>2, <2>4, AwaitedDevice DEF Carrying, SameVisits, ClientInv, Current
  <2>5. OneAwaited'
    BY <1>1, <1>2, <1>6, <2>1, AwaitedDevice DEF ClientInv, OneAwaited
  <2> QED  BY <1>6, <2>2, <2>3, <2>4, <2>5 DEF ClientInv, Current
<1> QED  BY <1>5, <1>6

\* A request is heard, or no longer waited for.
LEMMA ClientEnds ==
    ASSUME Base, ClientInv, UNCHANGED challenges, NEW f \in Flights,
           ~Awaited(f)', \A g \in Flights : g # f => flight'[g] = flight[g],
           NEW d \in Devices, d = flight[f].dev,
           \A x \in Devices : x # d => screen'[x] = screen[x],
           ~Awaited(f) => screen'[d] = screen[d],
           Awaited(f) /\ screen'[d].view = "code" =>
              \/ screen[d].view = "code" /\ screen'[d].chal = screen[d].chal /\ ~Replacing(f)
              \/ Carrying(f) /\ screen'[d].chal = flight[f].chal
    PROVE  ClientInv'
<1>1. \A g \in Flights : g # f => /\ Awaited(g)' <=> Awaited(g)
                                  /\ Replacing(g)' <=> Replacing(g)
                                  /\ Carrying(g)' <=> Carrying(g)
  BY DEF Awaited, Replacing, Carrying, Asks
<1>2. ~Carrying(f)' /\ ~Replacing(f)'
  BY DEF Carrying, Replacing
<1>3. SameVisits
  BY VisitsUnchanged
<1>4. \A g \in Flights : Awaited(f) /\ Awaited(g) /\ flight[g].dev = d => g = f
  BY DEF ClientInv, OneAwaited
<1>5. OneAwaited'
  <2>1. ASSUME NEW g \in Flights, Awaited(g)' PROVE screen'[flight'[g].dev].loading
    <3>1. g # f /\ flight'[g] = flight[g] /\ Awaited(g) /\ flight[g].dev \in Devices
      BY <1>1, <2>1, AwaitedDevice
    <3>2. screen[flight[g].dev].loading
      BY <3>1 DEF ClientInv, OneAwaited
    <3> QED  BY <1>4, <3>1, <3>2
  <2>2. ASSUME NEW g \in Flights, NEW h \in Flights, Awaited(g)', Awaited(h)', flight'[g].dev = flight'[h].dev
        PROVE  g = h
    BY <1>1, <2>2 DEF ClientInv, OneAwaited
  <2> QED  BY <2>1, <2>2 DEF OneAwaited
<1>6. ASSUME NEW x \in Devices, screen'[x].view = "code"
      PROVE  \/ \A n \in Visits(x)' : n <= screen'[x].chal
             \/ \E g \in Flights : flight'[g].dev = x /\ Replacing(g)'
  <2>1. ASSUME screen[x].view = "code"
        PROVE  \/ \A n \in Visits(x) : n <= screen[x].chal
               \/ \E g \in Flights : flight[g].dev = x /\ Replacing(g)
    BY <2>1 DEF ClientInv, Current
  <2>2. CASE x # d
    BY <1>1, <1>2, <1>3, <1>6, <2>1, <2>2 DEF SameVisits
  <2>3. CASE x = d /\ ~Awaited(f)
    <3>1. ~Replacing(f) /\ screen'[x] = screen[x]
      BY <2>3 DEF Replacing
    <3> QED  BY <1>1, <1>3, <1>6, <2>1, <3>1 DEF SameVisits
  <2>4. CASE x = d /\ Awaited(f)
    <3>1. CASE screen[d].view = "code" /\ screen'[d].chal = screen[d].chal /\ ~Replacing(f)
      <4>1. ~\E g \in Flights : flight[g].dev = x /\ Replacing(g)
        BY <1>4, <2>4, <3>1 DEF Replacing
      <4> QED  BY <1>3, <2>1, <2>4, <3>1, <4>1 DEF SameVisits
    <3>2. CASE Carrying(f) /\ screen'[d].chal = flight[f].chal
      BY <1>3, <2>4, <3>2 DEF SameVisits, ClientInv, Current
    <3> QED  BY <1>6, <2>4, <3>1, <3>2
  <2> QED  BY <2>2, <2>3, <2>4
<1>7. ASSUME NEW g \in Flights, Carrying(g)' PROVE \A n \in Visits(flight[g].dev)' : n <= flight'[g].chal
  <2>1. g # f /\ Carrying(g) /\ flight'[g] = flight[g]
    BY <1>1, <1>2, <1>7
  <2> QED  BY <1>3, <2>1, AwaitedDevice DEF Carrying, SameVisits, ClientInv, Current
<1> QED  BY <1>2, <1>5, <1>6, <1>7 DEF ClientInv, Current

LEMMA Idle == \A f \in Flights : flight[f] = NoFlight => ~Awaited(f)
  BY DEF NoFlight, Awaited

\* A screen sends, and nothing else happens.
LEMMA ClientLaunch ==
    ASSUME Base, ClientInv, UNCHANGED challenges, NEW f \in Flights, NEW d \in Devices,
           flight[f] = NoFlight, ~screen[d].loading,
           NEW chal \in ChallengeIds, NEW op \in {"check", "request", "resend", "verify", "logout"},
           NEW right \in BOOLEAN, flight' = Launched(f, d, op, chal, right),
           NEW s, s.loading, screen' = [screen EXCEPT ![d] = s],
           s.view = "code" => screen[d].view = "code" /\ s.chal = screen[d].chal
    PROVE  ClientInv'
<1>1. /\ \A g \in Flights : g # f => flight'[g] = flight[g]
      /\ flight'[f].dev = d /\ flight'[f].phase = "sent"
  BY LaunchedType DEF Base
<1> QED  BY <1>1, Idle, ClientSends

LEMMA ClientUse ==
    ASSUME Base, ClientInv, NEW f \in Flights, NEW d \in Devices, Use(f, d)
    PROVE  ClientInv'
<1> DEFINE s == [screen[d] EXCEPT !.loading = TRUE]
           b == [Blank EXCEPT !.view = "phone"]
           c == [screen[d] EXCEPT !.view = "checking", !.loading = TRUE]
<1>1. /\ s.loading /\ s.view = screen[d].view /\ s.chal = screen[d].chal
      /\ b.view = "phone" /\ c.view = "checking" /\ c.loading
      /\ screen[d].chal \in ChallengeIds /\ 0 \in ChallengeIds
  BY ScreenFacts DEF Screen, Blank
<1> HIDE DEF s, b, c
<1>2. CASE screen' = [screen EXCEPT ![d] = b] /\ UNCHANGED <<flight, challenges>> /\ ~screen[d].loading
  BY <1>1, <1>2, ClientSends
<1>3. ASSUME NEW op \in {"request", "resend", "verify", "logout"}, NEW right \in BOOLEAN,
             NEW chal \in ChallengeIds,
             flight[f] = NoFlight, ~screen[d].loading, screen' = [screen EXCEPT ![d] = s],
             UNCHANGED challenges, flight' = Launched(f, d, op, chal, right)
      PROVE  ClientInv'
  BY <1>1, <1>3, ClientLaunch
<1>4. CASE Check(f, d)
  <2>1. CASE held[d] = 0
    BY <1>2, <1>4, <2>1 DEF Check, Checked, serverVars, b
  <2>2. CASE held[d] # 0
    <3>1. /\ flight[f] = NoFlight /\ ~screen[d].loading /\ UNCHANGED challenges
          /\ screen' = [screen EXCEPT ![d] = c] /\ flight' = Launched(f, d, "check", 0, FALSE)
      BY <1>4, <2>2 DEF Check, Checked, serverVars, c
    <3> QED  BY <1>1, <3>1, ClientLaunch
  <2> QED  BY <2>1, <2>2
<1>5. ASSUME NEW resend \in BOOLEAN, Ask(f, d, resend) PROVE ClientInv'
  BY <1>1, <1>3, <1>5 DEF Ask, serverVars, s
<1>6. ASSUME NEW right \in BOOLEAN, Enter(f, d, right) PROVE ClientInv'
  BY <1>1, <1>3, <1>6 DEF Enter, serverVars, s
<1>7. CASE SignedOut(f, d) /\ flight[f] = NoFlight /\ ~screen[d].loading /\ UNCHANGED challenges
  <2>1. CASE held[d] = 0
    BY <1>2, <1>7, <2>1 DEF SignedOut, b
  <2>2. CASE held[d] # 0
    BY <1>1, <1>3, <1>7, <2>2 DEF SignedOut, s
  <2> QED  BY <2>1, <2>2
<1> QED  BY <1>4, <1>5, <1>6, <1>7 DEF Use, AppCheck, FormCheck, AppRequest, FormRequest, AppVerify,
             FormVerify, AppLogout, FormLogout, serverVars

LEMMA ClientEdit ==
    ASSUME Base, ClientInv, NEW d \in Devices, EditPhone(d) PROVE ClientInv'
<1> DEFINE b == [Blank EXCEPT !.view = "phone"]
<1>1. b.view # "code"
  BY DEF Blank
<1>2. screen' = [screen EXCEPT ![d] = b] /\ ~screen[d].loading /\ UNCHANGED <<challenges, flight>>
  BY DEF EditPhone, serverVars
<1> HIDE DEF b
<1> QED  BY <1>1, <1>2, ClientSends

LEMMA ClientLeave ==
    ASSUME Base, ClientInv, NEW d \in Devices, Leave(d) PROVE ClientInv'
<1>1. /\ screen'[d] = Blank /\ \A x \in Devices : x # d => screen'[x] = screen[x]
  BY DEF Leave, Base, OtpTypeOK
<1>2. ASSUME NEW g \in Flights
      PROVE  /\ flight'[g].dev = flight[g].dev /\ flight'[g].op = flight[g].op
             /\ flight'[g].phase = flight[g].phase /\ flight'[g].chal = flight[g].chal
             /\ flight'[g].answer = flight[g].answer /\ flight'[g].waits = flight[g].waits
             /\ flight'[g].live <=> flight[g].live /\ flight[g].dev # d
  BY FlightFacts DEF Leave, Request
<1>3. \A g \in Flights : /\ Awaited(g)' <=> Awaited(g) /\ flight[g].dev # d
                         /\ Replacing(g)' <=> Replacing(g) /\ flight[g].dev # d
                         /\ Carrying(g)' <=> Carrying(g) /\ flight[g].dev # d
  BY <1>2 DEF Awaited, Replacing, Carrying, Asks
<1>4. ASSUME NEW x \in Devices, x # d PROVE Visits(x)' = Visits(x)
  <2>1. DOMAIN challenges' = DOMAIN challenges
    BY DEF Leave
  <2>2. ASSUME NEW n \in DOMAIN challenges
        PROVE  (challenges'[n].by = x /\ challenges'[n].visit) <=> (challenges[n].by = x /\ challenges[n].visit)
    <3>1. challenges[n] \in Challenge
      BY Lengths DEF Base
    <3> QED  BY <1>4, <3>1 DEF Leave, Challenge
  <2> QED  BY <2>1, <2>2 DEF Visits
<1>5. OneAwaited'
  BY <1>1, <1>2, <1>3, AwaitedDevice DEF ClientInv, OneAwaited
<1>6. ASSUME NEW x \in Devices, screen'[x].view = "code"
      PROVE  \/ \A n \in Visits(x)' : n <= screen'[x].chal
             \/ \E g \in Flights : flight'[g].dev = x /\ Replacing(g)'
  <2>1. x # d
    BY <1>1, <1>6 DEF Blank
  <2>2. \/ \A n \in Visits(x) : n <= screen[x].chal
        \/ \E g \in Flights : flight[g].dev = x /\ Replacing(g)
    BY <1>1, <1>6, <2>1 DEF ClientInv, Current
  <2> QED  BY <1>1, <1>2, <1>3, <1>4, <2>1, <2>2
<1>7. ASSUME NEW g \in Flights, Carrying(g)' PROVE \A n \in Visits(flight[g].dev)' : n <= flight'[g].chal
  <2>1. /\ Carrying(g) /\ flight[g].dev # d /\ flight[g].dev \in Devices
        /\ flight'[g].dev = flight[g].dev /\ flight'[g].chal = flight[g].chal
    BY <1>2, <1>3, <1>7, AwaitedDevice DEF Carrying
  <2> QED  BY <1>4, <2>1 DEF ClientInv, Current
<1> QED  BY <1>2, <1>5, <1>6, <1>7 DEF ClientInv, Current

\* The answer of a request that replaces no challenge, and of one that may.
LEMMA ClientAnswered ==
    ASSUME Base, ClientInv, UNCHANGED screen, SameVisits,
           NEW f \in Flights, NEW answer \in {"ok", "denied", "limited", "unavailable"},
           flight' = Answered(f, answer), flight[f].phase # "answered",
           ~Asks(f) \/ answer = "limited" \/ flight[f].phase = "sending",
           flight[f].phase = "sending" => answer # "limited"
    PROVE  ClientInv'
<1>1. /\ \A g \in Flights : g # f => flight'[g] = flight[g]
      /\ \/ ~flight'[f].waits /\ flight'[f].phase = "none" /\ ~flight'[f].live
         \/ /\ flight[f].waits /\ flight'[f].phase = "answered" /\ flight'[f].answer = answer
            /\ flight'[f].op = flight[f].op /\ flight'[f].chal = flight[f].chal
            /\ flight'[f].live = flight[f].live /\ flight'[f].dev = flight[f].dev
            /\ flight'[f].waits
      /\ ~flight[f].waits => ~flight'[f].waits
  <2>1. ~flight[f].waits => flight'[f] = NoFlight
    BY AnsweredType DEF Base
  <2>2. ~NoFlight.waits
    BY DEF NoFlight
  <2> QED  BY <2>1, <2>2, AnsweredRefers
<1>2. ASSUME flight[f].waits PROVE flight'[f].waits
  <2>1. flight'[f] = [flight[f] EXCEPT !.phase = "answered", !.answer = answer]
    BY <1>2, AnsweredType DEF Base
  <2> QED  BY <1>2, <2>1, FlightFacts DEF Request
<1>3. Awaited(f)' => Awaited(f) /\ flight'[f].dev = flight[f].dev
  BY <1>1 DEF Awaited
<1>4. Replacing(f) => Replacing(f)' /\ flight'[f].dev = flight[f].dev
  BY <1>1, <1>2 DEF Replacing, Awaited, Asks
<1>5. Carrying(f)' => Carrying(f) /\ flight'[f].chal = flight[f].chal
  BY <1>1 DEF Carrying, Awaited, Asks
<1> QED  BY <1>1, <1>3, <1>4, <1>5, ClientServed

LEMMA ClientStamp ==
    ASSUME Base, ClientInv, NEW f \in Flights, Stamp(f) PROVE ClientInv'
<1> DEFINE r == [flight[f] EXCEPT !.phase = "stamped", !.now = clock]
<1>1. flight' = [flight EXCEPT ![f] = r] /\ UNCHANGED <<challenges, screen>> /\ flight[f].phase = "sent"
  BY DEF Stamp, serverVars
<1>2. /\ r.phase = "stamped" /\ r.live = flight[f].live /\ r.waits = flight[f].waits
      /\ r.dev = flight[f].dev
  BY FlightFacts DEF Request
<1> HIDE DEF r
<1>3. flight'[f] = r /\ \A g \in Flights : g # f => flight'[g] = flight[g]
  BY <1>1 DEF Base, OtpTypeOK
<1>4. ~Replacing(f) /\ ~Carrying(f)' /\ (Awaited(f)' => Awaited(f) /\ flight'[f].dev = flight[f].dev)
  BY <1>1, <1>2, <1>3 DEF Replacing, Carrying, Awaited
<1> QED  BY <1>1, <1>3, <1>4, VisitsUnchanged, ClientServed

LEMMA ClientIssues ==
    ASSUME Base, ClientInv, NEW f \in Flights, Issues(f) PROVE ClientInv'
<1> DEFINE r == [flight[f] EXCEPT !.phase = "sending", !.chal = Len(challenges) + 1]
           d == flight[f].dev
<1>1. flight' = [flight EXCEPT ![f] = r] /\ screen' = screen /\ flight[f].phase = "stamped"
  BY DEF Issues
<1>2. /\ r.phase = "sending" /\ r.live = flight[f].live /\ r.waits = flight[f].waits
      /\ r.dev = d /\ r.op = flight[f].op /\ r.chal = Len(challenges) + 1
      /\ d \in Devices
  BY FlightFacts DEF Request, Issues, Refers
<1> HIDE DEF r
<1>3. flight'[f] = r /\ \A g \in Flights : g # f => flight'[g] = flight[g]
  BY <1>1 DEF Base, OtpTypeOK
<1>4. /\ Awaited(f)' <=> Awaited(f)
      /\ \A g \in Flights : g # f => /\ Awaited(g)' <=> Awaited(g)
                                     /\ Replacing(g)' <=> Replacing(g)
                                     /\ Carrying(g)' <=> Carrying(g)
  BY <1>2, <1>3 DEF Awaited, Replacing, Carrying, Asks
<1>5. /\ Len(challenges) \in Nat /\ DOMAIN challenges = 1 .. Len(challenges)
      /\ DOMAIN challenges' = 1 .. Len(challenges) + 1
  <2>1. challenges' \in Seq(Challenge) /\ Len(challenges') = Len(challenges) + 1
    BY IssuedRecords
  <2> QED  BY <2>1, LenProperties, Lengths DEF Base
<1>6. ASSUME NEW n \in 1 .. Len(challenges)
      PROVE  challenges'[n].by = challenges[n].by /\ challenges'[n].visit = challenges[n].visit
  <2>1. challenges[n] \in Challenge
    BY Lengths DEF Base
  <2> QED  BY <2>1, IssuedRecords DEF Challenge
<1>7. /\ challenges'[Len(challenges) + 1].by = d
      /\ challenges'[Len(challenges) + 1].visit <=> Awaited(f)
  <2>1. challenges'[Len(challenges) + 1] = Fresh(f)
    BY IssuedRecords
  <2>2. Fresh(f).by = d
    BY DEF Fresh
  <2>3. Fresh(f).visit = (flight[f].live /\ flight[f].waits)
    BY DEF Fresh
  <2>4. Fresh(f).visit <=> Awaited(f)
    BY <2>3 DEF Awaited
  <2> QED  BY <2>1, <2>2, <2>4
<1>8. ASSUME NEW x \in Devices, x # d \/ ~Awaited(f) PROVE Visits(x)' = Visits(x)
  BY <1>5, <1>6, <1>7, <1>8 DEF Visits
<1>9. \A n \in Visits(d)' : n <= Len(challenges) + 1
  BY <1>5 DEF Visits
<1>10. \A g \in Flights : Awaited(f) /\ Awaited(g) /\ flight[g].dev = d => g = f
  BY DEF ClientInv, OneAwaited
<1> HIDE DEF d
<1>11. OneAwaited'
  BY <1>1, <1>2, <1>3, <1>4 DEF d, ClientInv, OneAwaited
<1>12. ASSUME NEW x \in Devices, screen'[x].view = "code"
       PROVE  \/ \A n \in Visits(x)' : n <= screen'[x].chal
              \/ \E g \in Flights : flight'[g].dev = x /\ Replacing(g)'
  <2>1. CASE x = d /\ Awaited(f)
    <3>1. Asks(f)' /\ flight'[f].dev = x
      BY <1>2, <1>3, <2>1 DEF Asks, Issues
    <3> QED  BY <1>2, <1>3, <1>4, <2>1, <3>1 DEF Replacing
  <2>2. CASE x # d \/ ~Awaited(f)
    <3>1. \/ \A n \in Visits(x) : n <= screen[x].chal
          \/ \E g \in Flights : flight[g].dev = x /\ Replacing(g)
      BY <1>1, <1>12 DEF ClientInv, Current
    <3>2. ~Replacing(f)
      BY <1>1 DEF Replacing
    <3> QED  BY <1>1, <1>3, <1>4, <1>8, <2>2, <3>1, <3>2
  <2> QED  BY <2>1, <2>2
<1>13. ASSUME NEW g \in Flights, Carrying(g)' PROVE \A n \in Visits(flight[g].dev)' : n <= flight'[g].chal
  <2>1. CASE g = f
    BY <1>2, <1>3, <1>9, <2>1 DEF d
  <2>2. CASE g # f
    <3>1. Carrying(g) /\ Awaited(g) /\ flight'[g] = flight[g] /\ flight[g].dev \in Devices
      BY <1>3, <1>4, <1>13, <2>2, AwaitedDevice DEF Carrying
    <3>2. flight[g].dev # d \/ ~Awaited(f)
      BY <1>10, <2>2, <3>1
    <3> QED  BY <1>8, <3>1, <3>2 DEF ClientInv, Current
  <2> QED  BY <2>1, <2>2
<1>14. \A g \in Flights : flight'[g].dev = flight[g].dev
  BY <1>2, <1>3 DEF d
<1> QED  BY <1>11, <1>12, <1>13, <1>14 DEF ClientInv, Current

LEMMA ClientSend ==
    ASSUME Base, ClientInv, NEW f \in Flights, Send(f) PROVE ClientInv'
<1> DEFINE n == flight[f].chal
<1>1. /\ flight[f].phase = "sending" /\ screen' = screen
      /\ n \in 1 .. Len(challenges)
      /\ \E answer \in {"ok", "unavailable"} : flight' = Answered(f, answer)
  BY FlightFacts, ChalFacts DEF Send, Refers
<1>2. SameVisits
  <2>1. CASE UNCHANGED challenges
    BY <2>1, VisitsUnchanged
  <2>2. ASSUME NEW status, challenges' = [challenges EXCEPT ![n].status = status] PROVE SameVisits
    <3>1. \A m \in DOMAIN challenges : /\ challenges'[m].by = challenges[m].by
                                       /\ challenges'[m].visit = challenges[m].visit
      <4> TAKE m \in DOMAIN challenges
      <4>1. challenges[m] \in Challenge
        BY Lengths DEF Base
      <4> QED  BY <2>2, <4>1, Lengths DEF Base, Challenge
    <3>2. DOMAIN challenges' = DOMAIN challenges
      BY <2>2
    <3> QED  BY <3>1, <3>2 DEF SameVisits, Visits
  <2> QED  BY <2>1, <2>2 DEF Send
<1> QED  BY <1>1, <1>2, ClientAnswered

LEMMA ClientSignIn ==
    ASSUME Base, ClientInv, NEW f \in Flights, SignIn(f) PROVE ClientInv'
<1> DEFINE n == flight[f].chal
<1>1. /\ flight[f].phase = "stamped" /\ ~Asks(f) /\ screen' = screen
      /\ \E answer \in {"ok", "denied"} : flight' = Answered(f, answer)
  BY SignInCases DEF Asks
<1>2. SameVisits
  <2>1. CASE UNCHANGED challenges
    BY <2>1, VisitsUnchanged
  <2>2. CASE \/ challenges' = [challenges EXCEPT ![n].failed = @ + 1]
             \/ challenges' = [challenges EXCEPT ![n].consumed = TRUE]
    <3>1. \A m \in DOMAIN challenges : /\ challenges'[m].by = challenges[m].by
                                       /\ challenges'[m].visit = challenges[m].visit
      <4> TAKE m \in DOMAIN challenges
      <4>1. challenges[m] \in Challenge
        BY Lengths DEF Base
      <4> QED  BY <2>2, <4>1, Lengths DEF Base, Challenge
    <3>2. DOMAIN challenges' = DOMAIN challenges
      BY <2>2
    <3> QED  BY <3>1, <3>2 DEF SameVisits, Visits
  <2> QED  BY <2>1, <2>2, SignInCases
<1> QED  BY <1>1, <1>2, ClientAnswered

LEMMA ClientService ==
    ASSUME Base, ClientInv, NEW f \in Flights, Limit(f) \/ Issue(f) \/ ServeSession(f) PROVE ClientInv'
<1>1. CASE Limit(f)
  <2>1. /\ flight' = Answered(f, "limited") /\ flight[f].phase = "sent"
        /\ UNCHANGED <<challenges, screen>>
    BY <1>1 DEF Limit, serverVars
  <2> QED  BY <2>1, VisitsUnchanged, ClientAnswered
<1>2. CASE Issue(f)
  <2>1. CASE Issues(f)
    BY <2>1, ClientIssues
  <2>2. CASE /\ flight[f].phase = "stamped" /\ flight' = Answered(f, "limited")
             /\ UNCHANGED <<challenges, screen>>
    BY <2>2, VisitsUnchanged, ClientAnswered
  <2> QED  BY <1>2, <2>1, <2>2, IssueCases
<1>3. CASE ServeSession(f)
  <2>1. /\ flight[f].phase = "sent" /\ ~Asks(f) /\ UNCHANGED <<challenges, screen>>
        /\ \E answer \in {"ok", "denied"} : flight' = Answered(f, answer)
    BY <1>3 DEF ServeSession, Asks
  <2> QED  BY <2>1, VisitsUnchanged, ClientAnswered
<1> QED  BY <1>1, <1>2, <1>3

\* What a screen becomes when it hears an answer, or none.
LEMMA ShownCode ==
    ASSUME Base, NEW f \in Flights, NEW d \in Devices, d = flight[f].dev,
           flight[f].waits,
           NEW answer \in {"ok", "denied", "limited", "unavailable"},
           \/ answer = "unavailable"
           \/ flight[f].phase = "answered" /\ answer = flight[f].answer,
           LET s == Shown(d, flight[f], answer) IN s.view = "code"
    PROVE  LET s == Shown(d, flight[f], answer) IN
           \/ ~Awaited(f) /\ s = screen[d]
           \/ Awaited(f) /\ screen[d].view = "code" /\ s.chal = screen[d].chal /\ ~Replacing(f)
           \/ Carrying(f) /\ s.chal = flight[f].chal
<1> DEFINE r == flight[f]
           s == Shown(d, flight[f], answer)
<1>1. CASE ~r.live
  BY <1>1 DEF Shown, Awaited
<1>2. CASE r.live
  <2>0. Awaited(f) /\ s.view = "code" /\ screen[d] \in Screen
        /\ r.op \in {"check", "request", "resend", "verify", "logout"}
    BY <1>2, FlightFacts, ScreenFacts DEF Awaited, Request, Refers
  <2>1. CASE r.op = "check"
    <3>1. s = AfterCheck(answer)
      BY <1>2, <2>1 DEF Shown
    <3>2. AfterCheck(answer).view # "code"
      BY DEF AfterCheck, Blank
    <3> QED  BY <2>0, <3>1, <3>2
  <2>2. CASE r.op \in {"verify", "logout"}
    <3>1. s = AfterVerify(screen[d], answer) \/ s = AfterLogout(screen[d], answer)
      BY <1>2, <2>2 DEF Shown
    <3>2. [Blank EXCEPT !.view = "session"].view # "code" /\ [Blank EXCEPT !.view = "phone"].view # "code"
      BY DEF Blank
    <3>3. s = [screen[d] EXCEPT !.loading = FALSE]
      BY <2>0, <3>1, <3>2 DEF AfterVerify, AfterLogout
    <3>4. s.view = screen[d].view /\ s.chal = screen[d].chal
      BY <2>0, <3>3 DEF Screen
    <3>5. ~Replacing(f)
      BY <2>2 DEF Replacing, Asks
    <3> QED  BY <2>0, <3>4, <3>5
  <2>3. CASE r.op \in {"request", "resend"}
    <3>1. \E a \in {answer, Relayed(answer)} : s = AppTransition(screen[d], r, a)
      BY <1>2, <2>3 DEF Shown, FormTransition
    <3>2. PICK a \in {answer, Relayed(answer)} : s = AppTransition(screen[d], r, a)
      BY <3>1
    <3>3. a \in {"ok", "limited"} => r.phase = "answered" /\ r.answer = a
      BY <3>2 DEF Relayed
    <3>4. CASE a = "ok"
      <4>1. s.chal = r.chal
        BY <3>2, <3>4 DEF AppTransition
      <4> QED  BY <2>0, <2>3, <3>3, <3>4, <4>1 DEF Carrying, Asks
    <3>5. CASE a = "limited" /\ r.op = "resend"
      <4>1. s = [screen[d] EXCEPT !.loading = FALSE]
        BY <3>2, <3>5 DEF AppTransition
      <4>2. s.view = screen[d].view /\ s.chal = screen[d].chal
        BY <2>0, <4>1 DEF Screen
      <4>3. ~Replacing(f)
        BY <3>3, <3>5 DEF Replacing
      <4> QED  BY <2>0, <4>2, <4>3
    <3>6. CASE a # "ok" /\ ~(a = "limited" /\ r.op = "resend")
      <4>1. s.view = "phone"
        BY <3>2, <3>6 DEF AppTransition, Blank
      <4> QED  BY <2>0, <4>1
    <3> QED  BY <3>4, <3>5, <3>6
  <2> QED  BY <2>0, <2>1, <2>2, <2>3
<1> QED  BY <1>1, <1>2, FlightFacts DEF Request

LEMMA ClientHears ==
    ASSUME Base, ClientInv, NEW f \in Flights, flight[f].waits,
           UNCHANGED challenges,
           ~Awaited(f)', \A g \in Flights : g # f => flight'[g] = flight[g],
           NEW d \in Devices, d = flight[f].dev,
           NEW answer \in {"ok", "denied", "limited", "unavailable"},
           \/ answer = "unavailable"
           \/ flight[f].phase = "answered" /\ answer = flight[f].answer,
           screen' = [screen EXCEPT ![d] = Shown(d, flight[f], answer)]
    PROVE  ClientInv'
<1> DEFINE s == Shown(d, flight[f], answer)
<1>1. s.view = "code" =>
         \/ ~Awaited(f) /\ s = screen[d]
         \/ Awaited(f) /\ screen[d].view = "code" /\ s.chal = screen[d].chal /\ ~Replacing(f)
         \/ Carrying(f) /\ s.chal = flight[f].chal
  BY ShownCode
<1>2. ~Awaited(f) => s = screen[d]
  BY DEF Awaited, Shown
<1>3. screen'[d] = s /\ \A x \in Devices : x # d => screen'[x] = screen[x]
  BY DEF Base, OtpTypeOK
<1> HIDE DEF s
<1> QED  BY <1>1, <1>2, <1>3, ClientEnds

LEMMA ClientGiveUp ==
    ASSUME Base, ClientInv, NEW f \in Flights, GiveUp(f) PROVE ClientInv'
<1> DEFINE r == IF flight[f].phase = "answered" \/ flight[f].op = "check" THEN NoFlight
                ELSE [flight[f] EXCEPT !.waits = FALSE]
<1>1. /\ flight[f].waits /\ flight[f].dev \in Devices /\ flight' = [flight EXCEPT ![f] = r]
      /\ screen' = [screen EXCEPT ![flight[f].dev] = Shown(flight[f].dev, flight[f], "unavailable")]
      /\ UNCHANGED challenges
  BY FlightFacts DEF GiveUp, GivesUp, Refers, serverVars
<1>2. ~r.waits
  BY FlightFacts DEF Request, NoFlight
<1> HIDE DEF r
<1>3. flight'[f] = r /\ \A g \in Flights : g # f => flight'[g] = flight[g]
  BY <1>1 DEF Base, OtpTypeOK
<1>4. ~Awaited(f)'
  BY <1>2, <1>3 DEF Awaited
<1> QED  BY <1>1, <1>3, <1>4, ClientHears

LEMMA ClientHeard ==
    ASSUME Base, ClientInv, NEW f \in Flights, AppAnswered(f) \/ FormAnswered(f) PROVE ClientInv'
<1> DEFINE d == flight[f].dev
<1>1. /\ flight[f].phase = "answered" /\ d \in Devices /\ UNCHANGED challenges
      /\ flight' = [flight EXCEPT ![f] = NoFlight]
      /\ \/ screen' = [screen EXCEPT ![d] = Shown(d, flight[f], flight[f].answer)]
         \/ screen' = [screen EXCEPT ![d] = Shown(d, flight[f], "unavailable")]
  BY DEF AppAnswered, FormAnswered, Devices, serverVars
<1>2. /\ flight[f].waits /\ flight[f].answer \in {"ok", "denied", "limited", "unavailable"}
  BY <1>1, FlightFacts DEF Request, Refers
<1>3. flight'[f] = NoFlight /\ \A g \in Flights : g # f => flight'[g] = flight[g]
  BY <1>1 DEF Base, OtpTypeOK
<1>4. ~Awaited(f)'
  BY <1>3 DEF Awaited, NoFlight
<1> QED  BY <1>1, <1>2, <1>3, <1>4, ClientHears

LEMMA ClientStep == ASSUME Base, ClientInv, [OtpNext]_vars PROVE ClientInv'
<1>1. CASE UNCHANGED <<challenges, screen, flight>>
  BY <1>1 DEF ClientInv, OneAwaited, Current, Visits, Awaited, Replacing, Carrying, Asks
<1>2. ASSUME NEW f \in Flights, NEW d \in owned, Use(f, d) PROVE ClientInv'
  BY <1>2, OwnedDevices, ClientUse
<1>3. ASSUME NEW f \in Flights,
             Limit(f) \/ Stamp(f) \/ Issue(f) \/ Send(f) \/ SignIn(f) \/ ServeSession(f)
      PROVE  ClientInv'
  BY <1>3, ClientService, ClientStamp, ClientSend, ClientSignIn
<1>4. ASSUME NEW f \in Flights, GiveUp(f) \/ AppAnswered(f) \/ FormAnswered(f) PROVE ClientInv'
  BY <1>4, ClientGiveUp, ClientHeard
<1>5. ASSUME NEW d \in owned, EditPhone(d) \/ Leave(d) PROVE ClientInv'
  BY <1>5, OwnedDevices, ClientEdit, ClientLeave
<1>6. ASSUME NEW n, Revoke(n) PROVE UNCHANGED <<challenges, screen, flight>>
  BY <1>6 DEF Revoke
<1>7. Tick \/ UNCHANGED vars => UNCHANGED <<challenges, screen, flight>>
  BY DEF Tick, vars, serverVars
<1> QED  BY <1>1, <1>2, <1>3, <1>4, <1>5, <1>6, <1>7 DEF OtpNext

LEMMA ClientInit == ASSUME OtpInit PROVE ClientInv
  BY DEF OtpInit, ClientInv, OneAwaited, Current, Visits, Awaited, Carrying, Blank, NoFlight

\* However requests outlive their clients, are delayed, throttled or lose their
\* answers: a code field that takes input is for the last challenge its screen
\* asked for and waited for (otp-request-transition.ts, App.tsx, auth-form.tsx).
THEOREM CurrentField == OtpSpec => []CodeFieldCurrent
<1>1. Base /\ ClientInv /\ [OtpNext]_vars => (Base /\ ClientInv)'
  BY BaseStep, ClientStep
<1>2. OtpInit => Base /\ ClientInv
  BY BaseInit, ClientInit
<1>3. Base /\ ClientInv => CodeFieldCurrent
  <2> SUFFICES ASSUME Base, ClientInv, NEW d \in Devices, screen[d].view = "code", ~screen[d].loading
               PROVE  \A n \in Visits(d) : n <= screen[d].chal
    BY DEF CodeFieldCurrent, Visits
  <2>1. ~\E f \in Flights : flight[f].dev = d /\ Replacing(f)
    BY DEF ClientInv, OneAwaited, Replacing
  <2> QED  BY <2>1 DEF ClientInv, Current
<1> QED  BY <1>1, <1>2, <1>3, PTL DEF OtpSpec

=============================================================================
