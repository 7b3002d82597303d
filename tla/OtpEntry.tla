------------------------------ MODULE OtpEntry ------------------------------
(***************************************************************************)
(* Signing in with a one-time code: the phone app's screen (App.tsx,       *)
(* mobile-auth.ts), the web form with its gateway (auth-form.tsx,          *)
(* app/api/auth), and the service both call (OtpChallengeIssuer.cs,        *)
(* OtpSignInService.cs), for one telephone number.  Requests wait for the  *)
(* number's lock, outlive the eight seconds their client waits, and        *)
(* outlive the screen that sent them.                                      *)
(***************************************************************************)
EXTENDS Naturals, FiniteSets, Sequences

CONSTANTS
    Apps, Browsers,     \* devices with the phone app and with the web form
    Owners,             \* a behaviour has the devices of one of these sets
    Flights, NoDevice,  \* requests under way at a time
    Cooldown, Lifetime, \* ResendCooldown and Lifetime of a challenge
    MaxFailedAttempts,
    MaxTime, MaxChallenges  \* bounds of the run

Devices == Apps \cup Browsers

ASSUME OtpAssumption ==
    /\ NoDevice \notin Devices
    /\ Apps \cap Browsers = {}
    /\ Owners \subseteq SUBSET Devices
    /\ Cooldown \in Nat \ {0} /\ Lifetime \in Nat \ {0}
    /\ MaxFailedAttempts \in Nat \ {0}
    /\ MaxTime \in Nat /\ MaxChallenges \in Nat

VARIABLES
    clock,
    challenges,     \* rows of the number, in the order they were added
    sessions,       \* challenges whose session is valid
    grants,         \* how often each challenge was answered with a session
    screen,         \* what each device shows
    held,           \* the bearer in each device's SecureStore or cookie jar
    flight,
    owned           \* the devices of this behaviour

vars == <<clock, challenges, sessions, grants, screen, held, flight, owned>>
serverVars == <<challenges, sessions, grants>>

\* A challenge is named by its place; 0 is none.
ChallengeIds == 0 .. MaxChallenges
Views == {"none", "checking", "phone", "code", "session", "offline"}
Blank == [view |-> "none", chal |-> 0, loading |-> FALSE]
NoFlight == [dev |-> NoDevice, op |-> "none", phase |-> "none", answer |-> "none",
             waits |-> FALSE, live |-> FALSE, now |-> 0, chal |-> 0, bearer |-> 0,
             right |-> FALSE]

Challenge == [issued : 0 .. MaxTime, status : {"PENDING", "ACCEPTED", "FAILED"},
              consumed : BOOLEAN, failed : 0 .. MaxFailedAttempts,
              by : Devices,         \* the screen that asked for it
              visit : BOOLEAN]      \* and still waited when it was added
Screen == [view : Views, chal : ChallengeIds, loading : BOOLEAN]
Request == [dev : Devices \cup {NoDevice},
            op : {"none", "check", "request", "resend", "verify", "logout"},
            phase : {"none", "sent", "stamped", "sending", "answered"},
            answer : {"none", "ok", "denied", "limited", "unavailable"},
            waits : BOOLEAN,        \* the client hears the answer
            live : BOOLEAN,         \* its screen is still there
            now : 0 .. MaxTime,     \* the time the service read
            chal : ChallengeIds, bearer : ChallengeIds, right : BOOLEAN]

OtpTypeOK ==
    /\ clock \in 0 .. MaxTime
    /\ challenges \in Seq(Challenge) /\ Len(challenges) <= MaxChallenges
    /\ sessions \subseteq DOMAIN challenges
    /\ grants \in [1 .. MaxChallenges -> Nat]
    /\ screen \in [Devices -> Screen]
    /\ held \in [Devices -> ChallengeIds]
    /\ flight \in [Flights -> Request]
    /\ owned \in Owners

OtpInit ==
    /\ clock = 0
    /\ challenges = <<>>
    /\ sessions = {}
    /\ grants = [n \in 1 .. MaxChallenges |-> 0]
    /\ screen = [d \in Devices |-> Blank]
    /\ held = [d \in Devices |-> 0]
    /\ flight = [f \in Flights |-> NoFlight]
    /\ owned \in Owners

-----------------------------------------------------------------------------
(* The client sends.  "loading" is its guard against a second request.      *)

Launched(f, d, op, chal, right) ==
    [flight EXCEPT ![f] = [NoFlight EXCEPT !.dev = d, !.op = op, !.phase = "sent", !.waits = TRUE,
                                           !.live = TRUE, !.chal = chal, !.bearer = held[d],
                                           !.right = right]]

\* A device without a bearer knows that it is a guest.
Checked(f, d) ==
    IF held[d] = 0
    THEN /\ screen' = [screen EXCEPT ![d] = [Blank EXCEPT !.view = "phone"]]
         /\ UNCHANGED flight
    ELSE /\ screen' = [screen EXCEPT ![d].view = "checking", ![d].loading = TRUE]
         /\ flight' = Launched(f, d, "check", 0, FALSE)

\* The screen opens; its button and the return from the background check again,
\* but never over a code that is being entered.
Rechecked(view) == view \in {"session", "offline"}
Check(f, d) ==
    /\ flight[f] = NoFlight
    /\ screen[d].view = "none" \/ Rechecked(screen[d].view)
    /\ ~screen[d].loading
    /\ Checked(f, d)
    /\ UNCHANGED <<clock, serverVars, held>>

AppCheck(f, d) == d \in Apps /\ Check(f, d)
FormCheck(f, d) == d \in Browsers /\ Check(f, d)

\* A first code is asked for on the number's field, another one on the code's.
Ask(f, d, resend) ==
    /\ flight[f] = NoFlight /\ ~screen[d].loading
    /\ screen[d].view = IF resend THEN "code" ELSE "phone"
    /\ resend => screen[d].chal # 0
    /\ screen' = [screen EXCEPT ![d].loading = TRUE]
    /\ flight' = Launched(f, d, IF resend THEN "resend" ELSE "request", screen[d].chal, FALSE)
    /\ UNCHANGED <<clock, serverVars, held>>

AppRequest(f, d, resend) == d \in Apps /\ Ask(f, d, resend)
FormRequest(f, d, resend) == d \in Browsers /\ Ask(f, d, resend)

\* Six digits that are, or are not, the code of the challenge.
Enter(f, d, right) ==
    /\ flight[f] = NoFlight /\ ~screen[d].loading
    /\ screen[d].view = "code" /\ screen[d].chal # 0
    /\ screen' = [screen EXCEPT ![d].loading = TRUE]
    /\ flight' = Launched(f, d, "verify", screen[d].chal, right)
    /\ UNCHANGED <<clock, serverVars, held>>

AppVerify(f, d, right) == d \in Apps /\ Enter(f, d, right)
FormVerify(f, d, right) == d \in Browsers /\ Enter(f, d, right)

SignedOut(f, d) ==
    IF held[d] = 0
    THEN /\ screen' = [screen EXCEPT ![d] = [Blank EXCEPT !.view = "phone"]]
         /\ UNCHANGED flight
    ELSE /\ screen' = [screen EXCEPT ![d].loading = TRUE]
         /\ flight' = Launched(f, d, "logout", 0, FALSE)

AppLogout(f, d) ==
    /\ d \in Apps /\ flight[f] = NoFlight /\ ~screen[d].loading
    /\ screen[d].view \in {"session", "offline"}
    /\ SignedOut(f, d)
    /\ UNCHANGED <<clock, serverVars, held>>

FormLogout(f, d) ==
    /\ d \in Browsers /\ flight[f] = NoFlight /\ ~screen[d].loading
    /\ screen[d].view = "session"
    /\ SignedOut(f, d)
    /\ UNCHANGED <<clock, serverVars, held>>

EditPhone(d) ==
    /\ screen[d].view = "code" /\ ~screen[d].loading
    /\ screen' = [screen EXCEPT ![d] = [Blank EXCEPT !.view = "phone"]]
    /\ UNCHANGED <<clock, serverVars, held, flight>>

\* The screen goes away; what it sent does not, and its challenges stay.
Leave(d) ==
    /\ screen[d].view # "none"
    /\ screen' = [screen EXCEPT ![d] = Blank]
    /\ flight' = [f \in Flights |-> IF flight[f].dev = d THEN [flight[f] EXCEPT !.live = FALSE]
                                    ELSE flight[f]]
    /\ challenges' = [n \in DOMAIN challenges |->
                        IF challenges[n].by = d THEN [challenges[n] EXCEPT !.visit = FALSE]
                        ELSE challenges[n]]
    /\ UNCHANGED <<clock, sessions, grants, held>>

-----------------------------------------------------------------------------
(* The service.  Both operations read the clock before they wait for the    *)
(* lock of the number.                                                      *)

Answered(f, answer) ==
    [flight EXCEPT ![f] = IF flight[f].waits THEN [@ EXCEPT !.phase = "answered", !.answer = answer]
                          ELSE NoFlight]

\* The limiter of the caller's address refuses before anything is read.
Limit(f) ==
    /\ flight[f].phase = "sent" /\ flight[f].op \in {"request", "resend", "verify"}
    /\ flight' = Answered(f, "limited")
    /\ UNCHANGED <<clock, serverVars, screen, held>>

Stamp(f) ==
    /\ flight[f].phase = "sent" /\ flight[f].op \in {"request", "resend", "verify"}
    /\ flight' = [flight EXCEPT ![f].phase = "stamped", ![f].now = clock]
    /\ UNCHANGED <<clock, serverVars, screen, held>>

Open(c) == ~c.consumed /\ c.status \in {"PENDING", "ACCEPTED"}

\* Mistake: only messages known to be sent hold back the next one.
RecentOfAccepted(now) ==
    \E n \in DOMAIN challenges :
        challenges[n].issued + Cooldown > now /\ challenges[n].status = "ACCEPTED"
Recent(now) ==
    \E n \in DOMAIN challenges :
        /\ challenges[n].issued + Cooldown > now
        /\ challenges[n].status \in {"PENDING", "ACCEPTED"}

\* Mistake: a message whose outcome is unknown is not invalidated.
InvalidatedAccepted ==
    [n \in DOMAIN challenges |-> IF Open(challenges[n]) /\ challenges[n].status = "ACCEPTED"
                                 THEN [challenges[n] EXCEPT !.consumed = TRUE] ELSE challenges[n]]
Invalidated ==
    [n \in DOMAIN challenges |-> IF Open(challenges[n])
                                 THEN [challenges[n] EXCEPT !.consumed = TRUE] ELSE challenges[n]]

Issue(f) ==
    LET r == flight[f] IN
    /\ r.phase = "stamped" /\ r.op \in {"request", "resend"}
    /\ IF Recent(r.now)
       THEN flight' = Answered(f, "limited") /\ UNCHANGED challenges
       ELSE /\ Len(challenges) < MaxChallenges
            /\ challenges' = Append(Invalidated,
                 [issued |-> r.now, status |-> "PENDING", consumed |-> FALSE, failed |-> 0,
                  by |-> r.dev, visit |-> r.live /\ r.waits])
            /\ flight' = [flight EXCEPT ![f].phase = "sending", ![f].chal = Len(challenges) + 1]
    /\ UNCHANGED <<clock, sessions, grants, screen, held>>

\* The provider accepts or rejects the message, or its answer is not known.
Send(f) ==
    LET r == flight[f] IN
    /\ r.phase = "sending"
    /\ \/ /\ challenges' = [challenges EXCEPT ![r.chal].status = "ACCEPTED"]
          /\ flight' = Answered(f, "ok")
       \/ /\ challenges' = [challenges EXCEPT ![r.chal].status = "FAILED"]
          /\ flight' = Answered(f, "unavailable")
       \/ /\ UNCHANGED challenges
          /\ flight' = Answered(f, "unavailable")
    /\ UNCHANGED <<clock, sessions, grants, screen, held>>

\* Mistakes: wrong entries are not limited; a used challenge may be used again.
VerifiableForever(c, now) ==
    /\ c.status = "ACCEPTED" /\ ~c.consumed
    /\ c.issued <= now /\ now < c.issued + Lifetime
VerifiableAgain(c, now) ==
    /\ c.status = "ACCEPTED"
    /\ c.issued <= now /\ now < c.issued + Lifetime
    /\ c.failed < MaxFailedAttempts
Verifiable(c, now) ==
    /\ c.status = "ACCEPTED" /\ ~c.consumed
    /\ c.issued <= now /\ now < c.issued + Lifetime
    /\ c.failed < MaxFailedAttempts

SignIn(f) ==
    LET r == flight[f]
        c == challenges[r.chal]
    IN  /\ r.phase = "stamped" /\ r.op = "verify"
        /\ \/ /\ ~Verifiable(c, r.now)
              /\ flight' = Answered(f, "denied")
              /\ UNCHANGED serverVars
           \/ /\ Verifiable(c, r.now) /\ ~r.right
              /\ challenges' = [challenges EXCEPT ![r.chal].failed = @ + 1]
              /\ flight' = Answered(f, "denied")
              /\ UNCHANGED <<sessions, grants>>
           \/ /\ Verifiable(c, r.now) /\ r.right
              /\ challenges' = [challenges EXCEPT ![r.chal].consumed = TRUE]
              /\ sessions' = sessions \cup {r.chal}
              /\ grants' = [grants EXCEPT ![r.chal] = @ + 1]
              /\ flight' = Answered(f, "ok")
        /\ UNCHANGED <<clock, screen, held>>

ServeSession(f) ==
    LET r == flight[f] IN
    /\ r.phase = "sent" /\ r.op \in {"check", "logout"}
    /\ flight' = Answered(f, IF r.bearer \in sessions THEN "ok" ELSE "denied")
    /\ sessions' = IF r.op = "logout" THEN sessions \ {r.bearer} ELSE sessions
    /\ UNCHANGED <<clock, challenges, grants, screen, held>>

Revoke(n) ==
    /\ n \in sessions /\ sessions' = sessions \ {n}
    /\ UNCHANGED <<clock, challenges, grants, screen, held, flight>>

-----------------------------------------------------------------------------
(* The client hears the answer, or after eight seconds nothing.  Then the   *)
(* request goes on without it.                                              *)

\* Mistake: a request whose message is on its way to the provider is waited for.
GivesUpOnQuick(r) == r.waits /\ r.phase \in {"sent", "stamped"}
GivesUp(r) == r.waits /\ r.phase # "none"

\* What the screen becomes when request r ends with an answer.
AfterCheck(answer) ==
    [Blank EXCEPT !.view = CASE answer = "ok" -> "session"
                             [] answer = "denied" -> "phone"
                             [] OTHER -> "offline"]
AfterVerify(s, answer) ==
    IF answer = "ok" THEN [Blank EXCEPT !.view = "session"] ELSE [s EXCEPT !.loading = FALSE]
\* A bearer the service does not know is as good as signed out.
AfterLogout(s, answer) ==
    IF answer \in {"ok", "denied"} THEN [Blank EXCEPT !.view = "phone"]
    ELSE [s EXCEPT !.loading = FALSE]

\* Mistake: the old challenge stays on the screen when the outcome is unknown.
AppTransitionKeeping(s, r, answer) ==
    CASE answer = "ok" -> [view |-> "code", chal |-> r.chal, loading |-> FALSE]
      [] r.op = "resend" -> [s EXCEPT !.loading = FALSE]
      [] OTHER -> [Blank EXCEPT !.view = "phone"]

\* otpRequestTransition: a new challenge replaces the old one, a throttled
\* request keeps it, any other outcome makes it untrustworthy.
AppTransition(s, r, answer) ==
    CASE answer = "ok" -> [view |-> "code", chal |-> r.chal, loading |-> FALSE]
      [] answer = "limited" /\ r.op = "resend" -> [s EXCEPT !.loading = FALSE]
      [] OTHER -> [Blank EXCEPT !.view = "phone"]

\* The form's copy of the policy; its gateway passes on what it understands.
Relayed(answer) == IF answer \in {"ok", "limited"} THEN answer ELSE "unavailable"
FormTransition(s, r, answer) == AppTransition(s, r, Relayed(answer))

Shown(d, r, answer) ==
    LET s == screen[d] IN
    IF ~r.live THEN s
    ELSE CASE r.op = "check"  -> AfterCheck(answer)
           [] r.op = "verify" -> AfterVerify(s, answer)
           [] r.op = "logout" -> AfterLogout(s, answer)
           [] OTHER -> IF d \in Apps THEN AppTransition(s, r, answer)
                       ELSE FormTransition(s, r, answer)

GiveUp(f) ==
    LET r == flight[f] IN
    /\ GivesUp(r)
    /\ screen' = [screen EXCEPT ![r.dev] = Shown(r.dev, r, "unavailable")]
    /\ flight' = [flight EXCEPT ![f] = IF r.phase = "answered" \/ r.op = "check" THEN NoFlight
                                       ELSE [r EXCEPT !.waits = FALSE]]
    /\ UNCHANGED <<clock, serverVars, held>>

\* A session is kept by the device; one that ended or is unknown is dropped,
\* whichever bearer the device holds by then.
Kept(r) == r.op = "verify" /\ r.answer = "ok"
Dropped(r) == \/ r.op = "logout" /\ r.answer \in {"ok", "denied"}
              \/ r.op = "check" /\ r.answer = "denied"

\* SecureStore may refuse: then the fresh session is revoked again, if that
\* request arrives, and a bearer that cannot be removed is not reported gone.
AppAnswered(f) ==
    LET r == flight[f]
        d == r.dev
    IN  /\ r.phase = "answered" /\ d \in Apps
        /\ flight' = [flight EXCEPT ![f] = NoFlight]
        /\ \/ /\ held' = [held EXCEPT ![d] = IF Kept(r) THEN r.chal
                                             ELSE IF Dropped(r) THEN 0 ELSE @]
              /\ screen' = [screen EXCEPT ![d] = Shown(d, r, r.answer)]
              /\ UNCHANGED sessions
           \/ /\ Kept(r) \/ Dropped(r)
              /\ sessions' \in {sessions, IF Kept(r) THEN sessions \ {r.chal} ELSE sessions}
              /\ screen' = [screen EXCEPT ![d] = Shown(d, r, "unavailable")]
              /\ UNCHANGED held
        /\ UNCHANGED <<clock, challenges, grants>>

\* The gateway sets the cookie with the answer, or clears it with a 401.
CookieSet(r) == Kept(r)
CookieCleared(r) == Dropped(r)
FormAnswered(f) ==
    LET r == flight[f]
        d == r.dev
    IN  /\ r.phase = "answered" /\ d \in Browsers
        /\ flight' = [flight EXCEPT ![f] = NoFlight]
        /\ held' = [held EXCEPT ![d] = IF CookieSet(r) THEN r.chal
                                       ELSE IF CookieCleared(r) THEN 0 ELSE @]
        /\ screen' = [screen EXCEPT ![d] = Shown(d, r, r.answer)]
        /\ UNCHANGED <<clock, serverVars>>

Tick ==
    /\ clock < MaxTime /\ clock' = clock + 1
    /\ UNCHANGED <<serverVars, screen, held, flight>>

Use(f, d) ==
    \/ AppCheck(f, d) \/ FormCheck(f, d)
    \/ \E resend \in BOOLEAN : AppRequest(f, d, resend) \/ FormRequest(f, d, resend)
    \/ \E right \in BOOLEAN : AppVerify(f, d, right) \/ FormVerify(f, d, right)
    \/ AppLogout(f, d) \/ FormLogout(f, d)

OtpNext ==
    /\ owned' = owned
    /\ \/ \E f \in Flights :
            \/ \E d \in owned : Use(f, d)
            \/ Limit(f) \/ Stamp(f) \/ Issue(f) \/ Send(f) \/ SignIn(f) \/ ServeSession(f)
            \/ GiveUp(f) \/ AppAnswered(f) \/ FormAnswered(f)
       \/ \E d \in owned : EditPhone(d) \/ Leave(d)
       \/ \E n \in DOMAIN challenges : Revoke(n)
       \/ Tick

\* The timer of eight seconds is the client's own (AbortController.abort,
\* AbortSignal.timeout); nothing is assumed of the service.
OtpSpec == OtpInit /\ [][OtpNext]_vars /\ \A f \in Flights : WF_vars(GiveUp(f) /\ owned' = owned)

-----------------------------------------------------------------------------
(* Properties. *)

\* Parallel correct entries, a repeated entry after a lost answer and a resend
\* in between: one challenge opens one session at most (OtpSignInService.cs).
OneSessionPerChallenge == \A n \in 1 .. MaxChallenges : grants[n] <= 1

\* At most one challenge of the number can still be answered or come to be
\* answerable, also when a message's outcome was unknown at the next request.
OneLiveChallenge ==
    \A m, n \in DOMAIN challenges : Open(challenges[m]) /\ Open(challenges[n]) => m = n

\* However long requests wait for the lock with the time they read before it:
\* two messages of one number that were or may have been sent are a cooldown
\* apart (OtpChallengeIssuer.cs).
CooldownHeld ==
    \A m, n \in DOMAIN challenges :
        m < n /\ challenges[m].status # "FAILED" /\ challenges[n].status # "FAILED" =>
            challenges[m].issued + Cooldown <= challenges[n].issued

\* The code field is never left open for a challenge that a later request of
\* the same screen invalidated while the screen waited for it: a screen that
\* does not hear the outcome drops the challenge (otp-request-transition.ts).
CodeFieldCurrent ==
    \A d \in Devices : screen[d].view = "code" /\ ~screen[d].loading =>
        \A n \in DOMAIN challenges :
            challenges[n].by = d /\ challenges[n].visit => n <= screen[d].chal

\* Every request a screen waits for ends, whatever the service does.
LoadingEnds == \A d \in Devices : screen[d].loading ~> ~screen[d].loading
=============================================================================
