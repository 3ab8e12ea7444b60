--------------------------- MODULE UserInteraction ---------------------------
(***************************************************************************)
(* The pages on which users sign in and out and decide what a client may   *)
(* do: AccountController, ConsentController and DeviceController.           *)
(*                                                                         *)
(* The tabs of a browser share its session cookie; every tab has at most   *)
(* one request under way.  A request keeps the user it arrived with, while *)
(* another tab may sign in or out.  Decisions are about an `ask': the      *)
(* return URL of an authorization request, or the user code of a device.   *)
(* IdentityServer, which keeps the asks and hands out tokens, is external.  *)
(***************************************************************************)
EXTENDS FiniteSets

CONSTANTS
    Tab,            \* windows
    Browser,        \* browsers, each with its cookies
    BrowserOf,      \* the browser of each tab
    User,           \* users, who know their password
    AuthRequest,    \* return URLs of authorization requests
    UserCode,       \* user codes that devices display
    Scope,          \* the scopes that are asked for
    EnableOfflineAccess,    \* ConsentOptions
    Null            \* nobody, nothing

Ask == AuthRequest \cup UserCode

\* The pages that can be left with a form, those that tell a result, and any other
\* place, on the way to an ask or away from it.
Views == {"login", "consent", "confirmation", "logout", "success", "error", "elsewhere"}

\* What a tab shows, and for whom the server made it.
Page == [view : Views, ask : Ask \cup {Null}, user : User \cup {Null}]

\* A form post, or the logout that a link asks for.
Post == [button : {"login", "cancel", "yes", "no", "other", "logout", "hinted", "link"},
         scopes : SUBSET Scope,
         name   : User \cup {Null},
         user   : User \cup {Null}]     \* HttpContext.User

\* What is decided about an ask; without scopes it is denied.
Decision == [ask : Ask, user : User \cup {Null}, scopes : SUBSET Scope]

ASSUME BrowserOfType == BrowserOf \in [Tab -> Browser]
ASSUME AsksDiffer == AuthRequest \cap UserCode = {}
ASSUME SwitchType == EnableOfflineAccess \in BOOLEAN
ASSUME NullIsFresh == Null \notin Ask /\ Null \notin User /\ Null \notin Post /\ Null \notin Decision

VARIABLES
    session,    \* the user that a browser's cookie names
    page,       \* what each tab shows
    pc,         \* where the request of each tab is
    post,       \* what it posted
    open,       \* the asks for which there is an authorization context
    consent,    \* the decisions that each browser brings to the authorize endpoint
    device,     \* what was decided about each user code, or Null
    confirmed   \* history: what users confirmed on pages made for them

vars == <<session, page, pc, post, open, consent, device, confirmed>>

SessionOf(t) == session[BrowserOf[t]]

Show(t, view, ask, user) ==
    page' = [page EXCEPT ![t] = [view |-> view, ask |-> ask, user |-> user]]

\* The request of tab t ends with a page.
Finish(t, view, ask, user) ==
    /\ Show(t, view, ask, user)
    /\ pc' = [pc EXCEPT ![t] = "idle"]
    /\ post' = [post EXCEPT ![t] = Null]

-----------------------------------------------------------------------------
(* Pages *)

\* The login form.  Every client allows the local login and no other provider is
\* registered, so that there is one form and no challenge.
LoginPage(t, ask) == Show(t, "login", ask, SessionOf(t))

\* A user code stands for any local page to return to.
ShowLogin(t, ask) ==
    /\ pc[t] = "idle"
    /\ LoginPage(t, ask)
    /\ UNCHANGED <<session, pc, post, open, consent, device, confirmed>>

\* The scopes of an ask, if there is an authorization context for it.
AskPage(t, ask) ==
    IF ask \notin open THEN Show(t, "error", Null, Null)
    ELSE Show(t, IF ask \in UserCode THEN "confirmation" ELSE "consent", ask, SessionOf(t))

\* Consent and device pages, [Authorize]: a user who is not signed in goes to
\* the login page first.
ShowAsk(t, ask) ==
    /\ pc[t] = "idle"
    /\ IF SessionOf(t) = Null THEN LoginPage(t, ask) ELSE AskPage(t, ask)
    /\ UNCHANGED <<session, pc, post, open, consent, device, confirmed>>

\* Mutant: a logout without context needs no prompt.
ShowNoPrompt(t, hinted) ==
    /\ pc[t] = "idle"
    /\ Show(t, "elsewhere", Null, Null)
    /\ pc' = [pc EXCEPT ![t] = "process"]
    /\ post' = [post EXCEPT ![t] =
                   [button |-> IF hinted THEN "hinted" ELSE "link", scopes |-> {},
                    name |-> Null, user |-> SessionOf(t)]]
    /\ UNCHANGED <<session, open, consent, device, confirmed>>

\* A logout that IdentityServer authenticated goes ahead; so does the one of a
\* user who is not signed in.  Anybody else is asked.
ShowLogout(t, hinted) ==
    /\ pc[t] = "idle"
    /\ IF SessionOf(t) = Null \/ hinted
       THEN /\ Show(t, "elsewhere", Null, Null)
            /\ pc' = [pc EXCEPT ![t] = "process"]
            /\ post' = [post EXCEPT ![t] =
                           [button |-> IF hinted THEN "hinted" ELSE "link",
                            scopes |-> {}, name |-> Null, user |-> SessionOf(t)]]
       ELSE Show(t, "logout", Null, SessionOf(t)) /\ UNCHANGED <<pc, post>>
    /\ UNCHANGED <<session, open, consent, device, confirmed>>

-----------------------------------------------------------------------------
(* Form posts *)

\* Mutants: no filter at all; only [Authorize].
Unfiltered(t) == TRUE
SignedIn(t) == page[t].view \in {"consent", "confirmation"} => SessionOf(t) # Null

\* [ValidateAntiForgeryToken] ties a form to the user it was made for, and
\* [Authorize] needs somebody.
Admitted(t) ==
    /\ page[t].user = SessionOf(t)
    /\ page[t].view \in {"consent", "confirmation"} => SessionOf(t) # Null

Submit(t, button, scopes, name) ==
    /\ pc[t] = "idle"
    /\ IF Admitted(t)
       THEN /\ pc' = [pc EXCEPT ![t] = "process"]
            /\ post' = [post EXCEPT ![t] = [button |-> button, scopes |-> scopes,
                                            name |-> name, user |-> SessionOf(t)]]
            /\ confirmed' =
                   IF scopes # {}
                   THEN confirmed \cup {[ask |-> page[t].ask, user |-> page[t].user,
                                         scopes |-> scopes]}
                   ELSE confirmed
            /\ UNCHANGED page
       ELSE /\ Show(t, "error", Null, Null)
            /\ UNCHANGED <<pc, post, confirmed>>
    /\ UNCHANGED <<session, open, consent, device>>

\* What the user can do with the form of a page.
SubmitForm(t) ==
    \/ /\ page[t].view = "login"
       /\ \E name \in User : Submit(t, "login", {}, name)
    \/ page[t].view = "login" /\ Submit(t, "cancel", {}, Null)
    \/ /\ page[t].view \in {"consent", "confirmation"}
       /\ \E scopes \in SUBSET Scope : Submit(t, "yes", scopes, Null)
    \/ /\ page[t].view \in {"consent", "confirmation"}
       /\ \E button \in {"no", "other"} : Submit(t, button, {}, Null)
    \/ page[t].view = "logout" /\ Submit(t, "logout", {}, Null)

\* External: the browser is told a decision, in place of the user's last one.
Tell(b, decision) ==
    consent' = [consent EXCEPT ![b] =
                   {m \in @ : m.ask # decision.ask \/ m.user # decision.user}
                     \cup {decision}]

\* AccountController.Login: leaving the page of an authorization request denies
\* it.
CancelLogin(t) ==
    LET ask == page[t].ask IN
    /\ pc[t] = "process" /\ post[t].button = "cancel"
    /\ IF ask \in AuthRequest \cap open
       THEN /\ Tell(BrowserOf[t], [ask |-> ask, user |-> post[t].user, scopes |-> {}])
            /\ Finish(t, "elsewhere", Null, Null)
       ELSE Finish(t, "elsewhere", Null, Null) /\ UNCHANGED consent
    /\ UNCHANGED <<session, open, device, confirmed>>

\* With the right password the cookie names the new user; with a wrong one the
\* form is shown again.
Login(t) ==
    /\ pc[t] = "process" /\ post[t].button = "login"
    /\ \/ /\ session' = [session EXCEPT ![BrowserOf[t]] = post[t].name]
          /\ Finish(t, "elsewhere", Null, Null)
       \/ Finish(t, "login", page[t].ask, page[t].user) /\ UNCHANGED session
    /\ UNCHANGED <<open, consent, device, confirmed>>

\* The cookie is deleted when the request had a user, whoever it names by now.
Logout(t) ==
    /\ pc[t] = "process" /\ post[t].button \in {"logout", "hinted", "link"}
    /\ session' = IF post[t].user = Null THEN session
                  ELSE [session EXCEPT ![BrowserOf[t]] = Null]
    /\ Finish(t, "elsewhere", Null, Null)
    /\ UNCHANGED <<open, consent, device, confirmed>>

\* ProcessConsent of both controllers, up to the answer.  Without an
\* authorization context the device page reports no error, the other does.
ProcessConsent(t) ==
    LET ask == page[t].ask
        forDevice == ask \in UserCode
    IN
    /\ pc[t] = "process" /\ post[t].button \in {"yes", "no", "other"}
    /\ IF ask \notin open
       THEN IF forDevice THEN Finish(t, "success", ask, Null)
                         ELSE Finish(t, "error", Null, Null)
       ELSE IF post[t].button = "no" \/ (post[t].button = "yes" /\ post[t].scopes # {})
       THEN pc' = [pc EXCEPT ![t] = "answer"] /\ UNCHANGED <<page, post>>
       ELSE IF forDevice THEN Finish(t, "error", Null, Null)
       ELSE Finish(t, "consent", ask, post[t].user)
    /\ UNCHANGED <<session, open, consent, device, confirmed>>

Consented(scopes) ==
    IF EnableOfflineAccess THEN scopes ELSE scopes \ {"offline_access"}

\* The answer is communicated to IdentityServer.  That the device is gone by now
\* is not noticed: the result of HandleRequestAsync is ignored.
Answer(t) ==
    LET ask == page[t].ask
        decision == [ask |-> ask, user |-> post[t].user,
                     scopes |-> Consented(post[t].scopes)]
    IN
    /\ pc[t] = "answer"
    /\ IF ask \in UserCode
       THEN /\ device' = IF ask \in open THEN [device EXCEPT ![ask] = decision]
                         ELSE device
            /\ UNCHANGED consent
            /\ Finish(t, "success", ask, Null)
       ELSE /\ Tell(BrowserOf[t], decision)
            /\ UNCHANGED device
            /\ Finish(t, "elsewhere", Null, Null)
    /\ UNCHANGED <<session, open, confirmed>>

-----------------------------------------------------------------------------
(* IdentityServer (external) *)

\* A browser comes with an authorization request.  The decision it brings from
\* its user, if there is one, is used up; otherwise the user is asked.
Authorize(t, ask) ==
    LET b == BrowserOf[t]
        told == {m \in consent[b] : m.ask = ask /\ m.user = session[b]}
    IN
    /\ pc[t] = "idle"
    /\ IF ask \notin open THEN Show(t, "error", Null, Null)
       ELSE IF told = {} /\ session[b] = Null THEN LoginPage(t, ask)
       ELSE Show(t, "elsewhere", Null, Null)
    /\ consent' = [consent EXCEPT ![b] = IF ask \in open THEN @ \ told ELSE @]
    /\ UNCHANGED <<session, pc, post, open, device, confirmed>>

\* A device that polls gets what was granted to it, once.
Poll(code) ==
    /\ code \in open
    /\ device[code] # Null /\ device[code].scopes # {}
    /\ open' = open \ {code}
    /\ UNCHANGED <<session, page, pc, post, consent, device, confirmed>>

Expire(code) ==
    /\ code \in open
    /\ open' = open \ {code}
    /\ UNCHANGED <<session, page, pc, post, consent, device, confirmed>>

-----------------------------------------------------------------------------
Init ==
    /\ session = [b \in Browser |-> Null]
    /\ page = [t \in Tab |-> [view |-> "elsewhere", ask |-> Null, user |-> Null]]
    /\ pc = [t \in Tab |-> "idle"]
    /\ post = [t \in Tab |-> Null]
    /\ open \in {UserCode \cup valid : valid \in SUBSET AuthRequest}
    /\ consent = [b \in Browser |-> {}]
    /\ device = [code \in UserCode |-> Null]
    /\ confirmed = {}

Browse(t) ==
    \/ \E ask \in Ask : ShowLogin(t, ask)
    \/ \E ask \in Ask : ShowAsk(t, ask)
    \/ \E hinted \in BOOLEAN : ShowLogout(t, hinted)
    \/ \E ask \in AuthRequest : Authorize(t, ask)
    \/ SubmitForm(t)

Handle(t) ==
    \/ CancelLogin(t)
    \/ Login(t)
    \/ Logout(t)
    \/ ProcessConsent(t)
    \/ Answer(t)

Next ==
    \/ \E t \in Tab : Browse(t) \/ Handle(t)
    \/ \E code \in UserCode : Poll(code) \/ Expire(code)

Spec == Init /\ [][Next]_vars

-----------------------------------------------------------------------------
(* Correctness *)

\* Every variable stays in its domain; nobody but a signed-in user grants.
TypeOK ==
    /\ session \in [Browser -> User \cup {Null}]
    /\ page \in [Tab -> Page]
    /\ pc \in [Tab -> {"idle", "process", "answer"}]
    /\ post \in [Tab -> Post \cup {Null}]
    /\ \A t \in Tab : pc[t] # "idle" => post[t] # Null
    /\ open \subseteq Ask
    /\ consent \in [Browser -> SUBSET Decision]
    /\ \A b \in Browser : \A d \in consent[b] : d.user = Null => d.scopes = {}
    /\ device \in [UserCode -> Decision \cup {Null}]
    /\ confirmed \subseteq Decision

\* On a page that the server made for this user, he ticked at least these scopes.
Confirmed(d) ==
    \E c \in confirmed : c.ask = d.ask /\ c.user = d.user /\ d.scopes \subseteq c.scopes

\* Whatever IdentityServer is told to grant on behalf of a user, that user confirmed
\* for the same ask, in one answer, on a page that the server had made for him:
\* also when another tab of the browser meanwhile changed who is signed in, and
\* when several tabs answer at once.
GrantedAsConfirmed ==
    /\ \A b \in Browser : \A d \in consent[b] : d.scopes # {} => Confirmed(d)
    /\ \A code \in UserCode :
           device[code] # Null /\ device[code].scopes # {} => Confirmed(device[code])

\* A session only ends with the request of a tab whose user agreed to the prompt
\* or whose logout IdentityServer had authenticated ("prevents attacks where the
\* user is automatically signed out by another malicious web page").
SignOutConfirmed ==
    [][\A b \in Browser :
          session[b] # Null /\ session'[b] = Null =>
              \E t \in Tab : /\ BrowserOf[t] = b /\ pc[t] = "process"
                             /\ post[t].button \in {"logout", "hinted"}]_vars
=============================================================================
