------------------------ MODULE UserInteractionProofs ------------------------
(***************************************************************************)
(* Proofs about UserInteraction, for any number of browsers, tabs, users,  *)
(* authorization requests and devices.                                     *)
(***************************************************************************)
EXTENDS UserInteraction, TLAPS

\* The pages on which something is decided say about what.
PagesNameAsks ==
    \A t \in Tab : page[t].view \in {"login", "consent", "confirmation"} =>
        page[t].ask \in Ask

\* An answer on its way is of somebody who confirmed it, about the ask of the page.
AnswersKept ==
    \A t \in Tab :
        /\ pc[t] = "answer" => post[t].button \in {"yes", "no"}
        /\ pc[t] # "idle" /\ post[t].button = "login" => page[t].ask \in Ask
        /\ pc[t] # "idle" /\ post[t].button \in {"yes", "no", "other"} =>
               /\ page[t].ask \in Ask
               /\ post[t].user # Null
               /\ post[t].scopes # {} =>
                      \E c \in confirmed : /\ c.ask = page[t].ask
                                           /\ c.user = post[t].user
                                           /\ c.scopes = post[t].scopes

\* The inductive invariant.
Inv == TypeOK /\ PagesNameAsks /\ AnswersKept /\ GrantedAsConfirmed

-----------------------------------------------------------------------------
\* The invariant holds at the start, when nobody is signed in.
LEMMA InvInit == Init => Inv
  <1> SUFFICES ASSUME Init PROVE Inv
    OBVIOUS
  <1> USE DEF Init
  <1>1. TypeOK
    BY DEF TypeOK, Page, Views, Ask, Decision
  <1>2. PagesNameAsks
    BY DEF PagesNameAsks
  <1>3. AnswersKept
    BY DEF AnswersKept
  <1>4. GrantedAsConfirmed
    BY DEF GrantedAsConfirmed
  <1> QED
    BY <1>1, <1>2, <1>3, <1>4 DEF Inv

\* Steps that leave decisions and posts alone and show a page whose ask, if it is
\* one to decide, is known: ShowLogin, ShowAsk, a refused post.
LEMMA ShowKeepsInv ==
    ASSUME Inv, NEW t \in Tab, pc[t] = "idle",
           NEW view \in Views, NEW ask \in Ask \cup {Null}, NEW user \in User \cup {Null},
           view \in {"login", "consent", "confirmation"} => ask \in Ask,
           Show(t, view, ask, user),
           UNCHANGED <<session, pc, post, open, consent, device, confirmed>>
    PROVE  Inv'
  <1> USE DEF Inv, Show
  <1>1. page' \in [Tab -> Page]
    BY DEF TypeOK, Page
  <1>2. TypeOK'
    BY <1>1 DEF TypeOK
  <1>3. PagesNameAsks'
    BY DEF PagesNameAsks, TypeOK
  <1>4. AnswersKept'
    BY DEF AnswersKept, TypeOK
  <1>5. GrantedAsConfirmed'
    BY DEF GrantedAsConfirmed, Confirmed
  <1> QED
    BY <1>2, <1>3, <1>4, <1>5

\* Steps that end a request on such a page, and tell no decision.
LEMMA FinishKeepsInv ==
    ASSUME Inv, NEW t \in Tab,
           NEW view \in Views, NEW ask \in Ask \cup {Null}, NEW user \in User \cup {Null},
           view \in {"login", "consent", "confirmation"} => ask \in Ask,
           Finish(t, view, ask, user),
           session' \in [Browser -> User \cup {Null}],
           UNCHANGED <<open, consent, device, confirmed>>
    PROVE  Inv'
  <1> USE DEF Inv, Finish, Show
  <1>1. page' \in [Tab -> Page]
    BY DEF TypeOK, Page
  <1>2. pc' \in [Tab -> {"idle", "process", "answer"}] /\ post' \in [Tab -> Post \cup {Null}]
    BY DEF TypeOK
  <1>3. TypeOK'
    BY <1>1, <1>2 DEF TypeOK
  <1>4. PagesNameAsks'
    BY DEF PagesNameAsks, TypeOK
  <1>5. AnswersKept'
    BY DEF AnswersKept, TypeOK
  <1>6. GrantedAsConfirmed'
    BY DEF GrantedAsConfirmed, Confirmed
  <1> QED
    BY <1>3, <1>4, <1>5, <1>6

\* A logout needs no page, but a post.
LEMMA LogoutPageKeepsInv ==
    ASSUME Inv, NEW t \in Tab, NEW hinted \in BOOLEAN, ShowLogout(t, hinted)
    PROVE  Inv'
  <1> USE DEF Inv, ShowLogout
  <1>s. SessionOf(t) \in User \cup {Null}
    BY BrowserOfType DEF SessionOf, TypeOK
  <1>1. CASE SessionOf(t) = Null \/ hinted
    <2> DEFINE p == [button |-> IF hinted THEN "hinted" ELSE "link",
                     scopes |-> {}, name |-> Null, user |-> SessionOf(t)]
    <2>1. p \in Post
      BY <1>s DEF Post
    <2>2. page' \in [Tab -> Page]
      BY <1>1 DEF TypeOK, Page, Views, Show
    <2>3. /\ pc' = [pc EXCEPT ![t] = "process"]
          /\ post' = [post EXCEPT ![t] = p]
          /\ page' = [page EXCEPT ![t] = [view |-> "elsewhere", ask |-> Null, user |-> Null]]
          /\ UNCHANGED <<session, open, consent, device, confirmed>>
      BY <1>1 DEF Show
    <2>4. p.button \notin {"login", "yes", "no", "other"}
      OBVIOUS
    <2> HIDE DEF p
    <2>5. TypeOK'
      BY <2>1, <2>2, <2>3, NullIsFresh DEF TypeOK
    <2>6. PagesNameAsks'
      BY <2>3 DEF PagesNameAsks, TypeOK
    <2>7. AnswersKept'
      BY <2>3, <2>4 DEF AnswersKept, TypeOK
    <2>8. GrantedAsConfirmed'
      BY <2>3 DEF GrantedAsConfirmed, Confirmed
    <2> QED
      BY <2>5, <2>6, <2>7, <2>8
  <1>2. CASE ~(SessionOf(t) = Null \/ hinted)
    BY <1>2, <1>s, ShowKeepsInv DEF Views
  <1> QED
    BY <1>1, <1>2

\* A post of a form is recorded along with what its user confirms by it.
LEMMA SubmitKeepsInv ==
    ASSUME Inv, NEW t \in Tab,
           NEW button \in {"login", "cancel", "yes", "no", "other", "logout"},
           NEW scopes \in SUBSET Scope, NEW name \in User \cup {Null},
           button \in {"yes", "no", "other"} => page[t].view \in {"consent", "confirmation"},
           button = "login" => page[t].view = "login",
           scopes # {} => button = "yes",
           Submit(t, button, scopes, name)
    PROVE  Inv'
  <1> USE DEF Inv, Submit
  <1>s. SessionOf(t) \in User \cup {Null}
    BY BrowserOfType DEF SessionOf, TypeOK
  <1>1. CASE Admitted(t)
    <2> DEFINE p == [button |-> button, scopes |-> scopes, name |-> name,
                     user |-> SessionOf(t)]
               d == [ask |-> page[t].ask, user |-> page[t].user, scopes |-> scopes]
    <2>1. p \in Post
      BY <1>s DEF Post
    <2>2. /\ pc' = [pc EXCEPT ![t] = "process"]
          /\ post' = [post EXCEPT ![t] = p]
          /\ confirmed' = IF scopes # {} THEN confirmed \cup {d} ELSE confirmed
          /\ UNCHANGED <<page, session, open, consent, device>>
      BY <1>1
    <2>3. scopes # {} => d \in Decision
      BY DEF Decision, PagesNameAsks, TypeOK, Page
    <2>4. confirmed \subseteq confirmed'
      BY <2>2
    <2>5. TypeOK'
      <3>1. confirmed' \subseteq Decision
        BY <2>2, <2>3 DEF TypeOK
      <3> HIDE DEF p, d
      <3> QED
        BY <2>1, <2>2, <3>1, NullIsFresh DEF TypeOK
    <2>6. PagesNameAsks'
      BY <2>2 DEF PagesNameAsks
    <2>7. AnswersKept'
      <3> SUFFICES ASSUME NEW i \in Tab
                   PROVE  /\ pc'[i] = "answer" => post'[i].button \in {"yes", "no"}
                          /\ pc'[i] # "idle" /\ post'[i].button = "login" =>
                                 page'[i].ask \in Ask
                          /\ pc'[i] # "idle" /\ post'[i].button \in {"yes", "no", "other"} =>
                                 /\ page'[i].ask \in Ask
                                 /\ post'[i].user # Null
                                 /\ post'[i].scopes # {} =>
                                        \E c \in confirmed' : /\ c.ask = page'[i].ask
                                                              /\ c.user = post'[i].user
                                                              /\ c.scopes = post'[i].scopes
        BY DEF AnswersKept
      <3>1. CASE i = t
        <4>1. pc'[i] = "process" /\ post'[i] = p /\ page'[i] = page[t]
          BY <3>1, <2>2 DEF TypeOK
        <4>2. button \in {"yes", "no", "other"} =>
                  page[t].ask \in Ask /\ SessionOf(t) # Null
          BY <1>1 DEF PagesNameAsks, Admitted
        <4>l. button = "login" => page[t].ask \in Ask
          BY DEF PagesNameAsks
        <4>3. scopes # {} => d \in confirmed' /\ d.user = SessionOf(t)
          BY <1>1, <2>2 DEF Admitted
        <4> QED
          BY <4>1, <4>l, <4>2, <4>3
      <3>2. CASE i # t
        <4>1. pc'[i] = pc[i] /\ post'[i] = post[i] /\ page'[i] = page[i]
          BY <3>2, <2>2 DEF TypeOK
        <4> QED
          BY <4>1, <2>4 DEF AnswersKept
      <3> QED
        BY <3>1, <3>2
    <2>8. GrantedAsConfirmed'
      BY <2>2, <2>4 DEF GrantedAsConfirmed, Confirmed
    <2> QED
      BY <2>5, <2>6, <2>7, <2>8
  <1>2. CASE ~Admitted(t)
    BY <1>2, ShowKeepsInv DEF Views
  <1> QED
    BY <1>1, <1>2

\* A decision that is told was confirmed, or denies.
LEMMA TellKeepsInv ==
    ASSUME Inv, NEW t \in Tab, NEW d \in Decision,
           d.user = Null => d.scopes = {},
           d.scopes # {} => Confirmed(d),
           Tell(BrowserOf[t], d),
           Finish(t, "elsewhere", Null, Null),
           UNCHANGED <<session, open, device, confirmed>>
    PROVE  Inv'
  <1> USE DEF Inv, Finish, Show
  <1>1. \A b \in Browser : consent'[b] \subseteq consent[b] \cup {d}
    BY DEF Tell, TypeOK
  <1>2. consent' \in [Browser -> SUBSET Decision]
    BY DEF Tell, TypeOK
  <1>3. TypeOK'
    <2>1. page' \in [Tab -> Page]
      BY DEF TypeOK, Page, Views
    <2>2. pc' \in [Tab -> {"idle", "process", "answer"}] /\ post' \in [Tab -> Post \cup {Null}]
      BY DEF TypeOK
    <2>3. \A i \in Tab : pc'[i] # "idle" => post'[i] # Null
      BY DEF TypeOK
    <2>4. \A b \in Browser : \A e \in consent'[b] : e.user = Null => e.scopes = {}
      BY <1>1 DEF TypeOK
    <2> QED
      BY <1>2, <2>1, <2>2, <2>3, <2>4 DEF TypeOK
  <1>4. PagesNameAsks'
    BY DEF PagesNameAsks, TypeOK
  <1>5. AnswersKept'
    BY DEF AnswersKept, TypeOK
  <1>6. GrantedAsConfirmed'
    BY <1>1 DEF GrantedAsConfirmed, Confirmed
  <1> QED
    BY <1>3, <1>4, <1>5, <1>6

\* The answer of a form: what it tells was confirmed when it was posted.
LEMMA AnswerKeepsInv ==
    ASSUME Inv, NEW t \in Tab, Answer(t)
    PROVE  Inv'
  <1> DEFINE ask == page[t].ask
             d == [ask |-> ask, user |-> post[t].user, scopes |-> Consented(post[t].scopes)]
  <1>1. pc[t] = "answer" /\ post[t] \in Post /\ ask \in Ask /\ post[t].user # Null
    BY DEF Answer, Inv, TypeOK, AnswersKept
  <1>2. Consented(post[t].scopes) \subseteq post[t].scopes
    BY DEF Consented
  <1>3. d \in Decision
    BY <1>1, <1>2 DEF Decision, Post
  <1>4. d.scopes # {} => Confirmed(d)
    BY <1>1, <1>2 DEF Confirmed, Inv, AnswersKept
  <1>5. d.user # Null
    BY <1>1
  <1>6. CASE ask \in UserCode
    <2>1. /\ device' = IF ask \in open THEN [device EXCEPT ![ask] = d] ELSE device
          /\ Finish(t, "success", ask, Null)
          /\ UNCHANGED <<session, open, consent, confirmed>>
      BY <1>6 DEF Answer
    <2> HIDE DEF d
    <2>2. /\ device' \in [UserCode -> Decision \cup {Null}]
          /\ \A code \in UserCode : device'[code] \in {device[code], d}
      BY <1>3, <1>6, <2>1 DEF Inv, TypeOK
    <2>3. page' \in [Tab -> Page]
      BY <1>1, <2>1 DEF Inv, TypeOK, Page, Views, Finish, Show
    <2>4. TypeOK'
      BY <2>1, <2>2, <2>3 DEF Inv, TypeOK, Finish
    <2>5. PagesNameAsks'
      BY <2>1 DEF Inv, PagesNameAsks, TypeOK, Finish, Show
    <2>6. AnswersKept'
      BY <2>1 DEF Inv, AnswersKept, TypeOK, Finish, Show
    <2>7. GrantedAsConfirmed'
      BY <1>4, <2>1, <2>2 DEF Inv, GrantedAsConfirmed, Confirmed
    <2> QED
      BY <2>4, <2>5, <2>6, <2>7 DEF Inv
  <1>7. CASE ask \notin UserCode
    <2>1. /\ Tell(BrowserOf[t], d)
          /\ Finish(t, "elsewhere", Null, Null)
          /\ UNCHANGED <<session, open, device, confirmed>>
      BY <1>7 DEF Answer
    <2> HIDE DEF d
    <2> QED
      BY <1>3, <1>4, <1>5, <2>1, TellKeepsInv
  <1> QED
    BY <1>6, <1>7

\* What the handlers of one tab do.
LEMMA HandleKeepsInv ==
    ASSUME Inv, NEW t \in Tab, Handle(t)
    PROVE  Inv'
  <1> USE DEF Inv
  <1>p. page[t] \in Page /\ post[t] \in Post \cup {Null}
    BY DEF TypeOK
  <1>1. CASE CancelLogin(t)
    <2>1. CASE page[t].ask \in AuthRequest \cap open
      <3> DEFINE d == [ask |-> page[t].ask, user |-> post[t].user, scopes |-> {}]
      <3>1. d \in Decision
        BY <1>1, <1>p, <2>1, NullIsFresh DEF CancelLogin, Decision, Ask, Post, TypeOK
      <3>2. /\ Tell(BrowserOf[t], d)
            /\ Finish(t, "elsewhere", Null, Null)
            /\ UNCHANGED <<session, open, device, confirmed>>
        BY <1>1, <2>1 DEF CancelLogin
      <3>3. d.scopes = {}
        OBVIOUS
      <3> HIDE DEF d
      <3> QED
        BY <3>1, <3>2, <3>3, TellKeepsInv
    <2>2. CASE page[t].ask \notin AuthRequest \cap open
      BY <1>1, <2>2, FinishKeepsInv DEF CancelLogin, Views, TypeOK
    <2> QED
      BY <2>1, <2>2
  <1>2. CASE Login(t)
    <2>1. post[t] \in Post
      BY <1>2, <1>p DEF Login, TypeOK
    <2>2. session' \in [Browser -> User \cup {Null}]
      BY <1>2, <2>1, BrowserOfType DEF Login, Post, TypeOK
    <2>3. CASE Finish(t, "elsewhere", Null, Null)
      BY <1>2, <2>2, <2>3, FinishKeepsInv DEF Login, Views
    <2>4. CASE Finish(t, "login", page[t].ask, page[t].user)
      <3>1. page[t].ask \in Ask
        BY <1>2 DEF Login, AnswersKept
      <3> QED
        BY <1>2, <2>2, <2>4, <3>1, <1>p, FinishKeepsInv DEF Login, Views, Page
    <2> QED
      BY <1>2, <2>3, <2>4 DEF Login
  <1>3. CASE Logout(t)
    <2>1. session' \in [Browser -> User \cup {Null}]
      BY <1>3, BrowserOfType DEF Logout, TypeOK
    <2> QED
      BY <1>3, <2>1, FinishKeepsInv DEF Logout, Views
  <1>4. CASE ProcessConsent(t)
    <2>1. page[t].ask \in Ask /\ post[t] \in Post
      BY <1>4, <1>p DEF ProcessConsent, AnswersKept, TypeOK
    <2>2. CASE pc' = [pc EXCEPT ![t] = "answer"] /\ UNCHANGED <<page, post>>
      <3>1. post[t].button \in {"yes", "no"}
        BY <1>4, <2>2 DEF ProcessConsent, Finish, TypeOK
      <3>2. UNCHANGED <<session, open, consent, device, confirmed>>
        BY <1>4 DEF ProcessConsent
      <3>3. TypeOK'
        BY <1>4, <2>1, <2>2, <3>2, NullIsFresh DEF ProcessConsent, TypeOK
      <3>4. PagesNameAsks' /\ GrantedAsConfirmed'
        BY <2>2, <3>2 DEF PagesNameAsks, GrantedAsConfirmed, Confirmed
      <3>5. AnswersKept'
        BY <1>4, <2>2, <3>1, <3>2 DEF ProcessConsent, AnswersKept, TypeOK
      <3> QED
        BY <3>3, <3>4, <3>5
    <2>3. CASE Finish(t, "success", page[t].ask, Null)
      BY <1>4, <2>1, <2>3, FinishKeepsInv DEF ProcessConsent, Views, TypeOK
    <2>4. CASE Finish(t, "error", Null, Null)
      BY <1>4, <2>4, FinishKeepsInv DEF ProcessConsent, Views, TypeOK
    <2>5. CASE Finish(t, "consent", page[t].ask, post[t].user)
      BY <1>4, <2>1, <2>5, FinishKeepsInv DEF ProcessConsent, Views, TypeOK, Post
    <2> QED
      BY <1>4, <2>2, <2>3, <2>4, <2>5 DEF ProcessConsent
  <1>5. CASE Answer(t)
    BY <1>5, AnswerKeepsInv
  <1> QED
    BY <1>1, <1>2, <1>3, <1>4, <1>5 DEF Handle

\* What the user of one tab does.
LEMMA BrowseKeepsInv ==
    ASSUME Inv, NEW t \in Tab, Browse(t)
    PROVE  Inv'
  <1>s. SessionOf(t) \in User \cup {Null}
    BY BrowserOfType DEF SessionOf, Inv, TypeOK
  <1>1. ASSUME NEW ask \in Ask, ShowLogin(t, ask) PROVE Inv'
    BY <1>1, <1>s, ShowKeepsInv DEF ShowLogin, LoginPage, Views
  <1>2. ASSUME NEW ask \in Ask, ShowAsk(t, ask) PROVE Inv'
    <2> USE <1>2 DEF ShowAsk, AskPage, LoginPage, Views
    <2>1. CASE SessionOf(t) = Null
      BY <2>1, ShowKeepsInv
    <2>2. CASE SessionOf(t) # Null /\ ask \notin open
      BY <2>2, ShowKeepsInv
    <2>3. CASE SessionOf(t) # Null /\ ask \in open /\ ask \in UserCode
      BY <2>3, <1>s, ShowKeepsInv
    <2>4. CASE SessionOf(t) # Null /\ ask \in open /\ ask \notin UserCode
      BY <2>4, <1>s, ShowKeepsInv
    <2> QED
      BY <2>1, <2>2, <2>3, <2>4
  <1>3. ASSUME NEW hinted \in BOOLEAN, ShowLogout(t, hinted) PROVE Inv'
    BY <1>3, LogoutPageKeepsInv
  <1>4. ASSUME NEW ask \in AuthRequest, Authorize(t, ask) PROVE Inv'
    <2> USE DEF Inv
    <2>1. /\ \A b \in Browser : consent'[b] \subseteq consent[b]
          /\ consent' \in [Browser -> SUBSET Decision]
      BY <1>4, BrowserOfType DEF Authorize, TypeOK
    <2>2. PICK view \in Views, about \in Ask \cup {Null} :
              /\ Show(t, view, about, Null)
              /\ view \in {"login", "consent", "confirmation"} => about \in Ask
      BY <1>4 DEF Authorize, LoginPage, SessionOf, Views, Ask
    <2>3. pc[t] = "idle" /\ UNCHANGED <<session, pc, post, open, device, confirmed>>
      BY <1>4 DEF Authorize
    <2>4. page' \in [Tab -> Page]
      BY <2>2 DEF TypeOK, Page, Show
    <2>5. TypeOK'
      BY <2>1, <2>3, <2>4 DEF TypeOK
    <2>6. PagesNameAsks'
      BY <2>2 DEF PagesNameAsks, TypeOK, Show
    <2>7. AnswersKept'
      BY <2>2, <2>3 DEF AnswersKept, TypeOK, Show
    <2>8. GrantedAsConfirmed'
      BY <2>1, <2>3 DEF GrantedAsConfirmed, Confirmed
    <2> QED
      BY <2>5, <2>6, <2>7, <2>8
  <1>5. CASE SubmitForm(t)
    BY <1>5, SubmitKeepsInv DEF SubmitForm
  <1> QED
    BY <1>1, <1>2, <1>3, <1>4, <1>5 DEF Browse

\* Every step keeps the invariant.
LEMMA InvNext == Inv /\ [Next]_vars => Inv'
  <1> SUFFICES ASSUME Inv, [Next]_vars PROVE Inv'
    OBVIOUS
  <1>1. ASSUME NEW t \in Tab, Browse(t) PROVE Inv'
    BY <1>1, BrowseKeepsInv
  <1>2. ASSUME NEW t \in Tab, Handle(t) PROVE Inv'
    BY <1>2, HandleKeepsInv
  <1>3. ASSUME NEW code \in UserCode, Poll(code) \/ Expire(code) PROVE Inv'
    <2>1. open' \subseteq open /\
          UNCHANGED <<session, page, pc, post, consent, device, confirmed>>
      BY <1>3 DEF Poll, Expire
    <2> QED
      BY <2>1 DEF Inv, TypeOK, PagesNameAsks, AnswersKept, GrantedAsConfirmed, Confirmed
  <1>4. CASE UNCHANGED vars
    BY <1>4 DEF vars, Inv, TypeOK, PagesNameAsks, AnswersKept, GrantedAsConfirmed, Confirmed
  <1> QED
    BY <1>1, <1>2, <1>3, <1>4 DEF Next

LEMMA InvHolds == Spec => []Inv
  BY InvInit, InvNext, PTL DEF Spec

\* Type correctness of the pages, for every number of tabs, browsers and users.
THEOREM TypesHold == Spec => []TypeOK
  <1>1. Inv => TypeOK
    BY DEF Inv
  <1> QED
    BY <1>1, InvHolds, PTL

\* ConsentController and DeviceController grant nothing that the user it is granted
\* for has not confirmed, whoever signs in or out in other tabs meanwhile.
THEOREM GrantsAreConfirmed == Spec => []GrantedAsConfirmed
  <1>1. Inv => GrantedAsConfirmed
    BY DEF Inv
  <1> QED
    BY <1>1, InvHolds, PTL

\* A logout that nobody was asked about is of a request without a user, and a login
\* names somebody.
LinksHaveNoUser ==
    \A t \in Tab : pc[t] = "process" =>
        /\ post[t].button = "link" => post[t].user = Null
        /\ post[t].button = "login" => post[t].name \in User

\* How the requests of the tabs move: one stays where it is, leaves its handler,
\* or enters it with a post that satisfies the invariant.
LinksHaveNoUserAfter(t) ==
    \/ pc'[t] # "process"
    \/ pc'[t] = pc[t] /\ post'[t] = post[t]
    \/ /\ post'[t].button = "link" => post'[t].user = Null
       /\ post'[t].button = "login" => post'[t].name \in User

LEMMA FinishLeavesHandler ==
    ASSUME TypeOK, NEW t \in Tab, NEW view, NEW ask, NEW user,
           Finish(t, view, ask, user)
    PROVE  \A i \in Tab : LinksHaveNoUserAfter(i)
  BY DEF Finish, LinksHaveNoUserAfter, TypeOK

LEMMA SubmitEntersHandler ==
    ASSUME TypeOK, NEW t \in Tab, NEW button, NEW scopes, NEW name,
           button # "link", button = "login" => name \in User,
           Submit(t, button, scopes, name)
    PROVE  \A i \in Tab : LinksHaveNoUserAfter(i)
  <1>1. CASE Admitted(t)
    BY <1>1 DEF Submit, LinksHaveNoUserAfter, TypeOK
  <1>2. CASE ~Admitted(t)
    BY <1>2 DEF Submit, LinksHaveNoUserAfter
  <1> QED
    BY <1>1, <1>2

LEMMA LogoutPageEntersHandler ==
    ASSUME TypeOK, NEW t \in Tab, NEW hinted \in BOOLEAN, ShowLogout(t, hinted)
    PROVE  \A i \in Tab : LinksHaveNoUserAfter(i)
  <1>1. CASE SessionOf(t) = Null \/ hinted
    <2> DEFINE p == [button |-> IF hinted THEN "hinted" ELSE "link",
                     scopes |-> {}, name |-> Null, user |-> SessionOf(t)]
    <2>1. pc' = [pc EXCEPT ![t] = "process"] /\ post' = [post EXCEPT ![t] = p]
      BY <1>1 DEF ShowLogout
    <2>2. (p.button = "link" => p.user = Null) /\ p.button # "login"
      BY <1>1
    <2> HIDE DEF p
    <2> QED
      BY <2>1, <2>2 DEF LinksHaveNoUserAfter, TypeOK
  <1>2. CASE ~(SessionOf(t) = Null \/ hinted)
    BY <1>2 DEF ShowLogout, LinksHaveNoUserAfter
  <1> QED
    BY <1>1, <1>2

LEMMA RequestsMove ==
    ASSUME TypeOK, [Next]_vars
    PROVE  \A i \in Tab : LinksHaveNoUserAfter(i)
  <1>1. ASSUME NEW t \in Tab, Browse(t) PROVE \A i \in Tab : LinksHaveNoUserAfter(i)
    <2>1. ASSUME NEW ask, ShowLogin(t, ask) \/ ShowAsk(t, ask) \/ Authorize(t, ask)
          PROVE  \A i \in Tab : LinksHaveNoUserAfter(i)
      BY <2>1 DEF ShowLogin, ShowAsk, Authorize, LinksHaveNoUserAfter
    <2>2. ASSUME NEW hinted \in BOOLEAN, ShowLogout(t, hinted)
          PROVE  \A i \in Tab : LinksHaveNoUserAfter(i)
      BY <2>2, LogoutPageEntersHandler
    <2>3. ASSUME SubmitForm(t) PROVE \A i \in Tab : LinksHaveNoUserAfter(i)
      BY <2>3, SubmitEntersHandler DEF SubmitForm
    <2> QED
      BY <1>1, <2>1, <2>2, <2>3 DEF Browse
  <1>2. ASSUME NEW t \in Tab, Handle(t) PROVE \A i \in Tab : LinksHaveNoUserAfter(i)
    <2>1. \A view, ask, user : Finish(t, view, ask, user) =>
              \A i \in Tab : LinksHaveNoUserAfter(i)
      BY FinishLeavesHandler
    <2>2. ASSUME CancelLogin(t) \/ Login(t) \/ Logout(t) \/ Answer(t)
          PROVE  \A i \in Tab : LinksHaveNoUserAfter(i)
      BY <2>1, <2>2 DEF CancelLogin, Login, Logout, Answer
    <2>3. ASSUME ProcessConsent(t) PROVE \A i \in Tab : LinksHaveNoUserAfter(i)
      <3>1. CASE pc' = [pc EXCEPT ![t] = "answer"] /\ UNCHANGED <<page, post>>
        BY <3>1 DEF LinksHaveNoUserAfter, TypeOK
      <3> QED
        BY <2>1, <2>3, <3>1 DEF ProcessConsent
    <2> QED
      BY <1>2, <2>2, <2>3 DEF Handle
  <1>3. ASSUME NEW code \in UserCode, Poll(code) \/ Expire(code)
        PROVE  \A i \in Tab : LinksHaveNoUserAfter(i)
    BY <1>3 DEF Poll, Expire, LinksHaveNoUserAfter
  <1>4. CASE UNCHANGED vars
    BY <1>4 DEF vars, LinksHaveNoUserAfter
  <1> QED
    BY <1>1, <1>2, <1>3, <1>4 DEF Next

LEMMA LinksInvHolds == Spec => [](Inv /\ LinksHaveNoUser)
  <1>1. Init => LinksHaveNoUser
    BY DEF Init, LinksHaveNoUser
  <1>2. Inv /\ LinksHaveNoUser /\ [Next]_vars => LinksHaveNoUser'
    BY RequestsMove DEF Inv, LinksHaveNoUser, LinksHaveNoUserAfter
  <1> QED
    BY <1>1, <1>2, InvHolds, PTL DEF Spec

\* AccountController signs nobody out who was not asked, unless IdentityServer had
\* authenticated the logout: also not with a request that arrived before another
\* tab signed in, however many tabs a browser has.
THEOREM SignOutsAreConfirmed == Spec => SignOutConfirmed
  <1> DEFINE Ended(b) == session[b] # Null /\ session'[b] = Null
             Agreed(b) == \E t \in Tab : /\ BrowserOf[t] = b /\ pc[t] = "process"
                                         /\ post[t].button \in {"logout", "hinted"}
             OnlyAgreed == \A b \in Browser : Ended(b) => Agreed(b)
  <1>1. Inv /\ LinksHaveNoUser /\ [Next]_vars => [OnlyAgreed]_vars
    <2> SUFFICES ASSUME Inv, LinksHaveNoUser, Next, NEW b \in Browser, Ended(b)
                 PROVE  Agreed(b)
      OBVIOUS
    <2>t. session \in [Browser -> User \cup {Null}]
      BY DEF Inv, TypeOK
    <2>1. ASSUME NEW t \in Tab, Login(t) PROVE FALSE
      <3>1. CASE session' = [session EXCEPT ![BrowserOf[t]] = post[t].name]
        <4>1. post[t].name \in User
          BY <2>1 DEF Login, LinksHaveNoUser
        <4> QED
          BY <3>1, <4>1, <2>t, NullIsFresh
      <3> QED
        BY <2>1, <3>1 DEF Login
    <2>2. ASSUME NEW t \in Tab, Logout(t) PROVE Agreed(b)
      <3>1. post[t].user # Null /\ session' = [session EXCEPT ![BrowserOf[t]] = Null]
        BY <2>2 DEF Logout
      <3>2. BrowserOf[t] = b
        BY <3>1, <2>t
      <3>3. pc[t] = "process" /\ post[t].button \in {"logout", "hinted"}
        BY <2>2, <3>1 DEF Logout, LinksHaveNoUser
      <3> QED
        BY <3>2, <3>3
    <2>3. ASSUME NEW t \in Tab, Browse(t) PROVE session' = session
      BY <2>3 DEF Browse, ShowLogin, ShowAsk, ShowLogout, Authorize, SubmitForm, Submit
    <2>4. ASSUME NEW t \in Tab, CancelLogin(t) \/ ProcessConsent(t) \/ Answer(t)
          PROVE  session' = session
      BY <2>4 DEF CancelLogin, ProcessConsent, Answer
    <2>5. ASSUME NEW code \in UserCode, Poll(code) \/ Expire(code)
          PROVE  session' = session
      BY <2>5 DEF Poll, Expire
    <2> HIDE DEF Agreed
    <2> QED
      BY <2>1, <2>2, <2>3, <2>4, <2>5 DEF Next, Handle
  <1> QED
    BY <1>1, LinksInvHolds, PTL DEF Spec, SignOutConfirmed
=============================================================================
