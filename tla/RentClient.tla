----------------------------- MODULE RentClient ------------------------------
(***************************************************************************)
(* Renting numbers, and the SDK's initialisation that leads to it:         *)
(* SMSActivate.init with checkInit and publicInit, RentNetworkManager,     *)
(* RentManager, and AuthManager.fetchUserRent.                             *)
(*                                                                         *)
(* Every closure runs on the main queue.  Requests are answered in any     *)
(* order and their closures run in any order; the list of rents arrives as *)
(* snapshots of the Realtime Database, one per registered observer and     *)
(* change, in order.  The rent service and the two databases are external. *)
(***************************************************************************)
EXTENDS Integers, Sequences, FiniteSets

CONSTANTS
    Users,               \* authIDs; the service's token for a user is the user
    Nil,                 \* nil, "" and an entry that is missing
    Unborn,              \* a singleton that nothing has used yet
    RentServices,        \* titles of services
    Catalogue,           \* the services in the order the service lists them
    RentCountries,       \* countries
    SupportedCountries,  \* the countries of each service, Nil when the field is missing
    Rents,               \* numbers that can be rented
    Slots,               \* HTTP requests that can be on their way
    Quantities,          \* quantities the host may save with a purchase
    RentFaults,          \* what may fail in this instance
    HostHabits,          \* what the host does beyond one careful init
    MaxInits,            \* bound on inits per process
    MaxRentBalance       \* bound on a user's rent balance

ASSUME RentAssumption ==
    /\ Nil \notin Users /\ Unborn \notin Users /\ Unborn # Nil
    /\ Nil \notin RentServices \cup RentCountries \cup Rents
    /\ \A C \in SUBSET RentCountries : C # Nil
    /\ IsFiniteSet(Rents) /\ IsFiniteSet(Slots)
    /\ Catalogue \in Seq(RentServices)
    /\ SupportedCountries \in [RentServices -> (SUBSET RentCountries) \cup {Nil}]
    /\ Quantities \subseteq Nat
    /\ MaxInits \in Nat /\ MaxRentBalance \in Nat
    /\ RentFaults \subseteq {"lostAnswer", "noToken", "restart", "missingField", "badRecord"}
    /\ HostHabits \subseteq {"switchesUser", "badConfig", "usesFailedObject"}

VARIABLES
    authID,                \* Constant.authID
    managerUser,           \* AuthManager.authID, copied when AuthManager.shared is made
    token,                 \* Defaults.token, on disk
    userRentBalance,       \* Constant.userRentBalance
    services, countries, countriesForServices,
    selectedService, isServiceSelected, selectedCountry, isCountrySelected,
    userRentNumbers,       \* newest first
    trapped,               \* an exception or a force unwrap of nil ended the process
    web,                   \* the HTTP requests on their way
    answeredBefore,        \* history: balance requests answered before another one's answer
    observers, newObservers,  \* observers of codes/, and those without a first event
    synced,                \* the codes as the database library last saw them
    events,                \* snapshots waiting in the main queue
    codes, balances,       \* the service: rented numbers and balances of the users
    posted,                \* history: notifications posted by the inits of this process
    inits,                 \* history: inits of this process
    named,                 \* history: users named by the inits of this process
    lastLogin, mixed,      \* history: the last login, and whether it alone decides the token
    missed                 \* history: a change of the balance that nobody will fetch

configVars == <<authID, managerUser, posted, inits, named, lastLogin>>
catalogueVars == <<services, countries, countriesForServices>>
selectionVars == <<selectedService, isServiceSelected, selectedCountry, isCountrySelected>>
listVars == <<userRentNumbers, observers, newObservers, synced, events>>
serverVars == <<codes, balances>>
webVars == <<web, answeredBefore>>

rentVars == <<configVars, catalogueVars, selectionVars, listVars, serverVars, webVars,
              token, userRentBalance, trapped, mixed, missed>>

-----------------------------------------------------------------------------
Calls == {"idle", "login", "services", "balance", "rent", "cancel", "savePurchase"}

\* Calls whose completion the host is waiting for, and which change the balance.
HostRequests == {"rent", "cancel", "savePurchase"}

Request == [call     : Calls,
            user     : Users \cup {Nil},         \* login: the authID in its parameters
            token    : Users \cup {Nil},         \* the authorization header of the others
            rent     : Rents \cup {Nil},         \* cancel: the number
            quantity : Quantities \cup {0},
            answer   : {"pending", "ok", "failed"},
            result   : Users \cup {Nil},         \* login: data.userToken
            balance  : Int]                      \* balance: data.balance

Code == [owner : Users \cup {Nil}, status : {"none", "waiting", "completed", "cancelled"},
         time : Nat]

NoCode == [owner |-> Nil, status |-> "none", time |-> 0]

Idle == [call |-> "idle", user |-> Nil, token |-> Nil, rent |-> Nil, quantity |-> 0,
         answer |-> "pending", result |-> Nil, balance |-> 0]

LoginRequest(user) == [Idle EXCEPT !.call = "login", !.user = user]

\* Every other request carries the token stored at the time it is made.
Authorized(call, tok) == [Idle EXCEPT !.call = call, !.token = tok]

Free == {r \in Slots : web[r].call = "idle"}

\* Room for the requests that a closure makes besides reusing its own slot.
Room == Cardinality(Free) > 1

Waiting(calls, except) == {r \in Slots \ except : web[r].call \in calls}

\* Mutant: a closure runs only when its request has succeeded.
AnsweredOk(r, calls) == web[r].call \in calls /\ web[r].answer = "ok"

Answered(r, calls) == web[r].call \in calls /\ web[r].answer # "pending"

Fetched == {r \in Slots : web[r].call = "balance" /\ web[r].answer # "pending"}

\* The closure of r has run.
Forget(r) ==
    answeredBefore' = [q \in Slots |-> IF q = r THEN {} ELSE answeredBefore[q] \ {r}]

(***************************************************************************)
(* The types of the rent client's state; fetchUserRent lists no number     *)
(* twice, however many observers fill the one list.                        *)
(***************************************************************************)
RentTypeOK ==
    /\ authID \in Users \cup {Nil} /\ managerUser \in Users \cup {Nil, Unborn}
    /\ token \in Users \cup {Nil} /\ lastLogin \in Users \cup {Nil}
    /\ userRentBalance \in Int
    /\ services \in Seq(RentServices)
    /\ countries \subseteq RentCountries
    /\ countriesForServices \in [RentServices -> (SUBSET RentCountries) \cup {Nil}]
    /\ selectedService \in RentServices \cup {Nil}
    /\ selectedCountry \in RentCountries \cup {Nil}
    /\ \A i \in DOMAIN userRentNumbers : userRentNumbers[i].rent \in Rents
    /\ \A i, j \in DOMAIN userRentNumbers :
          userRentNumbers[i].rent = userRentNumbers[j].rent => i = j
    /\ web \in [Slots -> Request]
    /\ answeredBefore \in [Slots -> SUBSET Slots]
    /\ \A i \in DOMAIN events : events[i] \in [Rents -> Code]
    /\ synced \in [Rents -> Code] /\ codes \in [Rents -> Code]
    /\ balances \in [Users -> Nat]
    /\ posted \in [{"initSuccess", "initFailed"} -> Nat]
    /\ {isServiceSelected, isCountrySelected, trapped, mixed, missed} \subseteq BOOLEAN
    /\ named \subseteq Users
    /\ {inits, observers, newObservers} \subseteq Nat

-----------------------------------------------------------------------------
(***************************************************************************)
(* A process starts with empty memory; the token, the codes and the        *)
(* balances are not in it.                                                 *)
(***************************************************************************)
NoEntries == [s \in RentServices |-> Nil]
NoCodes == [n \in Rents |-> NoCode]
NoRequests == [r \in Slots |-> Idle]
NothingPosted == [name \in {"initSuccess", "initFailed"} |-> 0]

\* What earlier processes may have rented, one number after the other.
EarlierRents ==
    {c \in [Rents -> {NoCode} \cup [owner : Users, status : {"waiting"},
                                   time : 1 .. Cardinality(Rents)]] :
        LET sold == {n \in Rents : c[n] # NoCode}
        IN  /\ \A n \in sold : c[n].time <= Cardinality(sold)
            /\ \A n, m \in sold : n # m => c[n].time # c[m].time}

RentInit ==
    /\ authID = Nil /\ managerUser = Unborn
    /\ userRentBalance = 0 /\ userRentNumbers = <<>>
    /\ services = <<>> /\ countries = {} /\ countriesForServices = NoEntries
    /\ selectedService = Nil /\ isServiceSelected = FALSE
    /\ selectedCountry = Nil /\ isCountrySelected = FALSE
    /\ trapped = FALSE
    /\ web = NoRequests /\ answeredBefore = [r \in Slots |-> {}]
    /\ observers = 0 /\ newObservers = 0 /\ events = <<>> /\ synced = NoCodes
    /\ posted = NothingPosted /\ inits = 0 /\ named = {} /\ lastLogin = Nil
    /\ mixed = TRUE /\ missed = TRUE
    /\ token \in Users \cup {Nil}
    /\ codes \in EarlierRents
    /\ balances \in [Users -> 0 .. MaxRentBalance]

\* Requests on their way have reached the service before, or never do.
Restart ==
    /\ "restart" \in RentFaults
    /\ authID' = Nil /\ managerUser' = Unborn
    /\ userRentBalance' = 0 /\ userRentNumbers' = <<>>
    /\ services' = <<>> /\ countries' = {} /\ countriesForServices' = NoEntries
    /\ selectedService' = Nil /\ isServiceSelected' = FALSE
    /\ selectedCountry' = Nil /\ isCountrySelected' = FALSE
    /\ trapped' = FALSE
    /\ web' = NoRequests /\ answeredBefore' = [r \in Slots |-> {}]
    /\ observers' = 0 /\ newObservers' = 0 /\ events' = <<>> /\ synced' = NoCodes
    /\ posted' = NothingPosted /\ inits' = 0 /\ named' = {} /\ lastLogin' = Nil
    /\ mixed' = TRUE /\ missed' = TRUE
    /\ UNCHANGED <<token, serverVars>>

-----------------------------------------------------------------------------
(***************************************************************************)
(* Initialisation.                                                         *)
(***************************************************************************)
Post(name) == posted' = [posted EXCEPT ![name] = @ + 1]

\* AuthManager.shared is made at its first use and copies Constant.authID.
Capture(user) == managerUser' = IF managerUser = Unborn THEN user ELSE managerUser

Accepts(user, complete) == user # Nil /\ complete

\* checkInit: something is empty.
InitFails(user, complete) ==
    /\ ~Accepts(user, complete)
    /\ Post("initFailed")
    /\ UNCHANGED <<managerUser, lastLogin, mixed, trapped, webVars>>

\* publicInit: a path of an empty authID has an odd number of segments and throws.
InitThrows(user, complete) ==
    /\ Accepts(user, complete)
    /\ Capture(user) /\ managerUser' = Nil
    /\ trapped' = TRUE
    /\ UNCHANGED <<posted, lastLogin, mixed, webVars>>

\* publicInit without rent.
InitSucceeds(user, complete) ==
    /\ Accepts(user, complete)
    /\ Capture(user) /\ managerUser' # Nil
    /\ Post("initSuccess")
    /\ UNCHANGED <<lastLogin, mixed, trapped, webVars>>

\* Mutant: publicInit does not return before the login.
LoginPosts(user, complete) ==
    /\ Accepts(user, complete)
    /\ Capture(user) /\ managerUser' # Nil
    /\ \E r \in Free : web' = [web EXCEPT ![r] = LoginRequest(user)]
    /\ lastLogin' = user
    /\ mixed' = \E q \in Waiting({"login"}, {}) : web[q].user # user
    /\ Post("initSuccess")
    /\ UNCHANGED <<trapped, answeredBefore>>

\* publicInit with rent: a login for the user of Constant.authID.
InitLogsIn(user, complete) ==
    /\ Accepts(user, complete)
    /\ Capture(user) /\ managerUser' # Nil
    /\ \E r \in Free : web' = [web EXCEPT ![r] = LoginRequest(user)]
    /\ lastLogin' = user
    /\ mixed' = \E q \in Waiting({"login"}, {}) : web[q].user # user
    /\ UNCHANGED <<posted, trapped, answeredBefore>>

HostMayInit(user, complete) ==
    /\ ~trapped
    /\ inits < MaxInits
    /\ Room
    /\ (user # Nil /\ complete) \/ "badConfig" \in HostHabits
    /\ user = Nil \/ named \subseteq {user} \/ "switchesUser" \in HostHabits

\* SMSActivate(authID:rentURL:apiKey:fcm:isRentActive:).
NewSMSActivate(user, complete, isRentActive) ==
    /\ HostMayInit(user, complete)
    /\ inits' = inits + 1
    /\ authID' = user
    /\ named' = named \cup ({user} \ {Nil})
    /\ \/ InitFails(user, complete)
       \/ InitThrows(user, complete)
       \/ ~isRentActive /\ InitSucceeds(user, complete)
       \/ isRentActive /\ InitLogsIn(user, complete)
    /\ UNCHANGED <<token, userRentBalance, missed, catalogueVars, selectionVars, listVars,
                   serverVars>>

\* A call that only reads (getRents, getActivations) on the object of a failed init.
UseFailedObject ==
    /\ "usesFailedObject" \in HostHabits
    /\ ~trapped /\ inits > 0 /\ managerUser = Unborn
    /\ Capture(authID)
    /\ UNCHANGED <<authID, posted, inits, named, lastLogin, token, userRentBalance, trapped,
                   mixed, missed, catalogueVars, selectionVars, listVars, serverVars, webVars>>

-----------------------------------------------------------------------------
(***************************************************************************)
(* The closure of login.  On success the token is stored if there is one,  *)
(* an observer of the rents is registered, and services and balance are    *)
(* requested with the token that is stored now.                            *)
(***************************************************************************)
\* Mutant: the token of the answer is not stored.
TokenIgnored(result) == token

StoredToken(result) == IF result # Nil THEN result ELSE token

\* Does a fetch made now, with this token, decide the cached balance?
FetchDecides(tok, r) == \A q \in Waiting({"balance"}, {r}) : web[q].token = tok

LoginSucceeded(r) ==
    /\ ~trapped
    /\ Answered(r, {"login"}) /\ web[r].answer = "ok"
    /\ token' = StoredToken(web[r].result)
    /\ newObservers' = newObservers + 1
    /\ \E q \in Free :
          web' = [web EXCEPT ![r] = Authorized("services", token'),
                             ![q] = Authorized("balance", token')]
    /\ Forget(r)
    /\ Post("initSuccess")
    /\ mixed' = (mixed \/ web[r].result = Nil)
    /\ missed' = IF FetchDecides(token', r) THEN Waiting({"balance"}, {r}) # {} /\ missed ELSE TRUE
    /\ UNCHANGED <<authID, managerUser, inits, named, lastLogin, userRentBalance, trapped,
                   catalogueVars, selectionVars, userRentNumbers, observers, synced, events,
                   serverVars>>

Release(r) == web' = [web EXCEPT ![r] = Idle] /\ Forget(r)

LoginFailed(r) ==
    /\ ~trapped
    /\ Answered(r, {"login"}) /\ web[r].answer = "failed"
    /\ Release(r)
    /\ Post("initFailed")
    /\ mixed' = TRUE
    /\ UNCHANGED <<authID, managerUser, inits, named, lastLogin, token, userRentBalance,
                   trapped, missed, catalogueVars, selectionVars, listVars, serverVars>>

-----------------------------------------------------------------------------
(***************************************************************************)
(* RentManager: the catalogue.  The array countries is scratch space: each *)
(* round of the loop over the services empties it, fills it with what that *)
(* service supports and stores it as the service's entry.                  *)
(***************************************************************************)
CountriesListed(s) == IF SupportedCountries[s] = Nil THEN {} ELSE SupportedCountries[s]

InCatalogue(s) == \E k \in DOMAIN Catalogue : Catalogue[k] = s

\* Mutant: the entry is stored only after a loop over supportedCountry.
EntryIfSupported(s) ==
    IF InCatalogue(s) /\ SupportedCountries[s] # Nil THEN CountriesListed(s)
                                                    ELSE countriesForServices[s]

EntryOf(s) == IF InCatalogue(s) THEN CountriesListed(s) ELSE countriesForServices[s]

ServicesAnswered(r) ==
    /\ ~trapped
    /\ Answered(r, {"services"})
    /\ IF web[r].answer = "ok"
       THEN /\ services' = services \o Catalogue
            /\ countriesForServices' = [s \in RentServices |-> EntryOf(s)]
            /\ countries' = IF Catalogue = <<>> THEN countries
                            ELSE CountriesListed(Catalogue[Len(Catalogue)])
       ELSE UNCHANGED catalogueVars
    /\ Release(r)
    /\ UNCHANGED <<configVars, selectionVars, listVars, serverVars, token, userRentBalance,
                   trapped, mixed, missed>>

\* A force unwrap or a forced cast fails in a closure: the process ends there.
ClosureTraps ==
    /\ ~trapped
    /\ trapped' = TRUE
    /\ UNCHANGED <<configVars, catalogueVars, selectionVars, listVars, serverVars, webVars, token,
                   userRentBalance, mixed, missed>>

\* A service or a country of the answer lacks its name, its key or its prefix.
ServicesTrap(r) ==
    /\ "missingField" \in RentFaults
    /\ Answered(r, {"services"}) /\ web[r].answer = "ok"
    /\ Catalogue # <<>>
    /\ ClosureTraps

\* getData: services before one is selected, then the countries of the selected one.
GetRentData ==
    /\ ~trapped
    /\ isServiceSelected
    /\ trapped' = (selectedService = Nil \/ countriesForServices[selectedService] = Nil)
    /\ countries' = IF trapped' THEN {} ELSE countriesForServices[selectedService]
    /\ UNCHANGED <<configVars, services, countriesForServices, selectionVars, listVars, serverVars,
                   webVars, token, userRentBalance, mixed, missed>>

-----------------------------------------------------------------------------
(***************************************************************************)
(* RentManager: the selection.  A PurchaseModel can be made by the host,   *)
(* or come from the activation catalogue: any may be selected at any time. *)
(***************************************************************************)
SelectService(s) ==
    /\ selectedService' = s /\ isServiceSelected' = TRUE
    /\ UNCHANGED <<selectedCountry, isCountrySelected>>

SelectCountry(c) ==
    /\ selectedCountry' = c /\ isCountrySelected' = TRUE
    /\ UNCHANGED <<selectedService, isServiceSelected>>

UnselectService ==
    /\ isServiceSelected
    /\ selectedService' = Nil /\ isServiceSelected' = FALSE
    /\ UNCHANGED <<selectedCountry, isCountrySelected>>

UnselectCountry ==
    /\ isCountrySelected
    /\ selectedCountry' = Nil /\ isCountrySelected' = FALSE
    /\ UNCHANGED <<selectedService, isServiceSelected>>

SelectRent ==
    /\ ~trapped
    /\ \/ \E s \in RentServices : SelectService(s)
       \/ \E c \in RentCountries : SelectCountry(c)
       \/ UnselectService
       \/ UnselectCountry
    /\ UNCHANGED <<configVars, catalogueVars, listVars, serverVars, webVars, token,
                   userRentBalance, trapped, mixed, missed>>

-----------------------------------------------------------------------------
(***************************************************************************)
(* RentManager: renting, cancelling, buying balance, and its cache.  Each  *)
(* of the three calls fetches the balance when it has succeeded.           *)
(***************************************************************************)
\* A call of an SMSActivate object, whether its init has been reported or not.
HostSends(request) ==
    /\ ~trapped
    /\ inits > 0
    /\ Room
    /\ \E r \in Free : web' = [web EXCEPT ![r] = request]
    /\ UNCHANGED <<answeredBefore, configVars, catalogueVars, selectionVars, listVars, serverVars,
                   token, userRentBalance, trapped, mixed, missed>>

\* Without a selection the completion gets false and nothing is sent.
RentNumber ==
    /\ selectedService # Nil /\ selectedCountry # Nil
    /\ HostSends(Authorized("rent", token))

\* Any RentModel: one of the list, one the list has lost by now, one the host made.
CancelRent(n) == HostSends([Authorized("cancel", token) EXCEPT !.rent = n])

SavePurchase(quantity) ==
    HostSends([Authorized("savePurchase", token) EXCEPT !.quantity = quantity])

\* Mutant: the balance is not fetched after a call that has succeeded.
NoFetch(r) == web' = [web EXCEPT ![r] = Idle] /\ missed' = (missed /\ Waiting({"balance"}, {r}) # {})

FetchUserBalance(r) ==
    /\ web' = [web EXCEPT ![r] = Authorized("balance", token)]
    /\ missed' = (missed /\ Waiting({"balance"}, {r}) # {})

HostCallSucceeded(r) ==
    /\ ~trapped
    /\ Answered(r, HostRequests) /\ web[r].answer = "ok"
    /\ FetchUserBalance(r)
    /\ Forget(r)
    /\ UNCHANGED <<configVars, catalogueVars, selectionVars, listVars, serverVars, token,
                   userRentBalance, trapped, mixed>>

HostCallFailed(r) ==
    /\ ~trapped
    /\ Answered(r, HostRequests) /\ web[r].answer = "failed"
    /\ Release(r)
    /\ UNCHANGED <<configVars, catalogueVars, selectionVars, listVars, serverVars, token,
                   userRentBalance, trapped, mixed, missed>>

\* An earlier answer to a balance request is still waiting for its closure.
Overtakes(r) == answeredBefore[r] # {}

BalanceAnswered(r) ==
    /\ ~trapped
    /\ Answered(r, {"balance"})
    /\ userRentBalance' = IF web[r].answer = "ok" THEN web[r].balance ELSE userRentBalance
    /\ missed' = (missed \/ web[r].answer = "failed" \/ Overtakes(r))
    /\ Release(r)
    /\ UNCHANGED <<configVars, catalogueVars, selectionVars, listVars, serverVars, token, trapped,
                   mixed>>

-----------------------------------------------------------------------------
(***************************************************************************)
(* The rent service.  It knows a user by the token, takes 1 of the balance *)
(* for a number and gives it back when the number is cancelled in time.    *)
(***************************************************************************)
Respond(r, response) ==
    /\ web[r].answer = "pending"
    /\ web' = [web EXCEPT ![r] = response]
    /\ answeredBefore' = IF web[r].call = "balance" THEN [answeredBefore EXCEPT ![r] = Fetched]
                                                    ELSE answeredBefore
    /\ UNCHANGED <<configVars, catalogueVars, selectionVars, listVars, token, userRentBalance,
                   trapped, mixed, missed>>

Ok(r) == [web[r] EXCEPT !.answer = "ok"]

\* An error of the service or of the network before the service has acted.
Refuse(r) ==
    /\ web[r].call # "idle"
    /\ Respond(r, [web[r] EXCEPT !.answer = "failed"])
    /\ UNCHANGED serverVars

ServeLogin(r) ==
    /\ web[r].call = "login"
    /\ \E result \in {web[r].user} \cup (IF "noToken" \in RentFaults THEN {Nil} ELSE {}) :
          Respond(r, [Ok(r) EXCEPT !.result = result])
    /\ UNCHANGED serverVars

ServeServices(r) ==
    /\ web[r].call = "services" /\ web[r].token # Nil
    /\ Respond(r, Ok(r))
    /\ UNCHANGED serverVars

ServeBalance(r) ==
    /\ web[r].call = "balance" /\ web[r].token # Nil
    /\ Respond(r, [Ok(r) EXCEPT !.balance = balances[web[r].token]])
    /\ UNCHANGED serverVars

Sold == {n \in Rents : codes[n].status # "none"}

ServeRent(r, n) ==
    /\ web[r].call = "rent" /\ web[r].token # Nil
    /\ n \notin Sold
    /\ balances[web[r].token] > 0
    /\ balances' = [balances EXCEPT ![web[r].token] = @ - 1]
    /\ codes' = [codes EXCEPT ![n] = [owner |-> web[r].token, status |-> "waiting",
                                      time |-> 1 + Cardinality(Sold)]]
    /\ Respond(r, Ok(r))

ServeCancel(r) ==
    /\ web[r].call = "cancel"
    /\ codes[web[r].rent].owner = web[r].token /\ codes[web[r].rent].status = "waiting"
    /\ balances' = [balances EXCEPT ![web[r].token] = @ + 1]
    /\ codes' = [codes EXCEPT ![web[r].rent].status = "cancelled"]
    /\ Respond(r, Ok(r))

ServePurchase(r) ==
    /\ web[r].call = "savePurchase" /\ web[r].token # Nil
    /\ balances[web[r].token] + web[r].quantity <= MaxRentBalance
    /\ balances' = [balances EXCEPT ![web[r].token] = @ + web[r].quantity]
    /\ UNCHANGED codes
    /\ Respond(r, Ok(r))

Serve(r) ==
    \/ Refuse(r)
    \/ ServeLogin(r)
    \/ ServeServices(r)
    \/ ServeBalance(r)
    \/ \E n \in Rents : ServeRent(r, n)
    \/ ServeCancel(r)
    \/ ServePurchase(r)

\* An answer is lost or cannot be decoded: the closure gets no value.
LoseAnswer(r) ==
    /\ "lostAnswer" \in RentFaults
    /\ web[r].answer = "ok"
    /\ web' = [web EXCEPT ![r].answer = "failed"]
    /\ missed' = (missed \/ web[r].call \in HostRequests)
    /\ UNCHANGED <<answeredBefore, configVars, catalogueVars, selectionVars, listVars, serverVars,
                   token, userRentBalance, trapped, mixed>>

\* A message reaches a rented number.
CodeArrives(n) ==
    /\ codes[n].status = "waiting"
    /\ codes' = [codes EXCEPT ![n].status = "completed"]
    /\ UNCHANGED <<balances, configVars, catalogueVars, selectionVars, listVars, webVars, token,
                   userRentBalance, trapped, mixed, missed>>

-----------------------------------------------------------------------------
(***************************************************************************)
(* AuthManager.fetchUserRent.  Every login registers one more observer of  *)
(* users/<authID>/codes.  The first observer waits for the server; a later *)
(* one gets the value at hand at once; a change is one event per observer. *)
(***************************************************************************)
Observed == [n \in Rents |-> IF codes[n].owner = managerUser THEN codes[n] ELSE NoCode]

Copies(event, count) == [i \in 1 .. count |-> event]

CachedEvent ==
    /\ ~trapped
    /\ newObservers > 0 /\ observers > 0
    /\ events' = Append(events, synced)
    /\ observers' = observers + 1 /\ newObservers' = newObservers - 1
    /\ UNCHANGED <<configVars, catalogueVars, selectionVars, serverVars, webVars, token,
                   userRentBalance, trapped, mixed, missed, userRentNumbers, synced>>

SnapshotArrives ==
    /\ ~trapped
    /\ \/ observers = 0 /\ newObservers > 0
       \/ observers > 0 /\ newObservers = 0 /\ synced # Observed
    /\ synced' = Observed
    /\ events' = events \o Copies(Observed, observers + newObservers)
    /\ observers' = observers + newObservers /\ newObservers' = 0
    /\ UNCHANGED <<configVars, catalogueVars, selectionVars, serverVars, webVars, token,
                   userRentBalance, trapped, mixed, missed, userRentNumbers>>

\* The children of a snapshot, the newest first.
NewestFirst(snapshot) ==
    LET present == {n \in Rents : snapshot[n].status # "none"}
        place(n) == 1 + Cardinality({m \in present : snapshot[m].time > snapshot[n].time})
        at(i) == CHOOSE n \in present : place(n) = i
    IN  [i \in 1 .. Cardinality(present) |-> [rent |-> at(i), status |-> snapshot[at(i)].status]]

\* Mutant: the list is not emptied before it is filled.
ListedAgain(snapshot) == userRentNumbers \o NewestFirst(snapshot)

Listed(snapshot) == NewestFirst(snapshot)

RentsFetched ==
    /\ ~trapped
    /\ events # <<>>
    /\ userRentNumbers' = Listed(Head(events))
    /\ events' = Tail(events)
    /\ UNCHANGED <<configVars, catalogueVars, selectionVars, serverVars, webVars, token,
                   userRentBalance, trapped, mixed, missed, observers, newObservers, synced>>

\* A child of the snapshot is no dictionary, or has no time to sort by.
RentsTrap ==
    /\ "badRecord" \in RentFaults
    /\ events # <<>>
    /\ NewestFirst(Head(events)) # <<>>
    /\ ClosureTraps

-----------------------------------------------------------------------------
Closure(r) ==
    \/ LoginSucceeded(r)
    \/ LoginFailed(r)
    \/ ServicesAnswered(r)
    \/ ServicesTrap(r)
    \/ HostCallSucceeded(r)
    \/ HostCallFailed(r)
    \/ BalanceAnswered(r)

Database ==
    \/ CachedEvent
    \/ SnapshotArrives
    \/ RentsFetched
    \/ RentsTrap

RentNext ==
    \/ \E user \in Users \cup {Nil}, complete, isRentActive \in BOOLEAN :
          NewSMSActivate(user, complete, isRentActive)
    \/ UseFailedObject
    \/ GetRentData
    \/ SelectRent
    \/ RentNumber
    \/ \E n \in Rents : CancelRent(n) \/ CodeArrives(n)
    \/ \E quantity \in Quantities : SavePurchase(quantity)
    \/ \E r \in Slots : Closure(r) \/ Serve(r) \/ LoseAnswer(r)
    \/ Database
    \/ Restart

RentSpec == RentInit /\ [][RentNext]_rentVars

\* A request is answered or times out, and the main queue runs what is in it.
RentFairness ==
    /\ \A r \in Slots : WF_rentVars(Serve(r)) /\ WF_rentVars(Closure(r))
    /\ WF_rentVars(Database)

FairRentSpec == RentSpec /\ RentFairness

-----------------------------------------------------------------------------
(***************************************************************************)
(* As long as the data of the service and of the database is complete, the *)
(* process is ended only where AuthManager was made while Constant.authID  *)
(* was empty, so that publicInit throws for its path, or by getCountries,  *)
(* which unwraps the entry of the selected service, when that service is   *)
(* in no answer that has arrived.  A service that was listed can always be *)
(* selected, with or without supportedCountry.                             *)
(***************************************************************************)
ForeignSelected == isServiceSelected /\ \A i \in DOMAIN services : services[i] # selectedService

TrapsOnlyUnnamed == trapped => managerUser = Nil \/ ForeignSelected

(***************************************************************************)
(* Every init of a process that still runs has posted exactly one of       *)
(* initSuccess and initFailed, or its login is on its way.                 *)
(***************************************************************************)
InitReported ==
    ~trapped => posted["initSuccess"] + posted["initFailed"]
                    + Cardinality(Waiting({"login"}, {})) = inits

(***************************************************************************)
(* When the last login was answered with a token, and no login of another  *)
(* user was on its way at the same time, the token on disk is that user's. *)
(***************************************************************************)
LastLoginDecides ==
    ~mixed /\ lastLogin # Nil /\ Waiting({"login"}, {}) = {}

TokenOfLogin == LastLoginDecides => token = lastLogin

(***************************************************************************)
(* While all inits of the process name one user, the rents AuthManager     *)
(* lists belong to the account RentNetworkManager authorizes its requests  *)
(* with: a number that is listed can be cancelled with the stored token.   *)
(***************************************************************************)
ListOwnedByLogin ==
    LastLoginDecides /\ Cardinality(named) = 1 =>
        \A i \in DOMAIN userRentNumbers : codes[userRentNumbers[i].rent].owner = token

(***************************************************************************)
(* With no request about the balance on its way, the cached balance is the *)
(* service's, unless an answer was lost or two balance answers arrived in  *)
(* reverse order.                                                          *)
(***************************************************************************)
RentBalanceSettles ==
    /\ ~missed /\ token # Nil
    /\ Waiting(HostRequests \cup {"balance", "login"}, {}) = {}
    => userRentBalance = balances[token]

(***************************************************************************)
(* When every snapshot has been handled, the list is the database's, each  *)
(* rent once and the newest first, however many observers were registered. *)
(***************************************************************************)
RentListSettles ==
    /\ events = <<>> /\ newObservers = 0 /\ observers > 0
    /\ synced = Observed
    => userRentNumbers = NewestFirst(Observed)

(***************************************************************************)
(* The completion of rentNumber, cancelRent and savePurchase is called,    *)
(* whatever happens to the request and to its answer, unless the process   *)
(* ends before.                                                            *)
(***************************************************************************)
RentCallsComplete ==
    \A r \in Slots :
        (web[r].call \in HostRequests) ~> (web[r].call \notin HostRequests \/ trapped)

(***************************************************************************)
(* Every init is eventually followed by its notification, also when logins *)
(* overlap, unless the process ends before: inits that have not reported   *)
(* yet, of which there are at most MaxInits, all do.                       *)
(***************************************************************************)
Reported == posted["initSuccess"] + posted["initFailed"]

InitsReport == Reported < inits ~> (Reported = inits \/ trapped)

(***************************************************************************)
(* Once an observer is registered, the list of rents ends up equal to the  *)
(* database's and stays so when the codes no longer change and the process *)
(* goes on.                                                                *)
(***************************************************************************)
RentListConverges ==
    <>[](trapped \/ observers = 0 \/ userRentNumbers = NewestFirst(Observed))

=============================================================================
