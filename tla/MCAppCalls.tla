----------------------------- MODULE MCAppCalls -----------------------------
(***************************************************************************)
(* Small instances of AppCalls.  alice creates and calls, bob opts in, app1*)
(* to app3 are the addresses of applications.                              *)
(***************************************************************************)
EXTENDS AppCalls, TLC

CONSTANTS alice, bob, app1, app2, app3

MCAddr == {alice, bob, app1, app2, app3}
MCInitialAccounts == {alice, bob}
MCFunds == (alice :> 15) @@ (bob :> 2)
LifeFunds == (alice :> 16) @@ (bob :> 9)
MCAppAddress == <<app1, app2, app3>>
MCOneAddress == <<app1>>

-----------------------------------------------------------------------------
(* Transactions                                                            *)

Basic(x) ==
  [type |-> "pay", from |-> x, signer |-> x, to |-> x, amt |-> 0, close |-> NoAddr,
   rekey |-> NoAddr, approved |-> TRUE, fee |-> 1, flat |-> TRUE, app |-> 0,
   then |-> "none", code |-> NoApp]
PayTo(x, y, n) == [Basic(x) EXCEPT !.to = y, !.amt = n]
Call(x, n, then) == [Basic(x) EXCEPT !.type = "appl", !.app = n, !.then = then]
Create(x, d) == [Call(x, 0, "create") EXCEPT !.code = d]
Define(a, c, g, l, name) ==
  [approval |-> a, clear |-> c, globals |-> g, locals |-> l, name |-> name, files |-> a,
   valid |-> TRUE]

-----------------------------------------------------------------------------
(* Programs                                                                *)

Does(op) == [op |-> op]
On(op, k) == [op |-> op, key |-> k]
Takes(n) == [op |-> "take", n |-> n]
New == Does("ifnew")
Accept == Does("accept")
Reject == Does("reject")
Begin == Does("begin")
Another == Does("next")
Submits == Does("submit")
Pays == [op |-> "field", set |-> [type |-> "pay", to |-> bob, amt |-> 1]]
Free == [op |-> "field", set |-> [fee |-> 0]]
Calls(n) == [op |-> "field", set |-> [type |-> "appl", app |-> n]]

MCBody ==
  [ plain    |-> <<Accept>>,
    reject   |-> <<Reject>>,
    once     |-> <<New, Reject, Accept>>,
    state    |-> <<On("put", "k"), On("lput", "k"), Accept>>,
    state2   |-> <<On("put", "k"), On("del", "k"), On("put", "l"), New, On("put", "k"), Accept>>,
    forget   |-> <<New, On("ldel", "k"), On("del", "l"), Accept>>,
    local    |-> <<New, On("lput", "k"), Accept>>,
    local2   |-> <<New, On("lput", "k"), On("lput", "l"), Accept>>,
    burn     |-> <<New, Takes(8), Accept>>,
    some     |-> <<New, Takes(3), Accept>>,
    pays     |-> <<New, Begin, Pays, Submits, Accept>>,
    free     |-> <<New, Begin, Pays, Free, Submits, Accept>>,
    begins   |-> <<New, Begin, Calls(0), Submits, Begin, Accept>>,
    call1    |-> <<New, Begin, Calls(1), Submits, Accept>>,
    call2    |-> <<New, Begin, Calls(2), Submits, Accept>>,
    call3    |-> <<New, Begin, Calls(3), Submits, Accept>>,
    twice    |-> <<New, Begin, Calls(2), Submits, Begin, Calls(2), Submits, Accept>>,
    both     |-> <<New, Begin, Calls(2), Another, Calls(3), Submits, Accept>>,
    payCall1 |-> <<New, Begin, Pays, Submits, Begin, Calls(1), Submits, Accept>> ]

\* The programs that call no other application than the first.
OneAppBody ==
  [name \in DOMAIN MCBody \ {"call2", "call3", "twice", "both"} |-> MCBody[name]]

\* With the names of applications.
MCNames == DOMAIN MCBody \cup {"none", "app", "other", "direct"}

-----------------------------------------------------------------------------
(* The life of one application                                             *)

LifeCodes ==
  {Define(a, c, 1, 1, "app") : a \in {"plain", "state2", "local", "local2"},
                               c \in {"reject", "forget"}}
  \cup {Define("state", "plain", 1, 1, "app"), Define("once", "plain", 1, 0, "app"),
        Define("burn", "plain", 1, 0, "other"),
        [Define("plain", "plain", 1, 1, "app") EXCEPT !.valid = FALSE]}

LifeGroups ==
  {<<Create(alice, d)>> : d \in LifeCodes}
  \cup {<<Call(bob, 1, then)>> : then \in {"call", "join", "close", "clear", "delete"}}
  \cup {<<[Call(bob, 1, "update") EXCEPT !.code = Define(a, "forget", 1, 1, "app")]>> :
          a \in {"plain", "reject"}}
  \cup {<<PayTo(alice, app1, 3)>>,
        <<[PayTo(bob, alice, 1) EXCEPT !.close = alice, !.signer = NoAddr]>>,
        <<Call(bob, 1, "join"), PayTo(bob, alice, 3)>>,
        <<Call(bob, 1, "clear"), Call(bob, 1, "join")>>,
        <<[Call(bob, 1, "call") EXCEPT !.fee = 0]>>}

-----------------------------------------------------------------------------
(* Calls that make calls, and direct calls                                 *)

CallCodes == [
  first  |-> {"free", "pays", "twice", "both", "begins"},
  second |-> {"some", "burn", "call1", "call3"},
  third  |-> {"plain", "burn"} ]

CreateThree(a, b, c) ==
  << Create(alice, Define(a, "plain", 0, 1, a)),
     [Create(alice, Define(b, "plain", 0, 1, b)) EXCEPT !.amt = 1],
     [Create(alice, Define(c, "plain", 0, 1, c)) EXCEPT !.amt = 2] >>

Fund == << PayTo(alice, app1, 3), PayTo(alice, app2, 1) >>

CallGroups ==
  {CreateThree(a, b, c) : a \in CallCodes.first, b \in CallCodes.second, c \in CallCodes.third}
  \cup {Fund, <<[Call(alice, 1, "call") EXCEPT !.fee = 1]>>,
        <<[Call(alice, 1, "call") EXCEPT !.fee = 2]>>,
        <<[Call(alice, 1, "call") EXCEPT !.fee = 3], [Call(bob, 2, "call") EXCEPT !.fee = 2]>>}

InnerDirectCalls ==
  {Create(alice, Define("reject", "plain", 0, 0, "direct")), Call(bob, 1, "join")}
  \cup {[Call(alice, 2, "update") EXCEPT !.code = Define("pays", "plain", 0, 1, "pays")]}

\* An application that pays and then calls itself.
ReentryGroups ==
  {<<Create(alice, Define("payCall1", "plain", 0, 0, "app"))>>,
   <<PayTo(alice, app1, 4)>>, <<PayTo(alice, bob, 1)>>,
   <<[Call(alice, 1, "call") EXCEPT !.fee = 5]>>}

NoDirectCalls == {}

\* The hypothesis of StoreStaysSound in AppProofs holds of these programs.
ASSUME MCClearsTidy == ClearsTidy
=============================================================================
