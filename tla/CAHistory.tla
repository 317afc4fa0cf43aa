------------------------------ MODULE CAHistory ------------------------------
(***************************************************************************)
(* The history of received requests (CADropSecondMessage and its call in   *)
(* CAGenerateHandlerData, camessagehandler.c).  A multicast request leaves *)
(* its sender once over IPv6 and once over IPv4; the receiver keeps the    *)
(* message id and the token of the last HISTORYSIZE requests to pass on    *)
(* only the copy that comes first.                                         *)
(*                                                                         *)
(* The requests come over one interface, whose index is not 0; of a token  *)
(* only equality and absence matter.                                       *)
(***************************************************************************)
EXTENDS Naturals, Sequences, FiniteSets

CONSTANTS
  Requests,     \* requests of all senders
  Unchecked,    \* the confirmable ones, and those of another adapter than IP
  Id,           \* their message ids
  Token,        \* their tokens, or NoToken
  NoToken,      \* tokenLength 0
  HISTORYSIZE

Families == {"v4", "v6"}

ASSUME HistoryAssumption ==
  /\ Unchecked \subseteq Requests
  /\ HISTORYSIZE \in Nat \ {0}

VARIABLES
  items,       \* the ring: message id, token and interface of each slot
  nextIndex,
  travelling,  \* copies that have not arrived
  delivered,   \* how many copies of each request the stack was given
  arrivals     \* history variable: the checked requests in order of arrival

historyVars == <<items, nextIndex, travelling, delivered, arrivals>>

Slots == 0 .. HISTORYSIZE - 1
Tokens == {Token[m] : m \in Requests} \cup {NoToken}
IfIndex == 1
Items == [id : {Id[m] : m \in Requests} \cup {0}, token : Tokens,
          ifindex : {0, IfIndex}]

(* Type invariant; nextIndex stays inside the ring, and no request is      *)
(* delivered more often than it has copies.                                *)
HistoryTypeOK ==
  /\ items \in [Slots -> Items]
  /\ nextIndex \in Slots
  /\ travelling \subseteq Requests \X Families
  /\ delivered \in [Requests -> 0 .. 2]
  /\ arrivals \in Seq(Requests)

(* caglobals is zeroed.                                                    *)
HistoryInit ==
  /\ items = [i \in Slots |-> [id |-> 0, token |-> NoToken, ifindex |-> 0]]
  /\ nextIndex = 0
  /\ travelling = Requests \X Families
  /\ delivered = [m \in Requests |-> 0]
  /\ arrivals = <<>>

-----------------------------------------------------------------------------

(* Mutant of Recorded: the token is not compared.                          *)
RecordedId(m) ==
  \E i \in Slots : items[i].id = Id[m] /\ items[i].ifindex = IfIndex

(* The search: id, token length, interface and token.  The address family  *)
(* is recorded and not compared.                                           *)
Recorded(m) ==
  \E i \in Slots : /\ items[i].id = Id[m] /\ items[i].ifindex = IfIndex
                   /\ items[i].token = Token[m]

(* The slot that is written: a request without token leaves the token that *)
(* is there, and its length.                                               *)
NewItem(m) ==
  [id |-> Id[m],
   token |-> IF Token[m] = NoToken THEN items[nextIndex].token ELSE Token[m],
   ifindex |-> IfIndex]

(* Mutant of Advance: the index wraps one slot early.                      *)
AdvanceEarly == IF nextIndex + 1 >= HISTORYSIZE - 1 THEN 0 ELSE nextIndex + 1

Advance == IF nextIndex + 1 >= HISTORYSIZE THEN 0 ELSE nextIndex + 1

(* CADropSecondMessage: also a request that is dropped takes a slot.       *)
Checked(m, f) ==
  /\ m \notin Unchecked
  /\ <<m, f>> \in travelling
  /\ travelling' = travelling \ {<<m, f>>}
  /\ delivered' = IF Recorded(m) THEN delivered
                                 ELSE [delivered EXCEPT ![m] = @ + 1]
  /\ items' = [items EXCEPT ![nextIndex] = NewItem(m)]
  /\ nextIndex' = Advance
  /\ arrivals' = Append(arrivals, m)

(* CAGenerateHandlerData does not ask for a confirmable request, and the   *)
(* check lets pass what another adapter brought.                           *)
NotChecked(m, f) ==
  /\ m \in Unchecked
  /\ <<m, f>> \in travelling
  /\ travelling' = travelling \ {<<m, f>>}
  /\ delivered' = [delivered EXCEPT ![m] = @ + 1]
  /\ UNCHANGED <<items, nextIndex, arrivals>>

LoseCopy(m, f) ==
  /\ <<m, f>> \in travelling
  /\ travelling' = travelling \ {<<m, f>>}
  /\ UNCHANGED <<items, nextIndex, delivered, arrivals>>

HistoryNext ==
  \E m \in Requests, f \in Families :
    Checked(m, f) \/ NotChecked(m, f) \/ LoseCopy(m, f)

HistorySpec == HistoryInit /\ [][HistoryNext]_historyVars

-----------------------------------------------------------------------------

(* The last HISTORYSIZE requests that arrived.                             *)
Window ==
  {arrivals[i] : i \in {j \in DOMAIN arrivals : j + HISTORYSIZE > Len(arrivals)}}

(* The second copy of a request with a token is dropped when no more than  *)
(* HISTORYSIZE - 1 others have arrived since the first, whatever their     *)
(* order and however many of them were dropped.                            *)
SecondDropped ==
  [][\A m \in Window : Token[m] # NoToken => delivered'[m] = delivered[m]]_historyVars

(* A slot can stand for a request that never arrived: u used it, and then  *)
(* n, which has no token and leaves that of u.                             *)
Mixed(m) ==
  \E i, j \in DOMAIN arrivals :
    /\ i < j /\ arrivals[i] # m
    /\ Token[m] # NoToken /\ Token[arrivals[i]] = Token[m]
    /\ Token[arrivals[j]] = NoToken /\ Id[arrivals[j]] = Id[m]

(* The sender's address is not compared: an earlier request of another     *)
(* sender, with the same message id and the same token.                    *)
Twin(i) ==
  \E j \in DOMAIN arrivals :
    /\ j < i /\ arrivals[j] # arrivals[i]
    /\ Id[arrivals[j]] = Id[arrivals[i]] /\ Token[arrivals[j]] = Token[arrivals[i]]

(* What is dropped is a second message: the first copy that arrives        *)
(* reaches the stack, also when another sender uses the same message id or *)
(* the same token, unless an earlier request has both, or the request has  *)
(* the message id of one without token and the token of one before that.   *)
FirstDelivered ==
  \A i \in DOMAIN arrivals :
    delivered[arrivals[i]] > 0 \/ Mixed(arrivals[i]) \/ Twin(i)
=============================================================================
