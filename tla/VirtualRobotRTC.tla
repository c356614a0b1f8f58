---------------------------- MODULE VirtualRobotRTC ----------------------------
(***************************************************************************)
(* The port handlers of the ControllerBridge's VirtualRobotRTC and the     *)
(* list of controller components it finds connected to them               *)
(* (src/server/ControllerBridge/VirtualRobotRTC.cpp).                      *)
(*                                                                         *)
(* The constructor makes a handler for every PortInfo the type dispatch   *)
(* accepts; a handled port is then connected to other RTCs by connectors  *)
(* (an environment action).  getConnectedRtcs walks every handler's       *)
(* connectors and lists each connected RTC once per ExtTrig execution     *)
(* context it has, guarded by the set foundRtcNames.                      *)
(***************************************************************************)
EXTENDS Naturals, Sequences, FiniteSets

CONSTANTS
    OutInfos,       \* bridgeConf->outPortInfos: set of [name, type, owned]
    InInfos,        \* bridgeConf->inPortInfos
    RTCs,           \* other components (by instance name)
    Self,           \* this VirtualRobot component
    ExtTrig,        \* ExtTrig[r]: for each execution context of r, whether it is ExtTrig
    MaxConns        \* bound on connectors

(* Data types the two switch statements of createOutPortHandler and       *)
(* createInPortHandler accept.                                             *)
SensorStateTypes == {"JOINT_VALUE", "JOINT_VELOCITY", "JOINT_ACCELERATION",
                     "JOINT_TORQUE", "FORCE_SENSOR", "RATE_GYRO_SENSOR",
                     "ACCELERATION_SENSOR"}
ImageTypes == {"COLOR_IMAGE", "GRAYSCALE_IMAGE", "DEPTH_IMAGE"}
LinkDataTypes == {"JOINT_VALUE", "JOINT_VELOCITY", "JOINT_ACCELERATION",
                  "JOINT_TORQUE", "EXTERNAL_FORCE", "ABS_TRANSFORM"}
SensorDataTypes == {"FORCE_SENSOR", "RATE_GYRO_SENSOR", "ACCELERATION_SENSOR"}
JointDataSeqTypes == {"JOINT_VALUE", "JOINT_VELOCITY", "JOINT_ACCELERATION",
                      "JOINT_TORQUE"}

(* createOutPortHandler: a handler when the type has one for an info with *)
(* (dataOwnerName set) or without an owner.                                *)
HasOutHandler(info) ==
    IF ~info.owned THEN info.type \in SensorStateTypes \cup ImageTypes
    ELSE info.type \in LinkDataTypes \cup SensorDataTypes

(* createInPortHandler: only owner-less joint data has a handler.          *)
HasInHandler(info) == ~info.owned /\ info.type \in JointDataSeqTypes

(* The constructor: outPortHandlers and inPortHandlers by port name.       *)
OutHandlers == {i.name : i \in {i \in OutInfos : HasOutHandler(i)}}
InHandlers == {i.name : i \in {i \in InInfos : HasInHandler(i)}}

VARIABLES
    conns,      \* port name -> connectors on it, each the sequence of the owners of its ports
    rtcList     \* the RTCList the last getConnectedRtcs returned

vars == <<conns, rtcList>>

-----------------------------------------------------------------------------
(* Mutant: the foundRtcNames test dropped.                                 *)
AddForRtcNoCheck(r, list, found) ==
    LET ext == {k \in 1..Len(ExtTrig[r]) : ExtTrig[r][k]}
    IN  [list  |-> list \o [k \in 1..Cardinality(ext) |-> r],
         found |-> IF ext # {} THEN found \cup {r} ELSE found]

(* The body of the inner loop for a connected RTC r other than this one:  *)
(* if r is not yet in foundRtcNames, append it once for every ExtTrig     *)
(* execution context, inserting its name each time.                        *)
AddForRtc(r, list, found) ==
    IF r \in found THEN [list |-> list, found |-> found]
    ELSE LET ext == {k \in 1..Len(ExtTrig[r]) : ExtTrig[r][k]}
         IN  [list  |-> list \o [k \in 1..Cardinality(ext) |-> r],
              found |-> IF ext # {} THEN found \cup {r} ELSE found]

(* addConnectedRtcs(portRef, rtcList, foundRtcNames): every port of every *)
(* connector of the port; owners that are this component are skipped.     *)
RECURSIVE AddOwners(_, _)
AddOwners(owners, acc) ==
    IF owners = <<>> THEN acc
    ELSE AddOwners(Tail(owners),
                   IF Head(owners) = Self THEN acc
                   ELSE AddForRtc(Head(owners), acc.list, acc.found))

RECURSIVE AddConnectors(_, _)
AddConnectors(cs, acc) ==
    IF cs = <<>> THEN acc ELSE AddConnectors(Tail(cs), AddOwners(Head(cs), acc))

(* getConnectedRtcs: the out handlers, then the in handlers, in map       *)
(* (name) order, sharing one foundRtcNames.                                *)
RECURSIVE AddPorts(_, _)
AddPorts(ps, acc) ==
    IF ps = <<>> THEN acc ELSE AddPorts(Tail(ps), AddConnectors(conns[Head(ps)], acc))

(* std::map iterates its keys in order; any fixed order of names will do. *)
RECURSIVE InOrder(_)
InOrder(S) == IF S = {} THEN <<>>
              ELSE LET x == CHOOSE x \in S : TRUE IN <<x>> \o InOrder(S \ {x})

(* Mutant: only the out-port handlers walked.                              *)
ConnectedRtcsOutOnly ==
    AddPorts(InOrder(OutHandlers), [list |-> <<>>, found |-> {}]).list

ConnectedRtcs ==
    AddPorts(InOrder(OutHandlers) \o InOrder(InHandlers), [list |-> <<>>, found |-> {}]).list

-----------------------------------------------------------------------------
Ports == OutHandlers \cup InHandlers

NumConns == LET RECURSIVE Sum(_) Sum(S) ==
                    IF S = {} THEN 0
                    ELSE LET p == CHOOSE p \in S : TRUE IN Len(conns[p]) + Sum(S \ {p})
            IN Sum(Ports)

Init ==
    /\ conns = [p \in Ports |-> <<>>]
    /\ rtcList = <<>>

(* The environment connects another component's port to a handled port   *)
(* of this one, or removes a connector.                                    *)
Connect(p, r) ==
    /\ NumConns < MaxConns
    /\ conns' = [conns EXCEPT ![p] = Append(@, <<Self, r>>)]
    /\ UNCHANGED rtcList

Disconnect(p, i) ==
    /\ conns' = [conns EXCEPT ![p] = [j \in 1..Len(@) - 1 |-> IF j < i THEN @[j] ELSE @[j + 1]]]
    /\ UNCHANGED rtcList

GetConnectedRtcs ==
    /\ rtcList' = ConnectedRtcs
    /\ UNCHANGED conns

Next ==
    \/ \E p \in Ports, r \in RTCs : Connect(p, r)
    \/ \E p \in Ports : \E i \in 1..Len(conns[p]) : Disconnect(p, i)
    \/ GetConnectedRtcs

Spec == Init /\ [][Next]_vars

-----------------------------------------------------------------------------
(* getConnectedRtcs lists no component twice: foundRtcNames exists to     *)
(* keep a component reached through several ports, connectors or         *)
(* execution contexts from being driven more than once.                    *)
ConnectedRtcsDistinct ==
    \A i, j \in 1..Len(rtcList) : rtcList[i] = rtcList[j] => i = j

(* The list holds exactly the other components that are connected to a   *)
(* handled port and have an ExtTrig execution context, as of the call.    *)
ConnectedRtcsComplete ==
    [][GetConnectedRtcs =>
         {rtcList'[i] : i \in 1..Len(rtcList')} =
            {r \in RTCs : /\ \E p \in Ports : \E c \in 1..Len(conns[p]) :
                                 \E k \in 1..Len(conns[p][c]) : conns[p][c][k] = r
                          /\ \E k \in 1..Len(ExtTrig[r]) : ExtTrig[r][k]}]_vars

=============================================================================
