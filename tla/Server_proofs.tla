---------------------------- MODULE Server_proofs ----------------------------
(***************************************************************************)
(* Theorems about ScreenSwitch for any number of connections and names,    *)
(* and about ServerLife for any number of clients.                         *)
(***************************************************************************)
EXTENDS ScreenSwitch, ServerLife, TLAPS

(***************************************************************************)
(* Type correctness.  The variables fall into groups that actions change   *)
(* or keep together.                                                       *)
(***************************************************************************)
FocusType ==
  /\ m_active \in Conn \union {Primary}
  /\ primaryEntered \in BOOLEAN
  /\ link \in [Conn -> Seq(Message)]

PendingType ==
  /\ m_switchScreen \in Conn \union {Primary, NoScreen}
  /\ m_switchDir \in Dir \union {NoDirection}
  /\ m_switchWaitTimer \in {"none", "armed", "fired"}
  /\ m_switchTwoTapEngaged \in BOOLEAN
  /\ m_switchTwoTapArmed \in BOOLEAN

RestType ==
  /\ config \subseteq Name
  /\ proxies \subseteq Conn /\ m_clientSet \subseteq Conn
  /\ m_oldClients \subseteq Conn /\ disconnecting \subseteq Conn
  /\ m_activeSaver \in Conn \union {Primary, NoScreen}
  /\ m_lockedToScreen \in BOOLEAN /\ professionalInput \in BOOLEAN
  /\ saverOn \in BOOLEAN
  /\ up \subseteq Conn
  /\ entered \in [Conn -> BOOLEAN]

LEMMA TypeGroups == TypeOK <=> FocusType /\ PendingType /\ RestType
BY DEF TypeOK, FocusType, PendingType, RestType

LEMMA SentType ==
  ASSUME FocusType, NEW c \in Conn, NEW m \in Message
  PROVE  Sent(c, m) \in Seq(Message)
BY DEF FocusType, Sent

LEMMA KeptFocus == FocusType /\ UNCHANGED focusVars => FocusType'
BY DEF FocusType, focusVars

LEMMA KeptPending == PendingType /\ UNCHANGED pendingVars => PendingType'
BY DEF PendingType, pendingVars

LEMMA StopSwitchType == PendingType /\ stopSwitch => PendingType'
BY DEF PendingType, stopSwitch, pendingVars

LEMMA AcceptedType ==
  ASSUME FocusType, PendingType,
         NEW dst \in Conn \union {Primary}, switchAccepted(dst)
  PROVE  FocusType' /\ PendingType'
<1>1. PendingType'
  BY StopSwitchType DEF switchAccepted
<1>2. CASE CutOver(dst)
  <2>1. link' \in [Conn -> Seq(Message)]
    BY <1>2, SentType DEF CutOver, FocusType, Message
  <2>2. QED  BY <1>1, <1>2, <2>1 DEF CutOver, FocusType
<1>3. CASE UNCHANGED focusVars
  BY <1>1, <1>3, KeptFocus
<1>4. QED  BY <1>2, <1>3 DEF switchAccepted

LEMMA SwitchType ==
  ASSUME FocusType, PendingType,
         NEW dst \in Conn \union {Primary}, switchScreen(dst)
  PROVE  FocusType' /\ PendingType'
BY AcceptedType, KeptFocus, KeptPending DEF switchScreen, switchRefused

LEMMA NotePendingType ==
  ASSUME PendingType, NEW d \in Dir, NEW dst \in Conn \union {Primary},
         NotePending(d, dst)
  PROVE  /\ m_switchScreen' \in Conn \union {Primary, NoScreen}
         /\ m_switchDir' \in Dir \union {NoDirection}
BY DEF PendingType, NotePending

LEMMA ForceLeaveType ==
  ASSUME FocusType, RestType, NEW S, forceLeaveClient(S)
  PROVE  /\ m_active' \in Conn \union {Primary}
         /\ primaryEntered' \in BOOLEAN
         /\ m_activeSaver' \in Conn \union {Primary, NoScreen}
BY DEF FocusType, RestType, forceLeaveClient, Leaving

LEMMA TypeStep == TypeOK /\ [Next]_vars => TypeOK'
<1> SUFFICES ASSUME FocusType, PendingType, RestType, [Next]_vars
             PROVE  FocusType' /\ PendingType' /\ RestType'
  BY DEF TypeOK, FocusType, PendingType, RestType
<1> USE DEF serverVars, inputVars, clientVars, removeOldClient, DeleteProxy
<1>1. ASSUME NEW s \in Screens, jumpToScreen(s)
      PROVE  FocusType' /\ PendingType' /\ RestType'
  <2>1. s \in Conn \union {Primary}
    BY DEF Screens, RestType
  <2>2. QED  BY <1>1, <2>1, SwitchType DEF jumpToScreen, RestType
<1>2. CASE EdgeBlocked
  BY <1>2, KeptFocus, StopSwitchType DEF EdgeBlocked, RestType
<1>3. ASSUME NEW d \in Dir, NEW s \in Screens, NEW t \in BOOLEAN,
             EdgePending(d, s, t)
      PROVE  FocusType' /\ PendingType' /\ RestType'
  <2>1. s \in Conn \union {Primary}
    BY DEF Screens, RestType
  <2>2. PendingType'
    <3>1. m_switchTwoTapEngaged' \in BOOLEAN /\ m_switchTwoTapArmed' \in BOOLEAN
      BY <1>3 DEF EdgePending
    <3>2. m_switchWaitTimer' \in {"none", "armed", "fired"}
      BY <1>3 DEF EdgePending, PendingType
    <3>3. QED  BY <1>3, <2>1, <3>1, <3>2, NotePendingType
                DEF EdgePending, PendingType
  <2>3. QED  BY <1>3, <2>2, KeptFocus DEF EdgePending, RestType
<1>4. ASSUME NEW d \in Dir, NEW s \in Screens, NEW t \in BOOLEAN,
             EdgeSwitch(d, s, t)
      PROVE  FocusType' /\ PendingType' /\ RestType'
  <2>1. s \in Conn \union {Primary}
    BY DEF Screens, RestType
  <2>2. QED  BY <1>4, <2>1, AcceptedType DEF EdgeSwitch, RestType
<1>5. ASSUME NEW d \in Dir, NEW t \in BOOLEAN, EdgeRefused(d, t)
      PROVE  FocusType' /\ PendingType' /\ RestType'
  <2>1. PendingType'
    BY <1>5, NotePendingType DEF EdgeRefused, PendingType
  <2>2. QED  BY <1>5, <2>1, KeptFocus
               DEF EdgeRefused, switchRefused, RestType
<1>6. CASE noSwitch
  <2>1. PendingType'
    BY <1>6 DEF noSwitch, PendingType
  <2>2. QED  BY <1>6, <2>1, KeptFocus DEF noSwitch, RestType
<1>7. ASSUME NEW held \in BOOLEAN, handleSwitchWaitTimeout(held)
      PROVE  FocusType' /\ PendingType' /\ RestType'
  <2>1. RestType'
    BY <1>7 DEF handleSwitchWaitTimeout, RestType
  <2>2. m_switchScreen \in Conn \union {Primary}
    BY <1>7 DEF handleSwitchWaitTimeout, PendingType
  <2>3. CASE stopSwitch /\ UNCHANGED focusVars
    BY <2>1, <2>3, KeptFocus, StopSwitchType
  <2>4. CASE switchAccepted(m_switchScreen)
    BY <2>1, <2>2, <2>4, AcceptedType
  <2>5. CASE /\ switchRefused(m_switchScreen)
             /\ m_switchWaitTimer' = "fired"
             /\ UNCHANGED <<m_switchScreen, m_switchDir,
                            m_switchTwoTapEngaged, m_switchTwoTapArmed>>
    <3>1. PendingType'
      BY <2>5 DEF PendingType
    <3>2. QED  BY <2>1, <2>5, <3>1, KeptFocus DEF switchRefused
  <2>6. QED  BY <1>7, <2>3, <2>4, <2>5 DEF handleSwitchWaitTimeout
<1>8. CASE handleLockCursorToScreenEvent
  BY <1>8, KeptFocus, KeptPending DEF handleLockCursorToScreenEvent, RestType
<1>9. CASE pauseForProfessionalInput
  BY <1>9, KeptFocus, KeptPending, SwitchType
     DEF pauseForProfessionalInput, RestType
<1>10. CASE professionalInputEnds
  BY <1>10, KeptFocus, KeptPending DEF professionalInputEnds, RestType
<1>11. CASE ScreensaverOn
  <2>1. RestType'
    BY <1>11 DEF ScreensaverOn, RestType, FocusType
  <2>2. QED  BY <1>11, <2>1, KeptFocus, KeptPending, SwitchType
               DEF ScreensaverOn
<1>12. CASE ScreensaverOff
  <2>1. RestType'
    BY <1>12 DEF ScreensaverOff, RestType
  <2>2. m_activeSaver \notin {NoScreen, Primary} => m_activeSaver \in Conn
    BY DEF RestType
  <2>3. QED  BY <1>12, <2>1, <2>2, KeptFocus, KeptPending, SwitchType
               DEF ScreensaverOff
<1>13. ASSUME NEW c \in Conn, adoptClient(c)
       PROVE  FocusType' /\ PendingType' /\ RestType'
  <2>1. RestType'
    BY <1>13 DEF adoptClient, Connects, RestType
  <2>2. FocusType'
    BY <1>13 DEF adoptClient, Connects, FocusType
  <2>3. QED  BY <1>13, <2>1, <2>2, KeptPending DEF adoptClient
<1>14. ASSUME NEW c \in Conn, RefuseClient(c)
       PROVE  FocusType' /\ PendingType' /\ RestType'
  <2>1. RestType'
    BY <1>14, ForceLeaveType DEF RefuseClient, Connects, RestType
  <2>2. link' \in [Conn -> Seq(Message)]
    BY <1>14 DEF RefuseClient, FocusType, Message
  <2>3. FocusType'
    BY <1>14, <2>2, ForceLeaveType DEF RefuseClient, FocusType
  <2>4. QED  BY <1>14, <2>1, <2>3, KeptPending, StopSwitchType
               DEF RefuseClient
<1>15. ASSUME NEW names \in SUBSET Name, setConfig(names)
       PROVE  FocusType' /\ PendingType' /\ RestType'
  <2> DEFINE dropped == {c \in m_clientSet : NameOf[c] \notin names}
  <2>1. RestType'
    BY <1>15, ForceLeaveType DEF setConfig, RestType
  <2>2. link' \in [Conn -> Seq(Message)]
    <3>1. \A c \in Conn : Sent(c, "close") \in Seq(Message)
      BY SentType DEF Message
    <3>2. QED  BY <1>15, <3>1 DEF setConfig, FocusType
  <2>3. FocusType'
    BY <1>15, <2>2, ForceLeaveType DEF setConfig, FocusType
  <2>4. PendingType'
    BY <1>15 DEF setConfig, PendingType
  <2>5. QED  BY <2>1, <2>3, <2>4
<1>16. ASSUME NEW c \in Conn, ProxyDisconnects(c)
       PROVE  FocusType' /\ PendingType' /\ RestType'
  BY <1>16, KeptFocus, KeptPending DEF ProxyDisconnects, RestType
<1>17. ASSUME NEW c \in Conn, handleClientDisconnected(c)
       PROVE  FocusType' /\ PendingType' /\ RestType'
  <2>1. CASE c \in m_clientSet
    <3>1. RestType'
      BY <1>17, <2>1, ForceLeaveType DEF handleClientDisconnected, RestType
    <3>2. FocusType'
      BY <1>17, <2>1, ForceLeaveType DEF handleClientDisconnected, FocusType
    <3>3. QED  BY <1>17, <2>1, <3>1, <3>2, KeptPending, StopSwitchType
                 DEF handleClientDisconnected
  <2>2. CASE c \notin m_clientSet
    <3>1. RestType' /\ FocusType'
      BY <1>17, <2>2 DEF handleClientDisconnected, RestType, FocusType
    <3>2. QED  BY <1>17, <2>2, <3>1, KeptPending
                 DEF handleClientDisconnected
  <2>3. QED  BY <2>1, <2>2
<1>18. ASSUME NEW c \in Conn, handleClientCloseTimeout(c)
       PROVE  FocusType' /\ PendingType' /\ RestType'
  BY <1>18, KeptFocus, KeptPending DEF handleClientCloseTimeout, RestType
<1>19. ASSUME NEW c \in Conn, ClientReceives(c)
       PROVE  FocusType' /\ PendingType' /\ RestType'
  <2>1. RestType'
    BY <1>19 DEF ClientReceives, RestType
  <2>2. FocusType'
    BY <1>19 DEF ClientReceives, FocusType
  <2>3. QED  BY <1>19, <2>1, <2>2, KeptPending DEF ClientReceives
<1>20. ASSUME NEW c \in Conn, ClientDrops(c)
       PROVE  FocusType' /\ PendingType' /\ RestType'
  <2>1. RestType'
    BY <1>20 DEF ClientDrops, RestType
  <2>2. FocusType'
    BY <1>20 DEF ClientDrops, FocusType
  <2>3. QED  BY <1>20, <2>1, <2>2, KeptPending DEF ClientDrops
<1>21. CASE UNCHANGED vars
  BY <1>21 DEF vars, FocusType, PendingType, RestType
<1>22. QED
  BY <1>1, <1>2, <1>3, <1>4, <1>5, <1>6, <1>7, <1>8, <1>9, <1>10, <1>11,
     <1>12, <1>13, <1>14, <1>15, <1>16, <1>17, <1>18, <1>19, <1>20, <1>21
     DEF Next

\* TypeOK: every variable always has the type its declaration in Server.h,
\* Screen.h or the stream gives it.
THEOREM TypeCorrect == Spec => []TypeOK
<1>1. Init => TypeOK
  <2>1. Init => link \in [Conn -> Seq(Message)]
    BY DEF Init
  <2>2. QED  BY <2>1 DEF Init, TypeOK
<1>2. QED  BY <1>1, TypeStep, PTL DEF Spec

(***************************************************************************)
(* The bookkeeping of proxies, whatever the options.                       *)
(***************************************************************************)
LEMMA ProxiesStep ==
  TypeOK /\ ProxiesAccountedFor /\ [Next]_vars => ProxiesAccountedFor'
<1> SUFFICES ASSUME TypeOK, ProxiesAccountedFor, [Next]_vars
             PROVE  ProxiesAccountedFor'
  OBVIOUS
<1>1. ASSUME UNCHANGED <<proxies, m_clientSet, m_oldClients, disconnecting>>
      PROVE  ProxiesAccountedFor'
  BY <1>1 DEF ProxiesAccountedFor
<1>2. ASSUME NEW c \in Conn, adoptClient(c) PROVE ProxiesAccountedFor'
  <2>1. c \notin m_clientSet /\ c \notin m_oldClients
    BY <1>2 DEF adoptClient, Connects, ProxiesAccountedFor
  <2>2. \A d \in m_clientSet : NameOf[d] # NameOf[c]
    BY <1>2 DEF adoptClient, IsBusy
  <2>3. QED  BY <1>2, <2>1, <2>2
               DEF adoptClient, Connects, ProxiesAccountedFor
<1>3. ASSUME NEW c \in Conn, RefuseClient(c) PROVE ProxiesAccountedFor'
  BY <1>3 DEF RefuseClient, Connects, ProxiesAccountedFor
<1>4. ASSUME NEW names \in SUBSET Name, setConfig(names)
      PROVE  ProxiesAccountedFor'
  BY <1>4 DEF setConfig, ProxiesAccountedFor
<1>5. ASSUME NEW c \in Conn, ProxyDisconnects(c) PROVE ProxiesAccountedFor'
  BY <1>5 DEF ProxyDisconnects, serverVars, ProxiesAccountedFor
<1>6. ASSUME NEW c \in Conn, handleClientDisconnected(c)
      PROVE  ProxiesAccountedFor'
  BY <1>6 DEF handleClientDisconnected, removeOldClient, DeleteProxy,
     ProxiesAccountedFor
<1>7. ASSUME NEW c \in Conn, handleClientCloseTimeout(c)
      PROVE  ProxiesAccountedFor'
  BY <1>7 DEF handleClientCloseTimeout, removeOldClient, DeleteProxy,
     ProxiesAccountedFor
<1>8. ASSUME NEW c \in Conn, ClientReceives(c) \/ ClientDrops(c)
      PROVE  ProxiesAccountedFor'
  BY <1>1, <1>8 DEF ClientReceives, ClientDrops, serverVars
<1>9. CASE UNCHANGED vars
  BY <1>1, <1>9 DEF vars
<1>10. ASSUME \/ \E s \in Screens : jumpToScreen(s)
              \/ \E d \in Dir, s \in Screens, t \in BOOLEAN :
                   EdgePending(d, s, t) \/ EdgeSwitch(d, s, t)
              \/ \E d \in Dir, t \in BOOLEAN : EdgeRefused(d, t)
              \/ \E held \in BOOLEAN : handleSwitchWaitTimeout(held)
              \/ EdgeBlocked \/ noSwitch \/ handleLockCursorToScreenEvent
              \/ pauseForProfessionalInput \/ professionalInputEnds
              \/ ScreensaverOn \/ ScreensaverOff
       PROVE  ProxiesAccountedFor'
  <2>1. UNCHANGED <<proxies, m_clientSet, m_oldClients, disconnecting>>
    BY <1>10 DEF jumpToScreen, EdgePending, EdgeSwitch, EdgeRefused,
         handleSwitchWaitTimeout, EdgeBlocked, noSwitch,
         handleLockCursorToScreenEvent, pauseForProfessionalInput,
         professionalInputEnds, ScreensaverOn, ScreensaverOff, serverVars
  <2>2. QED  BY <1>1, <2>1
<1>11. QED
  BY <1>2, <1>3, <1>4, <1>5, <1>6, <1>7, <1>8, <1>9, <1>10 DEF Next

\* Every allocated proxy is in exactly one of m_clients and m_oldClients, and
\* no name is served twice, whatever the options, delays and screen savers.
THEOREM ProxiesAreAccountedFor == Spec => []ProxiesAccountedFor
<1>1. Init => ProxiesAccountedFor
  BY DEF Init, ProxiesAccountedFor
<1>2. QED  BY <1>1, ProxiesStep, TypeCorrect, PTL DEF Spec

(***************************************************************************)
(* The messages under way to one client: q, to a client whose screen has   *)
(* the cursor (e) or not.                                                  *)
(***************************************************************************)
LEMMA AppendAlternates ==
  ASSUME NEW q \in Seq(Message), NEW e \in BOOLEAN, NEW m \in Message,
         Alternates(q, e),
         q # << >> => q[Len(q)] # "close",
         m # (IF EndsEntered(q, e) THEN "enter" ELSE "leave")
  PROVE  /\ Alternates(Append(q, m), e)
         /\ Append(q, m) # << >>
         /\ Append(q, m)[Len(Append(q, m))] = m
<1> DEFINE r == Append(q, m)
<1>1. Len(r) = Len(q) + 1 /\ r # << >> /\ r[Len(r)] = m
  <2>1. r \in Seq(Message) /\ Len(r) = Len(q) + 1 /\ r[Len(q) + 1] = m
    OBVIOUS
  <2>2. Len(q) \in Nat
    OBVIOUS
  <2>3. r # << >>
    BY <2>1, <2>2
  <2>4. QED  BY <2>1, <2>3
<1>2. \A i \in 1 .. Len(q) : r[i] = q[i]
  OBVIOUS
<1>3. CASE q = << >>
  BY <1>1, <1>3 DEF Alternates, EndsEntered
<1>4. CASE q # << >>
  <2>1. q[Len(q)] \in {"enter", "leave"} /\ q[Len(q)] # m
    BY <1>4 DEF EndsEntered, Message
  <2>2. r[1] = q[1]
    BY <1>2, <1>4
  <2>3. \A i \in 1 .. Len(r) - 1 : r[i] # "close" /\ r[i] # r[i + 1]
    <3>1. TAKE i \in 1 .. Len(r) - 1
    <3>2. CASE i = Len(q)
      BY <1>1, <1>2, <2>1, <3>2
    <3>3. CASE i # Len(q)
      BY <1>1, <1>2, <3>3 DEF Alternates
    <3>4. QED  BY <3>2, <3>3
  <2>4. QED  BY <1>1, <1>4, <2>2, <2>3 DEF Alternates
<1>5. QED  BY <1>3, <1>4

LEMMA TailAlternates ==
  ASSUME NEW q \in Seq(Message), NEW e \in BOOLEAN, Alternates(q, e),
         q # << >>, Head(q) \in {"enter", "leave"}
  PROVE  /\ Alternates(Tail(q), Head(q) = "enter")
         /\ EndsEntered(Tail(q), Head(q) = "enter") <=> EndsEntered(q, e)
         /\ Tail(q) # << >> => Tail(q)[Len(Tail(q))] = q[Len(q)]
         /\ q[Len(q)] = "close" => Tail(q) # << >>
<1> DEFINE r == Tail(q)
<1>1. Len(r) = Len(q) - 1 /\ Head(q) = q[1]
  OBVIOUS
<1>2. \A i \in 1 .. Len(r) : r[i] = q[i + 1]
  OBVIOUS
<1>3. r # << >> => Len(r) > 0 /\ r[Len(r)] = q[Len(q)]
  BY <1>1, <1>2
<1>4. r = << >> => Len(q) = 1
  <2>1. Len(q) \in Nat
    OBVIOUS
  <2>2. \A s : s = << >> => Len(s) = 0
    OBVIOUS
  <2>3. r = << >> => Len(r) = 0
    BY <2>2
  <2>4. QED  BY <1>1, <2>1, <2>3
<1>5. Alternates(r, Head(q) = "enter")
  <2>1. r # << >> => r[1] # q[1]
    <3> HAVE r # << >>
    <3>1. r[1] = q[2] /\ 1 \in 1 .. Len(q) - 1
      BY <1>1, <1>2, <1>3
    <3>2. QED  BY <3>1 DEF Alternates
  <2>2. \A i \in 1 .. Len(r) - 1 : r[i] # "close" /\ r[i] # r[i + 1]
    BY <1>1, <1>2 DEF Alternates
  <2>3. QED  BY <1>1, <2>1, <2>2 DEF Alternates
<1>6. QED  BY <1>1, <1>3, <1>4, <1>5 DEF EndsEntered

(***************************************************************************)
(* The active screen, when calm.                                           *)
(***************************************************************************)
FocusInv ==
  /\ ProxiesAccountedFor /\ ActiveIsServed /\ OneScreenHasTheCursor
  /\ EntersAndLeavesAlternate /\ ServedStayOpen

\* An enter for a screen that is not active, or a leave for the one that is.
LEMMA SentToServed ==
  ASSUME TypeOK, FocusInv, NEW c \in m_clientSet,
         NEW m \in {"enter", "leave"},
         m # (IF m_active = c THEN "enter" ELSE "leave")
  PROVE  /\ Alternates(Sent(c, m), entered[c])
         /\ Sent(c, m) # << >> => Sent(c, m)[Len(Sent(c, m))] # "close"
         /\ Reaches(c) => (EndsEntered(Sent(c, m), entered[c]) <=> m = "enter")
<1>1. c \in Conn /\ link[c] \in Seq(Message) /\ entered[c] \in BOOLEAN
  BY DEF TypeOK
<1>2. Alternates(link[c], entered[c])
  BY <1>1 DEF FocusInv, EntersAndLeavesAlternate
<1>3. link[c] # << >> => link[c][Len(link[c])] # "close"
  BY DEF FocusInv, ServedStayOpen
<1>4. CASE Reaches(c)
  <2>1. EndsEntered(link[c], entered[c]) <=> m_active = c
    BY <1>4 DEF FocusInv, OneScreenHasTheCursor
  <2>2. m # (IF EndsEntered(link[c], entered[c]) THEN "enter" ELSE "leave")
    BY <2>1
  <2>3. m \in Message
    BY DEF Message
  <2>4. /\ Alternates(Append(link[c], m), entered[c])
        /\ Append(link[c], m) # << >>
        /\ Append(link[c], m)[Len(Append(link[c], m))] = m
    BY <1>1, <1>2, <1>3, <2>2, <2>3, AppendAlternates
  <2>5. Sent(c, m) = Append(link[c], m)
    BY <1>4 DEF Sent
  <2>6. QED  BY <2>4, <2>5 DEF EndsEntered
<1>5. CASE ~Reaches(c)
  <2>1. Sent(c, m) = link[c]
    BY <1>5 DEF Sent
  <2>2. QED  BY <1>2, <1>3, <1>5, <2>1
<1>6. QED  BY <1>4, <1>5

LEMMA SwitchKeepsFocus ==
  ASSUME TypeOK, FocusInv, NEW dst \in Screens, switchAccepted(dst),
         UNCHANGED <<proxies, m_clientSet, m_oldClients, disconnecting, up,
                     entered>>
  PROVE  FocusInv'
<1>1. CASE UNCHANGED focusVars
  BY <1>1 DEF FocusInv, ProxiesAccountedFor, ActiveIsServed, Screens,
     OneScreenHasTheCursor, Reaches, EntersAndLeavesAlternate,
     ServedStayOpen, focusVars
<1>2. CASE dst # m_active /\ CutOver(dst)
  <2>1. /\ m_active' = dst /\ primaryEntered' = (dst = Primary)
        /\ \A c \in Conn : link'[c] = IF c = m_active THEN Sent(c, "leave")
                                      ELSE IF c = dst THEN Sent(c, "enter")
                                      ELSE link[c]
    BY <1>2 DEF CutOver
  <2>2. ProxiesAccountedFor' /\ ActiveIsServed'
    BY <2>1 DEF FocusInv, ProxiesAccountedFor, ActiveIsServed, Screens
  <2>3. ASSUME NEW c \in m_clientSet
        PROVE  /\ Alternates(link'[c], entered[c])
               /\ link'[c] # << >> => link'[c][Len(link'[c])] # "close"
               /\ Reaches(c) =>
                    (EndsEntered(link'[c], entered[c]) <=> dst = c)
    <3>1. c \in Conn
      BY DEF TypeOK
    <3>2. CASE c = m_active
      <4>1. link'[c] = Sent(c, "leave")
        BY <2>1, <3>1, <3>2
      <4>2. QED  BY <1>2, <3>2, <4>1, SentToServed
    <3>3. CASE c # m_active /\ c = dst
      <4>1. link'[c] = Sent(c, "enter")
        BY <2>1, <3>1, <3>3
      <4>2. QED  BY <3>3, <4>1, SentToServed
    <3>4. CASE c # m_active /\ c # dst
      <4>1. link'[c] = link[c]
        BY <2>1, <3>1, <3>4
      <4>2. QED  BY <3>1, <3>4, <4>1 DEF FocusInv, OneScreenHasTheCursor,
                   EntersAndLeavesAlternate, ServedStayOpen
    <3>5. QED  BY <3>2, <3>3, <3>4
  <2>4. ASSUME NEW c \in Conn, c \notin m_clientSet
        PROVE  link'[c] = link[c]
    BY <2>1, <2>4, ScreensDistinct DEF FocusInv, ActiveIsServed, Screens
  <2>5. \A c \in Conn : Reaches(c)' <=> Reaches(c)
    BY DEF Reaches
  <2>6. OneScreenHasTheCursor'
    <3>1. \A c \in m_clientSet' : Reaches(c)' =>
            (EndsEntered(link[c], entered[c])' <=> m_active' = c)
      BY <2>1, <2>3, <2>5 DEF EndsEntered, TypeOK
    <3>2. \A c \in m_oldClients' : Reaches(c)' =>
            link'[c] # << >> /\ link'[c][Len(link'[c])] = "close"
      BY <2>4, <2>5 DEF FocusInv, OneScreenHasTheCursor, ProxiesAccountedFor,
         TypeOK
    <3>3. QED  BY <2>1, <3>1, <3>2 DEF OneScreenHasTheCursor
  <2>7. EntersAndLeavesAlternate'
    <3>1. ASSUME NEW c \in Conn PROVE Alternates(link'[c], entered'[c])
      BY <2>3, <2>4 DEF EntersAndLeavesAlternate, FocusInv
    <3>2. QED  BY <3>1 DEF EntersAndLeavesAlternate
  <2>8. ServedStayOpen'
    BY <2>3 DEF ServedStayOpen
  <2>9. QED  BY <2>2, <2>6, <2>7, <2>8 DEF FocusInv
<1>3. QED  BY <1>1, <1>2 DEF switchAccepted

\* When the saver shows on the primary, forceLeaveClient gives the screens it
\* drops their cursor back, and only them.
LEMMA CalmForceLeave ==
  ASSUME FocusInv, SaverShowsOnPrimary, NEW S \in SUBSET Conn,
         forceLeaveClient(S)
  PROVE  /\ m_active' = IF m_active \in S THEN Primary ELSE m_active
         /\ primaryEntered' <=> (m_active' = Primary)
         /\ m_activeSaver' \in {m_activeSaver, NoScreen} \ S
<1>1. primaryEntered <=> (m_active = Primary)
  BY DEF FocusInv, OneScreenHasTheCursor
<1>2. Primary \notin S /\ NoScreen \notin S
  BY ScreensDistinct
<1>3. m_activeSaver # NoScreen => m_active = Primary
  BY DEF SaverShowsOnPrimary
<1>4. QED
  BY <1>1, <1>2, <1>3 DEF forceLeaveClient, Leaving, WasActive

LEMMA CalmStep ==
  ASSUME Calm
  PROVE  TypeOK /\ CalmInv /\ [Next]_vars => CalmInv'
<1> SUFFICES ASSUME TypeOK, CalmInv, [Next]_vars
             PROVE  FocusInv' /\ SaverShowsOnPrimary' /\ NoTimer'
  BY DEF CalmInv, FocusInv
<1> USE DEF serverVars, inputVars, clientVars, removeOldClient, DeleteProxy
<1> DEFINE Goal == FocusInv' /\ SaverShowsOnPrimary' /\ NoTimer'
<1>a. FocusInv /\ SaverShowsOnPrimary /\ NoTimer
  BY DEF CalmInv, FocusInv
\* A step that leaves the screens and their links alone.
<1>b. ASSUME UNCHANGED <<proxies, m_clientSet, m_oldClients, disconnecting,
                         up, entered, m_active, primaryEntered, link>>
      PROVE  FocusInv'
  BY <1>a, <1>b DEF FocusInv, ProxiesAccountedFor, ActiveIsServed, Screens,
     OneScreenHasTheCursor, Reaches, EntersAndLeavesAlternate, ServedStayOpen
<1>c. stopSwitch => NoTimer'
  BY <1>a DEF stopSwitch, NoTimer, pendingVars
<1>d. Primary \in Screens
  BY DEF Screens
<1>e. ASSUME InputArrives PROVE ~saverOn
  BY <1>a, <1>e DEF InputArrives, SaverShowsOnPrimary, Calm
<1>f. ASSUME ~saverOn, ~saverOn', m_activeSaver' = m_activeSaver
      PROVE  SaverShowsOnPrimary'
  BY <1>a, <1>f DEF SaverShowsOnPrimary
<1>1. ASSUME NEW s \in Screens, jumpToScreen(s) PROVE Goal
  <2>1. switchAccepted(s) \/ (switchRefused(s) /\ UNCHANGED pendingVars)
    BY <1>1 DEF jumpToScreen, switchScreen
  <2>2. FocusInv'
    <3>1. UNCHANGED <<proxies, m_clientSet, m_oldClients, disconnecting, up,
                      entered>>
      BY <1>1 DEF jumpToScreen
    <3>2. CASE switchAccepted(s)
      BY <1>a, <3>1, <3>2, SwitchKeepsFocus
    <3>3. CASE switchRefused(s)
      BY <1>b, <3>1, <3>3 DEF switchRefused, focusVars
    <3>4. QED  BY <2>1, <3>2, <3>3
  <2>3. NoTimer'
    BY <1>a, <1>c, <2>1 DEF switchAccepted, NoTimer, pendingVars
  <2>4. SaverShowsOnPrimary'
    BY <1>1, <1>e, <1>f DEF jumpToScreen
  <2>5. QED  BY <2>2, <2>3, <2>4
<1>2. CASE EdgeBlocked
  BY <1>2, <1>b, <1>c, <1>e, <1>f DEF EdgeBlocked, Motion, focusVars
<1>3. ASSUME NEW d \in Dir, NEW s \in Screens, NEW t \in BOOLEAN,
             EdgePending(d, s, t)
      PROVE  Goal
  <2>1. NoTimer'
    BY <1>3, <1>a DEF EdgePending, AwaitsTimer, Calm, NoTimer
  <2>2. QED  BY <1>3, <1>b, <1>e, <1>f, <2>1 DEF EdgePending, Motion, focusVars
<1>4. ASSUME NEW d \in Dir, NEW s \in Screens, NEW t \in BOOLEAN,
             EdgeSwitch(d, s, t)
      PROVE  Goal
  <2>1. FocusInv'
    BY <1>4, <1>a, SwitchKeepsFocus DEF EdgeSwitch
  <2>2. NoTimer'
    BY <1>4, <1>c DEF EdgeSwitch, switchAccepted
  <2>3. QED  BY <1>4, <1>e, <1>f, <2>1, <2>2 DEF EdgeSwitch, Motion
<1>5. ASSUME NEW d \in Dir, NEW t \in BOOLEAN, EdgeRefused(d, t) PROVE Goal
  BY <1>5, <1>a, <1>b, <1>e, <1>f
     DEF EdgeRefused, Motion, switchRefused, focusVars, NoTimer
<1>6. CASE noSwitch
  BY <1>6, <1>b, <1>e, <1>f DEF noSwitch, Motion, focusVars, NoTimer
<1>7. ASSUME NEW held \in BOOLEAN, handleSwitchWaitTimeout(held) PROVE Goal
  BY <1>7, <1>a DEF handleSwitchWaitTimeout, NoTimer
<1>8. CASE handleLockCursorToScreenEvent
  BY <1>8, <1>a, <1>b DEF handleLockCursorToScreenEvent, focusVars, NoTimer,
     pendingVars, SaverShowsOnPrimary, Screens
<1>9. CASE pauseForProfessionalInput
  <2>1. CASE m_active = Primary
    BY <1>9, <1>a, <1>b, <2>1 DEF pauseForProfessionalInput, focusVars,
       NoTimer, pendingVars, SaverShowsOnPrimary, Screens
  <2>2. CASE m_active # Primary
    <3>1. ~saverOn
      BY <1>a, <2>2 DEF SaverShowsOnPrimary
    <3>2. \/ switchAccepted(Primary)
          \/ UNCHANGED focusVars /\ UNCHANGED pendingVars
      BY <1>9, <2>2 DEF pauseForProfessionalInput, switchScreen, switchRefused
    <3>3. FocusInv'
      BY <1>9, <1>a, <1>b, <1>d, <3>2, SwitchKeepsFocus
         DEF pauseForProfessionalInput, focusVars
    <3>4. NoTimer'
      BY <1>a, <1>c, <3>2 DEF switchAccepted, NoTimer, pendingVars
    <3>5. QED  BY <1>9, <1>f, <3>1, <3>3, <3>4 DEF pauseForProfessionalInput
  <2>3. QED  BY <2>1, <2>2
<1>10. CASE professionalInputEnds
  BY <1>10, <1>a, <1>b DEF professionalInputEnds, focusVars, NoTimer,
     pendingVars, SaverShowsOnPrimary, Screens
<1>11. CASE ScreensaverOn
  <2>1. m_active \in Screens /\ Screens' = Screens
    BY <1>11, <1>a DEF FocusInv, ActiveIsServed, ScreensaverOn, Screens
  <2>2. CASE m_active = Primary
    BY <1>11, <1>a, <1>b, <2>1, <2>2 DEF ScreensaverOn, focusVars, NoTimer,
       pendingVars, SaverShowsOnPrimary
  <2>3. CASE m_active # Primary
    <3>1. switchAccepted(Primary)
      BY <1>11, <2>3 DEF ScreensaverOn, switchScreen, switchRefused, Calm
    <3>2. m_active' = Primary
      BY <2>3, <3>1 DEF switchAccepted, CutOver
    <3>3. FocusInv'
      BY <1>11, <1>a, <1>d, <3>1, SwitchKeepsFocus DEF ScreensaverOn
    <3>4. QED  BY <1>11, <1>c, <2>1, <3>1, <3>2, <3>3
                 DEF ScreensaverOn, switchAccepted, SaverShowsOnPrimary
  <2>4. QED  BY <2>2, <2>3
<1>12. CASE ScreensaverOff
  <2>1. SaverShowsOnPrimary'
    BY <1>12 DEF ScreensaverOff, SaverShowsOnPrimary
  <2>2. CASE m_activeSaver \in {NoScreen, Primary}
    BY <1>12, <1>a, <1>b, <2>1, <2>2
       DEF ScreensaverOff, focusVars, NoTimer, pendingVars
  <2>3. CASE m_activeSaver \notin {NoScreen, Primary}
    <3>1. m_activeSaver \in Screens
      BY <1>a, <2>3 DEF SaverShowsOnPrimary
    <3>2. switchAccepted(m_activeSaver)
      BY <1>12, <2>3 DEF ScreensaverOff, switchScreen, switchRefused
    <3>3. FocusInv'
      BY <1>12, <1>a, <3>1, <3>2, SwitchKeepsFocus DEF ScreensaverOff
    <3>4. QED  BY <1>c, <2>1, <3>2, <3>3 DEF switchAccepted
  <2>4. QED  BY <2>2, <2>3
<1>13. ASSUME NEW c \in Conn, adoptClient(c) PROVE Goal
  <2>1. /\ c \notin proxies /\ c \notin m_clientSet /\ c \notin m_oldClients
        /\ c # m_active /\ m_clientSet' = m_clientSet \union {c}
        /\ link'[c] = << >> /\ entered'[c] = FALSE
        /\ \A b \in Conn \ {c} :
             link'[b] = link[b] /\ entered'[b] = entered[b]
        /\ \A b \in Conn \ {c} : Reaches(b)' <=> Reaches(b)
        /\ UNCHANGED <<m_oldClients, m_active, primaryEntered>>
    BY <1>13, <1>a, ScreensDistinct DEF adoptClient, Connects, FocusInv,
       ProxiesAccountedFor, ActiveIsServed, Screens, Reaches, TypeOK
  <2>2. ProxiesAccountedFor'
    BY <1>13, <1>a, ProxiesStep DEF FocusInv
  <2>3. ActiveIsServed' /\ ServedStayOpen'
    BY <1>a, <2>1 DEF FocusInv, ActiveIsServed, Screens, ServedStayOpen, TypeOK
  <2>4. EntersAndLeavesAlternate'
    <3>1. Alternates(<< >>, FALSE)
      <4>1. Len(<< >>) = 0
        OBVIOUS
      <4>2. QED  BY <4>1 DEF Alternates
    <3>2. QED  BY <1>a, <2>1, <3>1 DEF FocusInv, EntersAndLeavesAlternate
  <2>5. OneScreenHasTheCursor'
    <3>1. EndsEntered(link[c], entered[c])' = FALSE
      BY <2>1 DEF EndsEntered
    <3>2. QED  BY <1>a, <2>1, <3>1 DEF FocusInv, OneScreenHasTheCursor, TypeOK,
                 EndsEntered
  <2>6. SaverShowsOnPrimary' /\ NoTimer'
    BY <1>13, <1>a DEF adoptClient, SaverShowsOnPrimary, NoTimer, pendingVars,
       Screens
  <2>7. QED  BY <2>2, <2>3, <2>4, <2>5, <2>6 DEF FocusInv
<1>14. ASSUME NEW c \in Conn, RefuseClient(c) PROVE Goal
  <2>1. /\ c \notin proxies /\ c \notin m_clientSet
        /\ c # m_active /\ c # m_activeSaver
    BY <1>14, <1>a, ScreensDistinct DEF RefuseClient, Connects, FocusInv,
       ProxiesAccountedFor, ActiveIsServed, SaverShowsOnPrimary, Screens
  <2>2. /\ m_active' = m_active /\ m_activeSaver' = m_activeSaver
        /\ primaryEntered' = primaryEntered
    BY <1>14, <2>1 DEF RefuseClient, forceLeaveClient, Leaving, WasActive,
       TypeOK
  <2>3. UNCHANGED pendingVars
    BY <1>14, <2>1 DEF RefuseClient, StopsWaiting, Leaving, WasActive
  <2>4. /\ link'[c] = <<"close">>
        /\ \A b \in Conn \ {c} :
             link'[b] = link[b] /\ entered'[b] = entered[b]
        /\ \A b \in Conn \ {c} : Reaches(b)' <=> Reaches(b)
        /\ m_clientSet' = m_clientSet /\ m_oldClients' = m_oldClients \union {c}
    BY <1>14 DEF RefuseClient, Connects, Reaches, TypeOK
  <2>5. ProxiesAccountedFor'
    BY <1>14, <1>a, ProxiesStep DEF FocusInv
  <2>6. ActiveIsServed' /\ ServedStayOpen'
    BY <1>a, <2>1, <2>2, <2>4
       DEF FocusInv, ActiveIsServed, Screens, ServedStayOpen, TypeOK
  <2>7. OneScreenHasTheCursor'
    <3>1. \A b \in m_clientSet :
            Reaches(b)' => (EndsEntered(link[b], entered[b])' <=> m_active' = b)
      BY <1>a, <2>1, <2>2, <2>4 DEF FocusInv, OneScreenHasTheCursor, TypeOK,
         EndsEntered
    <3>2. \A b \in m_oldClients' : Reaches(b)' =>
            link'[b] # << >> /\ link'[b][Len(link'[b])] = "close"
      <4>1. link'[c] # << >> /\ link'[c][Len(link'[c])] = "close"
        BY <2>4
      <4>2. QED  BY <1>a, <2>4, <4>1 DEF FocusInv, OneScreenHasTheCursor, TypeOK
    <3>3. QED  BY <1>a, <2>2, <2>4, <3>1, <3>2
                 DEF FocusInv, OneScreenHasTheCursor
  <2>8. EntersAndLeavesAlternate'
    <3>1. Alternates(<<"close">>, entered'[c])
      BY DEF Alternates
    <3>2. QED  BY <1>a, <2>4, <3>1 DEF FocusInv, EntersAndLeavesAlternate
  <2>9. SaverShowsOnPrimary' /\ NoTimer'
    BY <1>14, <1>a, <2>2, <2>3, <2>4 DEF RefuseClient, SaverShowsOnPrimary,
       NoTimer, pendingVars, Screens
  <2>10. QED  BY <2>5, <2>6, <2>7, <2>8, <2>9 DEF FocusInv
<1>15. ASSUME NEW names \in SUBSET Name, setConfig(names) PROVE Goal
  <2> DEFINE dropped == {c \in m_clientSet : NameOf[c] \notin names}
  <2>1. /\ dropped \in SUBSET Conn /\ dropped \subseteq m_clientSet
        /\ m_clientSet' = m_clientSet \ dropped
        /\ m_oldClients' = m_oldClients \union dropped
        /\ forceLeaveClient(dropped)
        /\ \A c \in Conn : link'[c] = IF c \in dropped
                                      THEN Sent(c, "close") ELSE link[c]
        /\ entered' = entered /\ saverOn' = saverOn
        /\ NoTimer'
        /\ \A c \in Conn : Reaches(c)' <=> Reaches(c)
    BY <1>15 DEF setConfig, TypeOK, NoTimer, Reaches
  <2> HIDE DEF dropped
  <2>2. /\ m_active' = IF m_active \in dropped THEN Primary ELSE m_active
        /\ primaryEntered' <=> (m_active' = Primary)
        /\ m_activeSaver' \in {m_activeSaver, NoScreen} \ dropped
    BY <1>a, <2>1, CalmForceLeave
  <2>3. ProxiesAccountedFor'
    BY <1>15, <1>a, ProxiesStep DEF FocusInv
  <2>4. ActiveIsServed' /\ SaverShowsOnPrimary'
    BY <1>a, <2>1, <2>2, ScreensDistinct
       DEF FocusInv, ActiveIsServed, SaverShowsOnPrimary, Screens
  <2>5. ServedStayOpen'
    BY <1>a, <2>1 DEF FocusInv, ServedStayOpen, TypeOK
  <2>6. ASSUME NEW c \in dropped
        PROVE  /\ Alternates(link'[c], entered'[c])
               /\ Reaches(c) => /\ link'[c] # << >>
                                /\ link'[c][Len(link'[c])] = "close"
    <3>1. /\ c \in m_clientSet /\ c \in Conn /\ link[c] \in Seq(Message)
          /\ entered[c] \in BOOLEAN /\ link'[c] = Sent(c, "close")
      BY <2>1 DEF TypeOK
    <3>2. /\ Alternates(link[c], entered[c])
          /\ link[c] # << >> => link[c][Len(link[c])] # "close"
      BY <1>a, <3>1
         DEF FocusInv, EntersAndLeavesAlternate, ServedStayOpen
    <3>3. /\ Alternates(Append(link[c], "close"), entered[c])
          /\ Append(link[c], "close") # << >>
          /\ Append(link[c], "close")[Len(Append(link[c], "close"))] = "close"
      BY <3>1, <3>2, AppendAlternates DEF Message
    <3>4. QED  BY <2>1, <3>1, <3>2, <3>3 DEF Sent
  <2>7. EntersAndLeavesAlternate'
    <3>1. ASSUME NEW c \in Conn PROVE Alternates(link'[c], entered'[c])
      BY <1>a, <2>1, <2>6 DEF FocusInv, EntersAndLeavesAlternate
    <3>2. QED  BY <3>1 DEF EntersAndLeavesAlternate
  <2>8. OneScreenHasTheCursor'
    <3>1. ASSUME NEW c \in m_clientSet', Reaches(c)'
          PROVE  EndsEntered(link'[c], entered'[c]) <=> m_active' = c
      <4>1. /\ c \in Conn /\ c \in m_clientSet /\ c \notin dropped
            /\ link'[c] = link[c]
        BY <2>1, <3>1 DEF TypeOK
      <4>2. EndsEntered(link[c], entered[c]) <=> m_active = c
        BY <1>a, <2>1, <3>1, <4>1 DEF FocusInv, OneScreenHasTheCursor
      <4>3. QED  BY <2>1, <2>2, <4>1, <4>2, ScreensDistinct
    <3>2. ASSUME NEW c \in m_oldClients', Reaches(c)'
          PROVE  link'[c] # << >> /\ link'[c][Len(link'[c])] = "close"
      <4>1. c \in Conn /\ Reaches(c)
        BY <2>1, <3>2 DEF TypeOK
      <4>2. CASE c \in dropped
        BY <2>6, <4>1, <4>2
      <4>3. CASE c \notin dropped
        BY <1>a, <2>1, <4>1, <4>3 DEF FocusInv, OneScreenHasTheCursor
      <4>4. QED  BY <4>2, <4>3
    <3>3. QED  BY <2>2, <3>1, <3>2 DEF OneScreenHasTheCursor, EndsEntered
  <2>9. QED  BY <2>1, <2>3, <2>4, <2>5, <2>7, <2>8 DEF FocusInv
<1>16. ASSUME NEW c \in Conn, ProxyDisconnects(c) PROVE Goal
  <2>1. /\ UNCHANGED <<m_clientSet, m_oldClients, m_active, primaryEntered,
                       link, entered, m_activeSaver, saverOn>>
        /\ \A b \in Conn : Reaches(b)' => Reaches(b)
        /\ NoTimer'
    BY <1>16, <1>a DEF ProxyDisconnects, focusVars, pendingVars, Reaches,
       NoTimer
  <2>2. ProxiesAccountedFor'
    BY <1>16, <1>a, ProxiesStep DEF FocusInv
  <2>3. OneScreenHasTheCursor'
    BY <1>a, <2>1 DEF FocusInv, OneScreenHasTheCursor, TypeOK, EndsEntered
  <2>4. QED  BY <1>a, <2>1, <2>2, <2>3 DEF FocusInv, ActiveIsServed, Screens,
               EntersAndLeavesAlternate, ServedStayOpen, SaverShowsOnPrimary
<1>17. ASSUME NEW c \in Conn, handleClientDisconnected(c) PROVE Goal
  <2>1. /\ m_clientSet' = m_clientSet \ {c}
        /\ m_oldClients' = m_oldClients \ {c}
        /\ UNCHANGED <<link, entered, saverOn>>
        /\ \A b \in Conn \ {c} : Reaches(b)' <=> Reaches(b)
        /\ c \in proxies
    BY <1>17, <1>a DEF handleClientDisconnected, Reaches, FocusInv,
       ProxiesAccountedFor
  <2>2. /\ m_active' = IF m_active \in {c} THEN Primary ELSE m_active
        /\ primaryEntered' <=> (m_active' = Primary)
        /\ m_activeSaver' \in {m_activeSaver, NoScreen} \ {c}
    <3>1. CASE c \in m_clientSet
      BY <1>17, <1>a, <3>1, CalmForceLeave DEF handleClientDisconnected
    <3>2. CASE c \notin m_clientSet
      BY <1>17, <1>a, <3>2, ScreensDistinct DEF handleClientDisconnected,
         FocusInv, ActiveIsServed, SaverShowsOnPrimary, Screens,
         OneScreenHasTheCursor
    <3>3. QED  BY <3>1, <3>2
  <2>3. ProxiesAccountedFor'
    BY <1>17, <1>a, ProxiesStep DEF FocusInv
  <2>4. ActiveIsServed' /\ SaverShowsOnPrimary'
    BY <1>a, <2>1, <2>2, ScreensDistinct
       DEF FocusInv, ActiveIsServed, SaverShowsOnPrimary, Screens
  <2>5. ServedStayOpen' /\ EntersAndLeavesAlternate'
    BY <1>a, <2>1 DEF FocusInv, ServedStayOpen, EntersAndLeavesAlternate
  <2>6. OneScreenHasTheCursor'
    BY <1>a, <2>1, <2>2, ScreensDistinct
       DEF FocusInv, OneScreenHasTheCursor, TypeOK, EndsEntered
  <2>7. NoTimer'
    BY <1>17, <1>a, <1>c DEF handleClientDisconnected, NoTimer, pendingVars
  <2>8. QED  BY <2>3, <2>4, <2>5, <2>6, <2>7 DEF FocusInv
<1>18. ASSUME NEW c \in Conn, handleClientCloseTimeout(c) PROVE Goal
  <2>1. /\ UNCHANGED <<m_clientSet, m_active, primaryEntered,
                       link, entered, m_activeSaver, saverOn>>
        /\ m_oldClients' = m_oldClients \ {c} /\ c \notin m_clientSet
        /\ \A b \in Conn \ {c} : Reaches(b)' <=> Reaches(b)
        /\ NoTimer'
    BY <1>18, <1>a DEF handleClientCloseTimeout, focusVars, pendingVars,
       Reaches, NoTimer, FocusInv, ProxiesAccountedFor
  <2>2. ProxiesAccountedFor'
    BY <1>18, <1>a, ProxiesStep DEF FocusInv
  <2>3. OneScreenHasTheCursor'
    BY <1>a, <2>1 DEF FocusInv, OneScreenHasTheCursor, TypeOK, EndsEntered
  <2>4. QED  BY <1>a, <2>1, <2>2, <2>3 DEF FocusInv, ActiveIsServed, Screens,
               EntersAndLeavesAlternate, ServedStayOpen, SaverShowsOnPrimary
<1>19. ASSUME NEW c \in Conn, ClientReceives(c) PROVE Goal
  <2>1. /\ link[c] \in Seq(Message) /\ link[c] # << >>
        /\ Head(link[c]) \in {"enter", "leave"} /\ entered[c] \in BOOLEAN
        /\ link'[c] = Tail(link[c])
        /\ entered'[c] = (Head(link[c]) = "enter")
        /\ \A b \in Conn \ {c} :
             link'[b] = link[b] /\ entered'[b] = entered[b]
        /\ \A b \in Conn : Reaches(b)' <=> Reaches(b)
        /\ UNCHANGED <<m_clientSet, m_oldClients, m_active, primaryEntered,
                       m_activeSaver, saverOn>>
        /\ NoTimer'
    BY <1>19, <1>a DEF ClientReceives, Reaches, TypeOK, NoTimer, pendingVars
  <2>2. /\ Alternates(link'[c], entered'[c])
        /\ EndsEntered(link'[c], entered'[c])
             <=> EndsEntered(link[c], entered[c])
        /\ link'[c] # << >> => link'[c][Len(link'[c])] = link[c][Len(link[c])]
        /\ link[c][Len(link[c])] = "close" => link'[c] # << >>
    BY <1>a, <2>1, TailAlternates DEF FocusInv, EntersAndLeavesAlternate
  <2>3. ProxiesAccountedFor'
    BY <1>19, <1>a, ProxiesStep DEF FocusInv
  <2>4. OneScreenHasTheCursor'
    <3>1. ASSUME NEW b \in m_clientSet', Reaches(b)'
          PROVE  EndsEntered(link'[b], entered'[b]) <=> m_active' = b
      <4>1. b \in m_clientSet /\ b \in Conn /\ Reaches(b)
        BY <2>1, <3>1 DEF TypeOK
      <4>2. EndsEntered(link[b], entered[b]) <=> m_active = b
        BY <1>a, <4>1 DEF FocusInv, OneScreenHasTheCursor
      <4>3. QED  BY <2>1, <2>2, <4>1, <4>2
    <3>2. ASSUME NEW b \in m_oldClients', Reaches(b)'
          PROVE  link'[b] # << >> /\ link'[b][Len(link'[b])] = "close"
      <4>1. b \in m_oldClients /\ b \in Conn /\ Reaches(b)
        BY <2>1, <3>2 DEF TypeOK
      <4>2. link[b] # << >> /\ link[b][Len(link[b])] = "close"
        BY <1>a, <4>1 DEF FocusInv, OneScreenHasTheCursor
      <4>3. QED  BY <2>1, <2>2, <4>1, <4>2
    <3>3. primaryEntered' <=> (m_active' = Primary)
      BY <1>a, <2>1 DEF FocusInv, OneScreenHasTheCursor
    <3>4. QED  BY <3>1, <3>2, <3>3 DEF OneScreenHasTheCursor, EndsEntered
  <2>5. ServedStayOpen'
    BY <1>a, <2>1, <2>2 DEF FocusInv, ServedStayOpen, TypeOK
  <2>6. EntersAndLeavesAlternate'
    BY <1>a, <2>1, <2>2 DEF FocusInv, EntersAndLeavesAlternate
  <2>7. QED  BY <1>a, <2>1, <2>3, <2>4, <2>5, <2>6 DEF FocusInv,
               ActiveIsServed, Screens, SaverShowsOnPrimary
<1>20. ASSUME NEW c \in Conn, ClientDrops(c) PROVE Goal
  <2>1. /\ link'[c] = << >> /\ entered'[c] = FALSE /\ ~Reaches(c)'
        /\ \A b \in Conn \ {c} :
             link'[b] = link[b] /\ entered'[b] = entered[b]
        /\ \A b \in Conn \ {c} : Reaches(b)' <=> Reaches(b)
        /\ UNCHANGED <<m_clientSet, m_oldClients, m_active, primaryEntered,
                       m_activeSaver, saverOn>>
        /\ NoTimer'
    BY <1>20, <1>a DEF ClientDrops, Reaches, TypeOK, NoTimer, pendingVars
  <2>2. ProxiesAccountedFor'
    BY <1>20, <1>a, ProxiesStep DEF FocusInv
  <2>3. OneScreenHasTheCursor'
    BY <1>a, <2>1 DEF FocusInv, OneScreenHasTheCursor, TypeOK, EndsEntered
  <2>4. ServedStayOpen'
    BY <1>a, <2>1 DEF FocusInv, ServedStayOpen, TypeOK
  <2>5. EntersAndLeavesAlternate'
    <3>1. Alternates(<< >>, FALSE)
      <4>1. Len(<< >>) = 0
        OBVIOUS
      <4>2. QED  BY <4>1 DEF Alternates
    <3>2. QED  BY <1>a, <2>1, <3>1 DEF FocusInv, EntersAndLeavesAlternate
  <2>6. QED  BY <1>a, <2>1, <2>2, <2>3, <2>4, <2>5 DEF FocusInv,
               ActiveIsServed, Screens, SaverShowsOnPrimary
<1>21. CASE UNCHANGED vars
  BY <1>21, <1>a, <1>b DEF vars, NoTimer, SaverShowsOnPrimary, Screens
<1>22. QED
  BY <1>1, <1>2, <1>3, <1>4, <1>5, <1>6, <1>7, <1>8, <1>9, <1>10, <1>11,
     <1>12, <1>13, <1>14, <1>15, <1>16, <1>17, <1>18, <1>19, <1>20, <1>21
     DEF Next

LEMMA CalmInvariant == ASSUME Calm PROVE Spec => []CalmInv
<1>1. Init => CalmInv
  <2>1. Alternates(<< >>, FALSE)
    <3>1. Len(<< >>) = 0
      OBVIOUS
    <3>2. QED  BY <3>1 DEF Alternates
  <2>2. QED
    BY <2>1 DEF Init, CalmInv, ProxiesAccountedFor, ActiveIsServed, Screens,
       OneScreenHasTheCursor, EntersAndLeavesAlternate, SaverShowsOnPrimary,
       NoTimer, ServedStayOpen, Reaches
<1>2. TypeOK /\ CalmInv /\ [Next]_vars => CalmInv'
  BY CalmStep
<1>3. QED  BY <1>1, <1>2, TypeCorrect, PTL DEF Spec

\* With no switching delay, and no input or display sleep while the primary's
\* screen saver is on, the screen that has the keyboard and mouse is always one
\* that Server::m_clients serves.
THEOREM CalmActiveIsServed == ASSUME Calm PROVE Spec => []ActiveIsServed
<1>1. CalmInv => ActiveIsServed
  BY DEF CalmInv
<1>2. QED  BY <1>1, CalmInvariant, PTL

\* Under the same conditions exactly the active screen has been entered, once
\* the messages under way have arrived, and a closing client has been told.
THEOREM CalmOneScreenHasTheCursor ==
  ASSUME Calm PROVE Spec => []OneScreenHasTheCursor
<1>1. CalmInv => OneScreenHasTheCursor
  BY DEF CalmInv
<1>2. QED  BY <1>1, CalmInvariant, PTL

\* Under the same conditions no client is told to enter or leave twice in a
\* row, nor anything after it was told to close.
THEOREM CalmEntersAndLeavesAlternate ==
  ASSUME Calm PROVE Spec => []EntersAndLeavesAlternate
<1>1. CalmInv => EntersAndLeavesAlternate
  BY DEF CalmInv
<1>2. QED  BY <1>1, CalmInvariant, PTL

(***************************************************************************)
(* Calm, ScreenSwitch implements Focus: a step that moves the cursor is a  *)
(* Move, one that takes a client on is a Join, one that drops clients is a *)
(* Part, and all others do not change what Focus sees.                     *)
(***************************************************************************)
LEMMA SwitchMoves ==
  ASSUME NEW dst \in Screens, switchScreen(dst), m_clientSet \subseteq Conn,
         m_clientSet' = m_clientSet
  PROVE  [F!Next]_F!vars
<1>1. m_active' = m_active \/ m_active' = dst
  BY DEF switchScreen, switchAccepted, switchRefused, CutOver, focusVars
<1>2. CASE m_active' = dst
  <2>1. F!Move(dst) /\ dst \in Conn \union {Primary}
    BY <1>2 DEF F!Move, Screens
  <2>2. QED  BY <2>1 DEF F!Next
<1>3. QED  BY <1>1, <1>2 DEF F!vars

LEMMA CalmRefinement ==
  ASSUME Calm
  PROVE  TypeOK /\ CalmInv /\ [Next]_vars => [F!Next]_F!vars
<1> SUFFICES ASSUME TypeOK, CalmInv, [Next]_vars PROVE [F!Next]_F!vars
  OBVIOUS
<1> USE DEF serverVars, inputVars, clientVars, removeOldClient, DeleteProxy
<1>a. FocusInv /\ SaverShowsOnPrimary /\ NoTimer
  BY DEF CalmInv, FocusInv
<1>b. Primary \in Screens /\ m_clientSet \subseteq Conn
  BY DEF Screens, TypeOK
<1>c. ASSUME UNCHANGED <<m_clientSet, m_active>> PROVE [F!Next]_F!vars
  BY <1>c DEF F!vars
<1>1. ASSUME NEW s \in Screens, jumpToScreen(s) PROVE [F!Next]_F!vars
  <2>1. switchScreen(s) /\ m_clientSet' = m_clientSet
    BY <1>1 DEF jumpToScreen
  <2>2. QED  BY <1>b, <2>1, SwitchMoves
<1>2. ASSUME NEW d \in Dir, NEW s \in Screens, NEW t \in BOOLEAN,
             EdgeSwitch(d, s, t)
      PROVE  [F!Next]_F!vars
  <2>1. switchScreen(s) /\ m_clientSet' = m_clientSet
    BY <1>2 DEF EdgeSwitch, switchScreen
  <2>2. QED  BY <1>b, <2>1, SwitchMoves
<1>3. CASE \/ EdgeBlocked
           \/ \E d \in Dir, s \in Screens, t \in BOOLEAN : EdgePending(d, s, t)
           \/ \E d \in Dir, t \in BOOLEAN : EdgeRefused(d, t)
           \/ noSwitch \/ handleLockCursorToScreenEvent
           \/ professionalInputEnds
           \/ \E c \in Conn : ProxyDisconnects(c)
           \/ \E c \in Conn : handleClientCloseTimeout(c)
           \/ \E c \in Conn : ClientReceives(c)
           \/ \E c \in Conn : ClientDrops(c)
           \/ UNCHANGED vars
  <2>1. UNCHANGED <<m_clientSet, m_active>>
    BY <1>3 DEF EdgeBlocked, EdgePending, EdgeRefused, switchRefused, noSwitch,
       handleLockCursorToScreenEvent, professionalInputEnds, ProxyDisconnects,
       handleClientCloseTimeout, ClientReceives, ClientDrops, vars, focusVars
  <2>2. QED  BY <1>c, <2>1
<1>4. ASSUME NEW held \in BOOLEAN, handleSwitchWaitTimeout(held)
      PROVE  [F!Next]_F!vars
  BY <1>4, <1>a DEF handleSwitchWaitTimeout, NoTimer
<1>5. CASE pauseForProfessionalInput \/ ScreensaverOn
  <2>1. m_clientSet' = m_clientSet
    BY <1>5 DEF pauseForProfessionalInput, ScreensaverOn
  <2>2. switchScreen(Primary) \/ UNCHANGED focusVars
    BY <1>5 DEF pauseForProfessionalInput, ScreensaverOn
  <2>3. QED  BY <1>b, <1>c, <2>1, <2>2, SwitchMoves DEF focusVars
<1>6. CASE ScreensaverOff
  <2>1. m_clientSet' = m_clientSet
    BY <1>6 DEF ScreensaverOff
  <2>2. CASE m_activeSaver \in {NoScreen, Primary}
    BY <1>6, <1>c, <2>1, <2>2 DEF ScreensaverOff, focusVars
  <2>3. CASE m_activeSaver \notin {NoScreen, Primary}
    <3>1. m_activeSaver \in Screens /\ switchScreen(m_activeSaver)
      BY <1>6, <1>a, <2>3 DEF ScreensaverOff, SaverShowsOnPrimary
    <3>2. QED  BY <1>b, <2>1, <3>1, SwitchMoves
  <2>4. QED  BY <2>2, <2>3
<1>7. ASSUME NEW c \in Conn, adoptClient(c) PROVE [F!Next]_F!vars
  <2>1. F!Join(c)
    BY <1>7, <1>a DEF adoptClient, Connects, FocusInv, ProxiesAccountedFor,
       F!Join
  <2>2. QED  BY <2>1 DEF F!Next
<1>8. ASSUME NEW c \in Conn, RefuseClient(c) PROVE [F!Next]_F!vars
  <2>1. c # m_active /\ c # m_activeSaver
    BY <1>8, <1>a, ScreensDistinct DEF RefuseClient, Connects, FocusInv,
       ProxiesAccountedFor, ActiveIsServed, SaverShowsOnPrimary, Screens
  <2>2. m_active' = m_active
    BY <1>8, <2>1 DEF RefuseClient, forceLeaveClient, Leaving, WasActive
  <2>3. QED  BY <1>8, <1>c, <2>2 DEF RefuseClient
<1>9. ASSUME NEW names \in SUBSET Name, setConfig(names)
      PROVE  [F!Next]_F!vars
  <2> DEFINE dropped == {c \in m_clientSet : NameOf[c] \notin names}
  <2>1. /\ dropped \in SUBSET Conn /\ dropped \subseteq m_clientSet
        /\ m_clientSet' = m_clientSet \ dropped
        /\ forceLeaveClient(dropped)
    BY <1>9, <1>b DEF setConfig
  <2> HIDE DEF dropped
  <2>2. m_active' = IF m_active \in dropped THEN Primary ELSE m_active
    BY <1>a, <2>1, CalmForceLeave
  <2>3. F!Part(dropped)
    BY <2>1, <2>2 DEF F!Part
  <2>4. QED  BY <2>1, <2>3 DEF F!Next
<1>10. ASSUME NEW c \in Conn, handleClientDisconnected(c)
       PROVE  [F!Next]_F!vars
  <2>1. CASE c \in m_clientSet
    <3>1. /\ {c} \in SUBSET Conn /\ forceLeaveClient({c})
          /\ m_clientSet' = m_clientSet \ {c}
      BY <1>10, <2>1 DEF handleClientDisconnected
    <3>2. m_active' = IF m_active \in {c} THEN Primary ELSE m_active
      BY <1>a, <3>1, CalmForceLeave
    <3>3. F!Part({c})
      BY <2>1, <3>1, <3>2 DEF F!Part
    <3>4. QED  BY <3>1, <3>3 DEF F!Next
  <2>2. CASE c \notin m_clientSet
    BY <1>10, <1>c, <2>2 DEF handleClientDisconnected
  <2>3. QED  BY <2>1, <2>2
<1>11. QED
  BY <1>1, <1>2, <1>3, <1>4, <1>5, <1>6, <1>7, <1>8, <1>9, <1>10 DEF Next

\* ImplementsFocus: under the same conditions there is always one screen that
\* has the keyboard and mouse, it is there, and it is the server's own again
\* when the screen that had them goes.
THEOREM CalmImplementsFocus == ASSUME Calm PROVE Spec => ImplementsFocus
<1>1. Init => F!Init
  BY DEF Init, F!Init
<1>2. QED
  BY <1>1, CalmRefinement, CalmInvariant, TypeCorrect, PTL
     DEF Spec, F!Spec, ImplementsFocus

-----------------------------------------------------------------------------
(***************************************************************************)
(* The life of the server in its application (ServerLife).                 *)
(* What a queue of events holds: after an event is taken, and after one is *)
(* added.                                                                  *)
(***************************************************************************)
Elements(q) == {q[i] : i \in 1 .. Len(q)}
Once(S, q) == \A i, j \in 1 .. Len(q) : q[i] \in S /\ q[j] \in S => i = j

\* Among the events: one ServerDisconnected, and no client of who goes before it.
DisconnectedWaits(q, who) ==
  \E k \in 1 .. Len(q) :
    /\ q[k] = Plain("disconnected")
    /\ \A i \in 1 .. Len(q) : q[i] = Plain("disconnected") => i = k
    /\ \A i \in 1 .. Len(q) : i < k => \A g \in who : q[i] # <<"gone", g>>

\* Among the events: one that ends the inner loop, and no ServerDisconnected before it.
QuitWaits(q) ==
  \E k \in 1 .. Len(q) :
    /\ q[k] = Plain("quit")
    /\ \A i \in 1 .. Len(q) : q[i] = Plain("quit") => i = k
    /\ \A i \in 1 .. Len(q) : i < k => q[i] # Plain("disconnected")

LEMMA EventsDiffer ==
  /\ Orders \subseteq LifeEvent
  /\ Plain("quit") \in LifeEvent \ Orders /\ Plain("disconnected") \in LifeEvent \ Orders
  /\ Plain("quit") # Plain("disconnected")
  /\ Plain("suspend") # Plain("resume") /\ Plain("suspend") # Plain("askedQuit")
  /\ Plain("resume") # Plain("askedQuit")
  /\ \A g \in Guest : /\ <<"accepted", g>> \in LifeEvent \ Orders
                      /\ <<"accepted", g>> # Plain("quit")
                      /\ <<"accepted", g>> # Plain("disconnected")
                      /\ <<"gone", g>> \in LifeEvent \ Orders
                      /\ <<"gone", g>> # Plain("quit")
                      /\ <<"gone", g>> # Plain("disconnected")
  /\ \A g, h \in Guest : /\ <<"accepted", g>> # <<"gone", h>>
                         /\ <<"accepted", g>> = <<"accepted", h>> => g = h
                         /\ <<"gone", g>> = <<"gone", h>> => g = h
<1>1. \A s, t : Plain(s) = Plain(t) => s = t
  <2> SUFFICES ASSUME NEW s, NEW t, Plain(s) = Plain(t)
               PROVE  s = t
    OBVIOUS
  <2>1. Plain(s)[1] = s /\ Plain(t)[1] = t
    BY DEF Plain
  <2> QED BY <2>1
<1>2. \A s, e, g : Plain(s) # <<e, g>>
  <2> SUFFICES ASSUME NEW s, NEW e, NEW g, Plain(s) = <<e, g>>
               PROVE  FALSE
    OBVIOUS
  <2>1. Len(Plain(s)) = 1 /\ Len(<<e, g>>) = 2
    BY DEF Plain
  <2> QED BY <2>1
<1>3. \A d, e, g, h : <<d, g>> = <<e, h>> => d = e /\ g = h
  OBVIOUS
<1>4. Orders = {Plain("suspend"), Plain("resume"), Plain("askedQuit")}
  BY DEF Orders
<1>5. /\ Orders \subseteq LifeEvent
      /\ Plain("quit") \in LifeEvent /\ Plain("disconnected") \in LifeEvent
      /\ \A g \in Guest : <<"accepted", g>> \in LifeEvent /\ <<"gone", g>> \in LifeEvent
  BY DEF LifeEvent
<1>6. /\ Plain("quit") \notin Orders /\ Plain("disconnected") \notin Orders
      /\ Plain("quit") # Plain("disconnected")
      /\ Plain("suspend") # Plain("resume") /\ Plain("suspend") # Plain("askedQuit")
      /\ Plain("resume") # Plain("askedQuit")
  BY <1>1, <1>4
<1>7. \A g \in Guest : /\ <<"accepted", g>> \notin Orders /\ <<"gone", g>> \notin Orders
                       /\ <<"accepted", g>> # Plain("quit")
                       /\ <<"accepted", g>> # Plain("disconnected")
                       /\ <<"gone", g>> # Plain("quit")
                       /\ <<"gone", g>> # Plain("disconnected")
  BY <1>2, <1>4
<1>8. \A g, h \in Guest : /\ <<"accepted", g>> # <<"gone", h>>
                          /\ <<"accepted", g>> = <<"accepted", h>> => g = h
                          /\ <<"gone", g>> = <<"gone", h>> => g = h
  BY <1>3
<1> QED BY <1>5, <1>6, <1>7, <1>8

LEMMA Taken ==
  ASSUME NEW q \in Seq(LifeEvent), q # << >>
  PROVE  /\ Head(q) \in LifeEvent /\ Tail(q) \in Seq(LifeEvent)
         /\ Len(q) \in Nat \ {0} /\ Len(Tail(q)) = Len(q) - 1
         /\ q[1] = Head(q) /\ 1 \in 1 .. Len(q)
         /\ \A i \in 1 .. Len(Tail(q)) : i + 1 \in 1 .. Len(q) /\ Tail(q)[i] = q[i + 1]
         /\ \A i \in 1 .. Len(q) : i # 1 => i - 1 \in 1 .. Len(Tail(q)) /\ Tail(q)[i - 1] = q[i]
OBVIOUS

LEMMA Added ==
  ASSUME NEW q \in Seq(LifeEvent), NEW e \in LifeEvent
  PROVE  /\ Append(q, e) \in Seq(LifeEvent)
         /\ Len(q) \in Nat /\ Len(Append(q, e)) = Len(q) + 1
         /\ Append(q, e)[Len(q) + 1] = e /\ Len(q) + 1 \in 1 .. Len(q) + 1
         /\ \A i \in 1 .. Len(q) : i \in 1 .. Len(q) + 1 /\ Append(q, e)[i] = q[i]
         /\ \A i \in 1 .. Len(q) + 1 : i \in 1 .. Len(q) \/ i = Len(q) + 1
OBVIOUS

LEMMA TakenElements ==
  ASSUME NEW q \in Seq(LifeEvent), q # << >>
  PROVE  Elements(q) = Elements(Tail(q)) \union {Head(q)}
<1>1. PICK r : r = Tail(q)
  OBVIOUS
<1>2. /\ Head(q) = q[1] /\ 1 \in 1 .. Len(q)
      /\ \A i \in 1 .. Len(r) : i + 1 \in 1 .. Len(q) /\ r[i] = q[i + 1]
      /\ \A i \in 1 .. Len(q) : i # 1 => i - 1 \in 1 .. Len(r) /\ r[i - 1] = q[i]
  BY <1>1, Taken
<1>3. \A e \in Elements(q) : e \in Elements(r) \/ e = Head(q)
  <2> SUFFICES ASSUME NEW i \in 1 .. Len(q), q[i] # Head(q)
               PROVE  q[i] \in Elements(r)
    BY DEF Elements
  <2>1. i - 1 \in 1 .. Len(r) /\ r[i - 1] = q[i]
    BY <1>2
  <2> QED BY <2>1 DEF Elements
<1>4. \A e \in Elements(r) : e \in Elements(q)
  <2> SUFFICES ASSUME NEW i \in 1 .. Len(r)
               PROVE  r[i] \in Elements(q)
    BY DEF Elements
  <2>1. i + 1 \in 1 .. Len(q) /\ r[i] = q[i + 1]
    BY <1>2
  <2> QED BY <2>1 DEF Elements
<1>5. Head(q) \in Elements(q)
  BY <1>2 DEF Elements
<1> QED BY <1>1, <1>3, <1>4, <1>5

LEMMA AddedElements ==
  ASSUME NEW q \in Seq(LifeEvent), NEW e \in LifeEvent
  PROVE  Elements(Append(q, e)) = Elements(q) \union {e}
<1>1. PICK r : r = Append(q, e)
  OBVIOUS
<1>2. /\ Len(r) = Len(q) + 1 /\ r[Len(q) + 1] = e /\ Len(q) + 1 \in 1 .. Len(r)
      /\ \A i \in 1 .. Len(q) : i \in 1 .. Len(r) /\ r[i] = q[i]
      /\ \A i \in 1 .. Len(r) : i \in 1 .. Len(q) \/ i = Len(q) + 1
  BY <1>1, Added
<1>3. \A d \in Elements(r) : d \in Elements(q) \/ d = e
  <2> SUFFICES ASSUME NEW i \in 1 .. Len(r), r[i] # e
               PROVE  r[i] \in Elements(q)
    BY DEF Elements
  <2>1. i \in 1 .. Len(q) /\ r[i] = q[i]
    BY <1>2
  <2> QED BY <2>1 DEF Elements
<1>4. \A d \in Elements(q) : d \in Elements(r)
  <2> SUFFICES ASSUME NEW i \in 1 .. Len(q)
               PROVE  q[i] \in Elements(r)
    BY DEF Elements
  <2>1. i \in 1 .. Len(r) /\ r[i] = q[i]
    BY <1>2
  <2> QED BY <2>1 DEF Elements
<1>5. e \in Elements(r)
  BY <1>2 DEF Elements
<1> QED BY <1>1, <1>3, <1>4, <1>5

LEMMA OnceTaken ==
  ASSUME NEW q \in Seq(LifeEvent), q # << >>, NEW S, Once(S, q)
  PROVE  /\ Once(S, Tail(q))
         /\ Head(q) \in S => \A e \in Elements(Tail(q)) : e \notin S
<1>1. PICK r : r = Tail(q)
  OBVIOUS
<1>2. /\ Head(q) = q[1] /\ 1 \in 1 .. Len(q) /\ Len(r) \in Nat
      /\ \A i \in 1 .. Len(r) : i + 1 \in 1 .. Len(q) /\ r[i] = q[i + 1]
  BY <1>1, Taken
<1>3. Once(S, r)
  <2> SUFFICES ASSUME NEW i \in 1 .. Len(r), NEW j \in 1 .. Len(r), r[i] \in S, r[j] \in S
               PROVE  i = j
    BY DEF Once
  <2>1. i + 1 = j + 1
    BY <1>2 DEF Once
  <2> QED BY <2>1
<1>4. ASSUME Head(q) \in S, NEW i \in 1 .. Len(r)
      PROVE  r[i] \notin S
  <2>1. i + 1 \in 1 .. Len(q) /\ r[i] = q[i + 1] /\ i + 1 # 1
    BY <1>2
  <2> QED BY <2>1, <1>2, <1>4 DEF Once
<1> QED BY <1>1, <1>3, <1>4 DEF Elements

LEMMA OnceAdded ==
  ASSUME NEW q \in Seq(LifeEvent), NEW e \in LifeEvent, NEW S, Once(S, q),
         e \in S => \A d \in Elements(q) : d \notin S
  PROVE  Once(S, Append(q, e))
<1>1. PICK r : r = Append(q, e)
  OBVIOUS
<1>2. /\ Len(r) = Len(q) + 1 /\ r[Len(q) + 1] = e
      /\ \A i \in 1 .. Len(q) : r[i] = q[i]
      /\ \A i \in 1 .. Len(r) : i \in 1 .. Len(q) \/ i = Len(q) + 1
  BY <1>1, Added
<1>3. \A i \in 1 .. Len(q) : e \in S => r[i] \notin S
  BY <1>2 DEF Elements
<1> SUFFICES ASSUME NEW i \in 1 .. Len(r), NEW j \in 1 .. Len(r), r[i] \in S, r[j] \in S
             PROVE  i = j
  BY <1>1 DEF Once
<1>4. CASE i \in 1 .. Len(q) /\ j \in 1 .. Len(q)
  BY <1>4, <1>2 DEF Once
<1>5. CASE i = Len(q) + 1
  BY <1>5, <1>2, <1>3
<1>6. CASE j = Len(q) + 1
  BY <1>6, <1>2, <1>3
<1> QED BY <1>2, <1>4, <1>5, <1>6

LEMMA DisconnectedTaken ==
  ASSUME NEW q \in Seq(LifeEvent), q # << >>, NEW who, DisconnectedWaits(q, who)
  PROVE  /\ Head(q) # Plain("disconnected") =>
              /\ DisconnectedWaits(Tail(q), who)
              /\ \A g \in who : Head(q) # <<"gone", g>>
         /\ Head(q) = Plain("disconnected") => Plain("disconnected") \notin Elements(Tail(q))
<1>1. PICK r : r = Tail(q)
  OBVIOUS
<1>2. /\ Head(q) = q[1] /\ 1 \in 1 .. Len(q) /\ Len(r) \in Nat
      /\ \A i \in 1 .. Len(r) : i + 1 \in 1 .. Len(q) /\ r[i] = q[i + 1]
      /\ \A i \in 1 .. Len(q) : i # 1 => i - 1 \in 1 .. Len(r) /\ r[i - 1] = q[i]
  BY <1>1, Taken
<1>3. PICK k \in 1 .. Len(q) :
        /\ q[k] = Plain("disconnected")
        /\ \A i \in 1 .. Len(q) : q[i] = Plain("disconnected") => i = k
        /\ \A i \in 1 .. Len(q) : i < k => \A g \in who : q[i] # <<"gone", g>>
  BY DEF DisconnectedWaits
<1>4. ASSUME Head(q) # Plain("disconnected")
      PROVE  DisconnectedWaits(r, who) /\ \A g \in who : Head(q) # <<"gone", g>>
  <2>1. k # 1 /\ 1 < k
    BY <1>2, <1>3, <1>4
  <2>2. k - 1 \in 1 .. Len(r) /\ r[k - 1] = Plain("disconnected")
    BY <2>1, <1>2, <1>3
  <2>3. \A i \in 1 .. Len(r) : r[i] = Plain("disconnected") => i = k - 1
    <3> SUFFICES ASSUME NEW i \in 1 .. Len(r), r[i] = Plain("disconnected")
                 PROVE  i = k - 1
      OBVIOUS
    <3>1. i + 1 \in 1 .. Len(q) /\ q[i + 1] = Plain("disconnected")
      BY <1>2
    <3>2. i + 1 = k
      BY <3>1, <1>3
    <3>3. i \in Nat /\ k \in Nat
      OBVIOUS
    <3> QED BY <3>2, <3>3
  <2>4. \A i \in 1 .. Len(r) : i < k - 1 => \A g \in who : r[i] # <<"gone", g>>
    <3> SUFFICES ASSUME NEW i \in 1 .. Len(r), i < k - 1, NEW g \in who
                 PROVE  r[i] # <<"gone", g>>
      OBVIOUS
    <3>1. i + 1 \in 1 .. Len(q) /\ i + 1 < k /\ r[i] = q[i + 1]
      BY <1>2
    <3> QED BY <3>1, <1>3
  <2>5. DisconnectedWaits(r, who)
    BY <2>2, <2>3, <2>4 DEF DisconnectedWaits
  <2> QED BY <2>1, <2>5, <1>2, <1>3
<1>5. ASSUME Head(q) = Plain("disconnected"), NEW i \in 1 .. Len(r)
      PROVE  r[i] # Plain("disconnected")
  <2>1. i + 1 \in 1 .. Len(q) /\ r[i] = q[i + 1] /\ i + 1 # 1
    BY <1>2
  <2>2. k = 1
    BY <1>2, <1>3, <1>5
  <2> QED BY <2>1, <2>2, <1>3
<1> QED BY <1>1, <1>4, <1>5 DEF Elements

LEMMA DisconnectedAdded ==
  ASSUME NEW q \in Seq(LifeEvent), NEW e \in LifeEvent, NEW who
  PROVE  /\ DisconnectedWaits(q, who) /\ e # Plain("disconnected")
              => DisconnectedWaits(Append(q, e), who)
         /\ /\ Plain("disconnected") \notin Elements(q) /\ e = Plain("disconnected")
            /\ \A g \in who : <<"gone", g>> \notin Elements(q)
            => DisconnectedWaits(Append(q, e), who)
<1>1. PICK r : r = Append(q, e)
  OBVIOUS
<1>2. /\ Len(r) = Len(q) + 1 /\ r[Len(q) + 1] = e /\ Len(q) \in Nat
      /\ Len(q) + 1 \in 1 .. Len(r)
      /\ \A i \in 1 .. Len(q) : i \in 1 .. Len(r) /\ r[i] = q[i]
      /\ \A i \in 1 .. Len(r) : i \in 1 .. Len(q) \/ i = Len(q) + 1
  BY <1>1, Added
<1>3. ASSUME DisconnectedWaits(q, who), e # Plain("disconnected")
      PROVE  DisconnectedWaits(r, who)
  <2>1. PICK k \in 1 .. Len(q) :
          /\ q[k] = Plain("disconnected")
          /\ \A i \in 1 .. Len(q) : q[i] = Plain("disconnected") => i = k
          /\ \A i \in 1 .. Len(q) : i < k => \A g \in who : q[i] # <<"gone", g>>
    BY <1>3 DEF DisconnectedWaits
  <2>2. k \in 1 .. Len(r) /\ r[k] = Plain("disconnected")
    BY <2>1, <1>2
  <2>3. \A i \in 1 .. Len(r) : r[i] = Plain("disconnected") => i = k
    BY <2>1, <1>2, <1>3
  <2>4. \A i \in 1 .. Len(r) : i < k => i \in 1 .. Len(q)
    BY <1>2
  <2>5. \A i \in 1 .. Len(r) : i < k => \A g \in who : r[i] # <<"gone", g>>
    BY <2>1, <2>4, <1>2
  <2> QED BY <2>2, <2>3, <2>5 DEF DisconnectedWaits
<1>4. ASSUME Plain("disconnected") \notin Elements(q), e = Plain("disconnected"),
             \A g \in who : <<"gone", g>> \notin Elements(q)
      PROVE  DisconnectedWaits(r, who)
  <2>1. \A i \in 1 .. Len(q) : /\ r[i] # Plain("disconnected")
                               /\ \A g \in who : r[i] # <<"gone", g>>
    BY <1>2, <1>4 DEF Elements
  <2>2. \A i \in 1 .. Len(r) : r[i] = Plain("disconnected") => i = Len(q) + 1
    BY <2>1, <1>2
  <2>3. \A i \in 1 .. Len(r) : i < Len(q) + 1 => \A g \in who : r[i] # <<"gone", g>>
    BY <2>1, <1>2
  <2> QED BY <2>2, <2>3, <1>2, <1>4 DEF DisconnectedWaits
<1> QED BY <1>1, <1>3, <1>4

LEMMA QuitTaken ==
  ASSUME NEW q \in Seq(LifeEvent), q # << >>, QuitWaits(q)
  PROVE  /\ Head(q) # Plain("quit") =>
              QuitWaits(Tail(q)) /\ Head(q) # Plain("disconnected")
         /\ Head(q) = Plain("quit") => Plain("quit") \notin Elements(Tail(q))
<1>1. PICK r : r = Tail(q)
  OBVIOUS
<1>2. /\ Head(q) = q[1] /\ 1 \in 1 .. Len(q) /\ Len(r) \in Nat
      /\ \A i \in 1 .. Len(r) : i + 1 \in 1 .. Len(q) /\ r[i] = q[i + 1]
      /\ \A i \in 1 .. Len(q) : i # 1 => i - 1 \in 1 .. Len(r) /\ r[i - 1] = q[i]
  BY <1>1, Taken
<1>3. PICK k \in 1 .. Len(q) :
        /\ q[k] = Plain("quit")
        /\ \A i \in 1 .. Len(q) : q[i] = Plain("quit") => i = k
        /\ \A i \in 1 .. Len(q) : i < k => q[i] # Plain("disconnected")
  BY DEF QuitWaits
<1>4. ASSUME Head(q) # Plain("quit")
      PROVE  QuitWaits(r) /\ Head(q) # Plain("disconnected")
  <2>1. k # 1 /\ 1 < k
    BY <1>2, <1>3, <1>4
  <2>2. k - 1 \in 1 .. Len(r) /\ r[k - 1] = Plain("quit")
    BY <2>1, <1>2, <1>3
  <2>3. \A i \in 1 .. Len(r) : r[i] = Plain("quit") => i = k - 1
    <3> SUFFICES ASSUME NEW i \in 1 .. Len(r), r[i] = Plain("quit")
                 PROVE  i = k - 1
      OBVIOUS
    <3>1. i + 1 \in 1 .. Len(q) /\ q[i + 1] = Plain("quit")
      BY <1>2
    <3>2. i + 1 = k
      BY <3>1, <1>3
    <3>3. i \in Nat /\ k \in Nat
      OBVIOUS
    <3> QED BY <3>2, <3>3
  <2>4. \A i \in 1 .. Len(r) : i < k - 1 => r[i] # Plain("disconnected")
    <3> SUFFICES ASSUME NEW i \in 1 .. Len(r), i < k - 1
                 PROVE  r[i] # Plain("disconnected")
      OBVIOUS
    <3>1. i + 1 \in 1 .. Len(q) /\ i + 1 < k /\ r[i] = q[i + 1]
      BY <1>2
    <3> QED BY <3>1, <1>3
  <2>5. QuitWaits(r)
    BY <2>2, <2>3, <2>4 DEF QuitWaits
  <2> QED BY <2>1, <2>5, <1>2, <1>3
<1>5. ASSUME Head(q) = Plain("quit"), NEW i \in 1 .. Len(r)
      PROVE  r[i] # Plain("quit")
  <2>1. i + 1 \in 1 .. Len(q) /\ r[i] = q[i + 1] /\ i + 1 # 1
    BY <1>2
  <2>2. k = 1
    BY <1>2, <1>3, <1>5
  <2> QED BY <2>1, <2>2, <1>3
<1> QED BY <1>1, <1>4, <1>5 DEF Elements

LEMMA QuitAdded ==
  ASSUME NEW q \in Seq(LifeEvent), NEW e \in LifeEvent
  PROVE  /\ QuitWaits(q) /\ e # Plain("quit") => QuitWaits(Append(q, e))
         /\ /\ Plain("quit") \notin Elements(q) /\ Plain("disconnected") \notin Elements(q)
            /\ e = Plain("quit")
            => QuitWaits(Append(q, e))
<1>1. PICK r : r = Append(q, e)
  OBVIOUS
<1>2. /\ Len(r) = Len(q) + 1 /\ r[Len(q) + 1] = e /\ Len(q) \in Nat
      /\ Len(q) + 1 \in 1 .. Len(r)
      /\ \A i \in 1 .. Len(q) : i \in 1 .. Len(r) /\ r[i] = q[i]
      /\ \A i \in 1 .. Len(r) : i \in 1 .. Len(q) \/ i = Len(q) + 1
  BY <1>1, Added
<1>3. ASSUME QuitWaits(q), e # Plain("quit")
      PROVE  QuitWaits(r)
  <2>1. PICK k \in 1 .. Len(q) :
          /\ q[k] = Plain("quit")
          /\ \A i \in 1 .. Len(q) : q[i] = Plain("quit") => i = k
          /\ \A i \in 1 .. Len(q) : i < k => q[i] # Plain("disconnected")
    BY <1>3 DEF QuitWaits
  <2>2. k \in 1 .. Len(r) /\ r[k] = Plain("quit")
    BY <2>1, <1>2
  <2>3. \A i \in 1 .. Len(r) : r[i] = Plain("quit") => i = k
    BY <2>1, <1>2, <1>3
  <2>4. \A i \in 1 .. Len(r) : i < k => i \in 1 .. Len(q)
    BY <1>2
  <2>5. \A i \in 1 .. Len(r) : i < k => r[i] # Plain("disconnected")
    BY <2>1, <2>4, <1>2
  <2> QED BY <2>2, <2>3, <2>5 DEF QuitWaits
<1>4. ASSUME Plain("quit") \notin Elements(q), Plain("disconnected") \notin Elements(q),
             e = Plain("quit")
      PROVE  QuitWaits(r)
  <2>1. \A i \in 1 .. Len(q) : r[i] # Plain("quit") /\ r[i] # Plain("disconnected")
    BY <1>2, <1>4 DEF Elements
  <2>2. \A i \in 1 .. Len(r) : r[i] = Plain("quit") => i = Len(q) + 1
    BY <2>1, <1>2
  <2>3. \A i \in 1 .. Len(r) : i < Len(q) + 1 => r[i] # Plain("disconnected")
    BY <2>1, <1>2
  <2> QED BY <2>2, <2>3, <1>2, <1>4 DEF QuitWaits
<1> QED BY <1>1, <1>3, <1>4

(***************************************************************************)
(* Types, in groups that actions change or keep together.                  *)
(***************************************************************************)
Frame == [then : {"suspend", "end"}, timer : BOOLEAN, stale : BOOLEAN]

PartsType ==
  /\ m_serverState \in {"Initialized", "Started"}
  /\ m_server \in BOOLEAN /\ m_listener \in BOOLEAN
  /\ m_fileTransferService \in BOOLEAN /\ m_suspended \in BOOLEAN

ClientsType == guests \subseteq Guest /\ leavers \subseteq Guest /\ visits \in 0 .. MaxVisits

LoopType ==
  /\ lifeQueue \in Seq(LifeEvent) /\ frames \in Seq(Frame)
  /\ hears \in BOOLEAN /\ timerDue \in BOOLEAN
  /\ phase \in {"running", "ended", "undefined"}

OutsideType ==
  /\ asleep \in BOOLEAN /\ orders \in 0 .. MaxOrders /\ failed \in BOOLEAN
  /\ asked \in BOOLEAN /\ upset \in BOOLEAN

LifeTypes == PartsType /\ ClientsType /\ LoopType /\ OutsideType

Served == guests \union leavers

\* A client that is still to be adopted is not a client yet.
VisitsInv ==
  \A g \in Guest : <<"accepted", g>> \in Queued =>
    /\ g \notin Served /\ <<"gone", g>> \notin Queued
    /\ Once({<<"accepted", g>>}, lifeQueue)

\* While no server closes, nothing of a close is left but stale ServerDisconnected.
OpenInv == ~Closing => ~hears /\ ~timerDue /\ Plain("quit") \notin Queued

\* The four stages of a close: clients are left; the last one has gone; the
\* time is over; the loop is to end.  Each follows from the stage before, and
\* the event that ends the loop is the only one and has not been overtaken.
ClientsStay == ~timerDue /\ Plain("disconnected") \notin Queued /\ Plain("quit") \notin Queued
LastIsGone == ~timerDue /\ DisconnectedWaits(lifeQueue, Served) /\ Plain("quit") \notin Queued
TimeIsOver == timerDue /\ Plain("disconnected") \notin Queued /\ Plain("quit") \notin Queued
LoopIsToEnd == ~timerDue /\ QuitWaits(lifeQueue)
Stages == ClientsStay \/ LastIsGone \/ TimeIsOver \/ LoopIsToEnd

CloseInv ==
  Closing =>
    /\ Len(frames) = 1 /\ ~frames[1].stale /\ hears /\ m_server /\ phase = "running"
    /\ \A e \in Queued : e \notin Orders
    /\ frames[1].then = "suspend" => asleep /\ ~m_suspended
    /\ frames[1].then = "end" => asked
    /\ Stages

\* What is asked agrees with what is; at rest the application has followed.
OrdersInv ==
  /\ Once(Orders, lifeQueue)
  /\ Plain("suspend") \in Queued => asleep /\ ~m_suspended
  /\ Plain("resume") \in Queued => ~asleep /\ m_suspended
  /\ Plain("askedQuit") \in Queued => asked

FollowsInv ==
  /\ /\ ~(Closing /\ frames[1].then = "suspend")
     /\ Plain("suspend") \notin Queued /\ Plain("resume") \notin Queued
     => m_suspended = asleep
  /\ ~Closing /\ phase = "running" => (m_server <=> ~m_suspended /\ ~failed)
  /\ m_fileTransferService => m_server /\ ~Closing
  /\ phase # "undefined" /\ (phase = "ended" => asked)

LoopInv == OpenInv /\ CloseInv /\ OrdersInv /\ FollowsInv

PartsInv == PartsFollowServer /\ (m_suspended => ~m_server)

LifeInv == LifeTypes /\ PartsInv /\ VisitsInv /\ (~upset => LoopInv)

LEMMA QueuedElements == Queued = Elements(lifeQueue) /\ Queued' = Elements(lifeQueue')
BY DEF Queued, Elements

LEMMA FlagTypes ==
  ASSUME LifeTypes
  PROVE  LifeTypeOK
<1>1. /\ m_serverState \in {"Initialized", "Started"}
      /\ phase \in {"running", "ended", "undefined"}
      /\ guests \subseteq Guest /\ leavers \subseteq Guest
      /\ visits \in 0 .. MaxVisits /\ orders \in 0 .. MaxOrders
  BY DEF LifeTypes, PartsType, LoopType, OutsideType, ClientsType
<1>2. {asleep, m_server, m_listener, m_fileTransferService, m_suspended, hears, timerDue,
       failed, asked, upset} \subseteq BOOLEAN
  BY DEF LifeTypes, PartsType, LoopType, OutsideType
<1>3. Queued \subseteq LifeEvent
  <2>1. \A i \in 1 .. Len(lifeQueue) : lifeQueue[i] \in LifeEvent
    BY DEF LifeTypes, LoopType
  <2> QED BY <2>1 DEF Queued
<1>4. frames \in Seq([then : {"suspend", "end"}, timer : BOOLEAN, stale : BOOLEAN])
  BY DEF LifeTypes, LoopType, Frame
<1> QED BY <1>1, <1>2, <1>3, <1>4 DEF LifeTypeOK

LEMMA FollowsAtRest ==
  ASSUME LifeInv
  PROVE  ServerFollowsPower
<1>1. LifeTypeOK /\ PartsFollowServer
  BY FlagTypes DEF LifeInv, PartsInv
<1>2. ASSUME ~upset
      PROVE  /\ phase # "undefined" /\ (phase = "ended" => asked)
             /\ m_fileTransferService => m_server /\ ~Closing
             /\ AtRest => m_suspended = asleep
             /\ AtRest /\ phase = "running" =>
                  /\ Plain("quit") \notin Queued
                  /\ m_server <=> ~asleep /\ ~failed
  <2>1. LoopInv
    BY <1>2 DEF LifeInv
  <2>2. AtRest => /\ ~Closing
                  /\ Plain("suspend") \notin Queued /\ Plain("resume") \notin Queued
    BY DEF AtRest, Orders
  <2>3. AtRest => m_suspended = asleep
    BY <2>1, <2>2 DEF LoopInv, FollowsInv
  <2>4. AtRest /\ phase = "running" => (m_server <=> ~m_suspended /\ ~failed)
    BY <2>1, <2>2 DEF LoopInv, FollowsInv
  <2>5. AtRest => Plain("quit") \notin Queued
    BY <2>1, <2>2 DEF LoopInv, OpenInv
  <2>6. /\ phase # "undefined" /\ (phase = "ended" => asked)
        /\ m_fileTransferService => m_server /\ ~Closing
    BY <2>1 DEF LoopInv, FollowsInv
  <2> QED BY <2>3, <2>4, <2>5, <2>6
<1> QED BY <1>1, <1>2 DEF ServerFollowsPower

LEMMA LifeBegins == LifeInit => LifeInv
<1> SUFFICES ASSUME LifeInit
             PROVE  LifeInv
  OBVIOUS
<1>1. 0 \in 0 .. MaxVisits /\ 0 \in 0 .. MaxOrders
  BY LifeBoundAssumption
<1>2. LifeTypes
  <2>1. PartsType
    BY DEF LifeInit, PartsType
  <2>2. ClientsType
    BY <1>1 DEF LifeInit, ClientsType
  <2>3. << >> \in Seq(LifeEvent) /\ << >> \in Seq(Frame)
    OBVIOUS
  <2>4. LoopType
    BY <2>3 DEF LifeInit, LoopType
  <2>5. OutsideType
    BY <1>1 DEF LifeInit, OutsideType
  <2> QED BY <2>1, <2>2, <2>4, <2>5 DEF LifeTypes
<1>3. Queued = {}
  BY DEF LifeInit, Queued
<1>4. ~Closing
  BY DEF LifeInit, Closing
<1>5. Once(Orders, lifeQueue)
  BY DEF LifeInit, Once
<1>6. PartsInv
  BY DEF LifeInit, PartsInv, PartsFollowServer
<1>7. LoopInv
  BY <1>3, <1>4, <1>5
     DEF LifeInit, LoopInv, OpenInv, CloseInv, OrdersInv, FollowsInv
<1> QED BY <1>2, <1>3, <1>6, <1>7 DEF LifeInv, VisitsInv

(***************************************************************************)
(* The three ways in which an action changes the queue.                    *)
(***************************************************************************)
LEMMA QueueTaken ==
  ASSUME LifeTypes, NEW e, Takes(e), lifeQueue' = Rest
  PROVE  /\ e \in LifeEvent /\ lifeQueue' \in Seq(LifeEvent) /\ ~timerDue
         /\ Queued = Queued' \union {e}
         /\ \A S : Once(S, lifeQueue) =>
              /\ Once(S, lifeQueue')
              /\ e \in S => \A d \in Queued' : d \notin S
         /\ \A who : DisconnectedWaits(lifeQueue, who) =>
              /\ e # Plain("disconnected") =>
                   /\ DisconnectedWaits(lifeQueue', who)
                   /\ \A g \in who : e # <<"gone", g>>
              /\ e = Plain("disconnected") => Plain("disconnected") \notin Queued'
         /\ QuitWaits(lifeQueue) =>
              /\ e # Plain("quit") => QuitWaits(lifeQueue') /\ e # Plain("disconnected")
              /\ e = Plain("quit") => Plain("quit") \notin Queued'
<1>1. /\ lifeQueue \in Seq(LifeEvent) /\ lifeQueue # << >> /\ Head(lifeQueue) = e
      /\ lifeQueue' = Tail(lifeQueue) /\ ~timerDue
  BY DEF LifeTypes, LoopType, Takes, Rest
<1>2. e \in LifeEvent /\ lifeQueue' \in Seq(LifeEvent)
  BY <1>1, Taken
<1>3. Queued = Queued' \union {e}
  BY <1>1, TakenElements, QueuedElements
<1>4. ASSUME NEW S, Once(S, lifeQueue)
      PROVE  Once(S, lifeQueue') /\ (e \in S => \A d \in Queued' : d \notin S)
  BY <1>1, <1>4, OnceTaken, QueuedElements
<1>5. ASSUME NEW who, DisconnectedWaits(lifeQueue, who)
      PROVE  /\ e # Plain("disconnected") =>
                  /\ DisconnectedWaits(lifeQueue', who)
                  /\ \A g \in who : e # <<"gone", g>>
             /\ e = Plain("disconnected") => Plain("disconnected") \notin Queued'
  BY <1>1, <1>5, DisconnectedTaken, QueuedElements
<1>6. ASSUME QuitWaits(lifeQueue)
      PROVE  /\ e # Plain("quit") => QuitWaits(lifeQueue') /\ e # Plain("disconnected")
             /\ e = Plain("quit") => Plain("quit") \notin Queued'
  BY <1>1, <1>6, QuitTaken, QueuedElements
<1> QED BY <1>1, <1>2, <1>3, <1>4, <1>5, <1>6

LEMMA QueuePosted ==
  ASSUME LifeTypes, NEW e \in LifeEvent, Posts(e)
  PROVE  /\ lifeQueue' \in Seq(LifeEvent)
         /\ Queued' = Queued \union {e}
         /\ \A S : Once(S, lifeQueue) /\ (e \in S => \A d \in Queued : d \notin S) =>
              Once(S, lifeQueue')
         /\ \A who : DisconnectedWaits(lifeQueue, who) /\ e # Plain("disconnected") =>
              DisconnectedWaits(lifeQueue', who)
         /\ QuitWaits(lifeQueue) /\ e # Plain("quit") => QuitWaits(lifeQueue')
         /\ /\ Plain("quit") \notin Queued /\ Plain("disconnected") \notin Queued
            /\ e = Plain("quit")
            => QuitWaits(lifeQueue')
<1>1. lifeQueue \in Seq(LifeEvent) /\ lifeQueue' = Append(lifeQueue, e)
  BY DEF LifeTypes, LoopType, Posts
<1>2. lifeQueue' \in Seq(LifeEvent)
  BY <1>1, Added
<1>3. Queued' = Queued \union {e}
  BY <1>1, AddedElements, QueuedElements
<1>4. ASSUME NEW S, Once(S, lifeQueue), e \in S => \A d \in Queued : d \notin S
      PROVE  Once(S, lifeQueue')
  BY <1>1, <1>4, OnceAdded, QueuedElements
<1>5. ASSUME NEW who, DisconnectedWaits(lifeQueue, who), e # Plain("disconnected")
      PROVE  DisconnectedWaits(lifeQueue', who)
  BY <1>1, <1>5, DisconnectedAdded
<1>6. QuitWaits(lifeQueue) /\ e # Plain("quit") => QuitWaits(lifeQueue')
  BY <1>1, QuitAdded
<1>7. /\ Plain("quit") \notin Queued /\ Plain("disconnected") \notin Queued
      /\ e = Plain("quit")
      => QuitWaits(lifeQueue')
  BY <1>1, QuitAdded, QueuedElements
<1> QED BY <1>2, <1>3, <1>4, <1>5, <1>6, <1>7

LEMMA QueueAnswered ==
  ASSUME LifeTypes, NEW e, Takes(e), NEW d \in LifeEvent, lifeQueue' = Append(Rest, d)
  PROVE  /\ e \in LifeEvent /\ lifeQueue' \in Seq(LifeEvent) /\ ~timerDue
         /\ Queued' \subseteq Queued \union {d}
         /\ \A S : Once(S, lifeQueue) /\ d \notin S =>
              /\ Once(S, lifeQueue')
              /\ e \in S => \A x \in Queued' : x \notin S
         /\ \A who : DisconnectedWaits(lifeQueue, who) /\ d # Plain("disconnected") =>
              /\ e # Plain("disconnected") => DisconnectedWaits(lifeQueue', who)
              /\ e = Plain("disconnected") =>
                   /\ Plain("disconnected") \notin Queued'
                   /\ Plain("quit") \notin Queued /\ d = Plain("quit") => QuitWaits(lifeQueue')
         /\ \A who : /\ Plain("disconnected") \notin Queued /\ d = Plain("disconnected")
                     /\ \A g \in who : <<"gone", g>> \notin Queued
                     => DisconnectedWaits(lifeQueue', who)
         /\ QuitWaits(lifeQueue) /\ d # Plain("quit") =>
              /\ e # Plain("quit") => QuitWaits(lifeQueue')
              /\ e = Plain("quit") => Plain("quit") \notin Queued'
<1>1. /\ lifeQueue \in Seq(LifeEvent) /\ lifeQueue # << >> /\ Head(lifeQueue) = e
      /\ Rest = Tail(lifeQueue) /\ ~timerDue
  BY DEF LifeTypes, LoopType, Takes, Rest
<1>2. e \in LifeEvent /\ Rest \in Seq(LifeEvent)
  BY <1>1, Taken
<1>3. lifeQueue' \in Seq(LifeEvent)
  BY <1>2, Added
<1>4. Queued = Elements(Rest) \union {e} /\ Queued' = Elements(Rest) \union {d}
  BY <1>1, <1>2, TakenElements, AddedElements, QueuedElements
<1>5. ASSUME NEW S, Once(S, lifeQueue), d \notin S
      PROVE  Once(S, lifeQueue') /\ (e \in S => \A x \in Queued' : x \notin S)
  <2>1. Once(S, Rest) /\ (e \in S => \A x \in Elements(Rest) : x \notin S)
    BY <1>1, <1>5, OnceTaken
  <2>2. Once(S, lifeQueue')
    BY <2>1, <1>2, <1>5, OnceAdded
  <2> QED BY <2>1, <2>2, <1>4, <1>5
<1>6. ASSUME NEW who, DisconnectedWaits(lifeQueue, who), d # Plain("disconnected")
      PROVE  /\ e # Plain("disconnected") => DisconnectedWaits(lifeQueue', who)
             /\ e = Plain("disconnected") =>
                  /\ Plain("disconnected") \notin Queued'
                  /\ Plain("quit") \notin Queued /\ d = Plain("quit") => QuitWaits(lifeQueue')
  <2>1. /\ e # Plain("disconnected") => DisconnectedWaits(Rest, who)
        /\ e = Plain("disconnected") => Plain("disconnected") \notin Elements(Rest)
    BY <1>1, <1>6, DisconnectedTaken
  <2>2. e # Plain("disconnected") => DisconnectedWaits(lifeQueue', who)
    BY <2>1, <1>2, <1>6, DisconnectedAdded
  <2>3. e = Plain("disconnected") => Plain("disconnected") \notin Queued'
    BY <2>1, <1>4, <1>6
  <2>4. /\ e = Plain("disconnected") /\ Plain("quit") \notin Queued /\ d = Plain("quit")
        => QuitWaits(lifeQueue')
    BY <2>1, <1>2, <1>4, QuitAdded
  <2> QED BY <2>2, <2>3, <2>4
<1>7. ASSUME NEW who, Plain("disconnected") \notin Queued, d = Plain("disconnected"),
             \A g \in who : <<"gone", g>> \notin Queued
      PROVE  DisconnectedWaits(lifeQueue', who)
  <2>1. /\ Plain("disconnected") \notin Elements(Rest)
        /\ \A g \in who : <<"gone", g>> \notin Elements(Rest)
    BY <1>4, <1>7
  <2> QED BY <2>1, <1>2, <1>7, DisconnectedAdded
<1>8. ASSUME QuitWaits(lifeQueue), d # Plain("quit")
      PROVE  /\ e # Plain("quit") => QuitWaits(lifeQueue')
             /\ e = Plain("quit") => Plain("quit") \notin Queued'
  <2>1. /\ e # Plain("quit") => QuitWaits(Rest)
        /\ e = Plain("quit") => Plain("quit") \notin Elements(Rest)
    BY <1>1, <1>8, QuitTaken
  <2> QED BY <2>1, <1>2, <1>4, <1>8, QuitAdded
<1> QED BY <1>1, <1>2, <1>3, <1>4, <1>5, <1>6, <1>7, <1>8

LEMMA VisitsStay ==
  ASSUME VisitsInv, Served' \subseteq Served,
         \A g \in Guest :
           /\ <<"accepted", g>> \in Queued' => <<"accepted", g>> \in Queued
           /\ <<"gone", g>> \in Queued' => <<"gone", g>> \in Queued
           /\ Once({<<"accepted", g>>}, lifeQueue) => Once({<<"accepted", g>>}, lifeQueue')
  PROVE  VisitsInv'
<1> SUFFICES ASSUME NEW g \in Guest, <<"accepted", g>> \in Queued'
             PROVE  /\ g \notin Served' /\ <<"gone", g>> \notin Queued'
                    /\ Once({<<"accepted", g>>}, lifeQueue')
  BY DEF VisitsInv
<1>1. /\ g \notin Served /\ <<"gone", g>> \notin Queued
      /\ Once({<<"accepted", g>>}, lifeQueue)
  BY DEF VisitsInv
<1> QED BY <1>1

(* One lemma for each action. *)

LEMMA ArrivesKeeps ==
  ASSUME LifeInv, phase = "running", NEW e \in Orders, Arrives(e)
  PROVE  LifeInv'
<1>1. LifeTypes /\ e \in LifeEvent /\ Posts(e)
  BY EventsDiffer DEF LifeInv, Arrives
<1>2. Queued' = Queued \union {e} /\ lifeQueue' \in Seq(LifeEvent)
  BY <1>1, QueuePosted
<1>3. /\ UNCHANGED <<appVars, guests, leavers, visits, frames, hears, timerDue, failed, phase>>
      /\ upset' = (upset \/ ~AtRest)
      /\ orders < MaxOrders /\ orders' = orders + 1
  BY DEF Arrives
<1>4. \/ e = Plain("suspend") /\ ~asleep /\ asleep' = TRUE /\ asked' = asked
      \/ e = Plain("resume") /\ asleep /\ asleep' = FALSE /\ asked' = asked
      \/ e = Plain("askedQuit") /\ ~asked /\ asked' = TRUE /\ asleep' = asleep
  BY DEF Arrives
<1>5. LifeTypes'
  <2>1. PartsType' /\ ClientsType'
    BY <1>1, <1>3 DEF LifeTypes, PartsType, ClientsType, appVars
  <2>2. LoopType'
    BY <1>1, <1>2, <1>3 DEF LifeTypes, LoopType
  <2>3. orders' \in 0 .. MaxOrders
    BY <1>1, <1>3, LifeBoundAssumption DEF LifeTypes, OutsideType
  <2>4. asleep' \in BOOLEAN /\ asked' \in BOOLEAN
    BY <1>1, <1>4 DEF LifeTypes, OutsideType
  <2>5. failed' \in BOOLEAN /\ upset' \in BOOLEAN
    BY <1>1, <1>3 DEF LifeTypes, OutsideType
  <2> QED BY <2>1, <2>2, <2>3, <2>4, <2>5 DEF LifeTypes, OutsideType
<1>6. PartsInv'
  BY <1>3 DEF LifeInv, PartsInv, PartsFollowServer, appVars
<1>7. VisitsInv'
  <2>1. Served' = Served
    BY <1>3 DEF Served
  <2>2. \A g \in Guest : e # <<"accepted", g>> /\ e # <<"gone", g>>
    BY EventsDiffer
  <2>3. ASSUME NEW g \in Guest, Once({<<"accepted", g>>}, lifeQueue)
        PROVE  Once({<<"accepted", g>>}, lifeQueue')
    <3>1. e \notin {<<"accepted", g>>}
      BY <2>2
    <3> QED BY <3>1, <2>3, <1>1, QueuePosted
  <2> QED BY <2>1, <2>2, <2>3, <1>2, VisitsStay DEF LifeInv
<1>8. ASSUME ~upset'
      PROVE  LoopInv'
  <2>1. ~upset /\ AtRest
    BY <1>3, <1>8
  <2>2. LoopInv /\ ~Closing /\ \A d \in Queued : d \notin Orders
    BY <2>1 DEF LifeInv, AtRest
  <2>3. ~Closing'
    BY <2>2, <1>3 DEF Closing
  <2>4. ~hears /\ ~timerDue /\ Plain("quit") \notin Queued
    BY <2>2 DEF LoopInv, OpenInv
  <2>5. OpenInv'
    BY <2>4, <1>2, <1>3, EventsDiffer DEF OpenInv
  <2>6. m_suspended = asleep
    <3>1. Plain("suspend") \notin Queued /\ Plain("resume") \notin Queued
      BY <2>2 DEF Orders
    <3> QED BY <3>1, <2>2 DEF LoopInv, FollowsInv
  <2>7. Once(Orders, lifeQueue')
    BY <2>2, <1>1, QueuePosted DEF LoopInv, OrdersInv
  <2>8. \A d \in Queued' : d \in Orders => d = e
    BY <2>2, <1>2
  <2>9. Plain("suspend") \in Orders /\ Plain("resume") \in Orders /\ Plain("askedQuit") \in Orders
    BY DEF Orders
  <2>10. m_suspended' = m_suspended /\ m_server' = m_server /\ failed' = failed
         /\ phase' = phase /\ m_fileTransferService' = m_fileTransferService
    BY <1>3 DEF appVars
  <2>11. asleep \in BOOLEAN
    BY <1>1 DEF LifeTypes, OutsideType
  <2>12. OrdersInv'
    <3>1. Plain("suspend") \in Queued' => asleep' /\ ~m_suspended'
      BY <2>8, <2>9, <1>4, <2>6, <2>10, EventsDiffer
    <3>2. Plain("resume") \in Queued' => ~asleep' /\ m_suspended'
      BY <2>8, <2>9, <1>4, <2>6, <2>10, EventsDiffer
    <3>3. Plain("askedQuit") \in Queued' => asked'
      BY <2>8, <2>9, <1>4, EventsDiffer
    <3> QED BY <2>7, <3>1, <3>2, <3>3 DEF OrdersInv
  <2>13. FollowsInv'
    <3>1. Plain("suspend") \notin Queued' /\ Plain("resume") \notin Queued' => asleep' = asleep
      BY <1>2, <1>4
    <3>2. m_server <=> ~m_suspended /\ ~failed
      BY <2>2 DEF LoopInv, FollowsInv
    <3>3. m_fileTransferService => m_server
      BY <2>2 DEF LoopInv, FollowsInv
    <3> QED BY <3>1, <3>2, <3>3, <2>3, <2>6, <2>10 DEF FollowsInv
  <2> QED BY <2>3, <2>5, <2>12, <2>13 DEF LoopInv, CloseInv
<1> QED BY <1>5, <1>6, <1>7, <1>8 DEF LifeInv

\* An action that leaves the application as it is, and takes none of the orders.
LEMMA QuietKeeps ==
  ASSUME LifeInv, phase = "running",
         UNCHANGED <<appVars, frames, hears, restVars, phase>>,
         ClientsType', lifeQueue' \in Seq(LifeEvent), timerDue' \in BOOLEAN, VisitsInv',
         ~upset => /\ \A e \in Orders : e \in Queued' <=> e \in Queued
                   /\ Once(Orders, lifeQueue) => Once(Orders, lifeQueue'),
         ~upset /\ ~Closing /\ OpenInv => ~timerDue' /\ Plain("quit") \notin Queued',
         ~upset /\ Closing /\ CloseInv => Stages'
  PROVE  LifeInv'
<1>1. LifeTypes'
  <2>1. PartsType' /\ OutsideType'
    BY DEF LifeInv, LifeTypes, PartsType, OutsideType, appVars, restVars
  <2>2. LoopType'
    BY DEF LifeInv, LifeTypes, LoopType
  <2> QED BY <2>1, <2>2 DEF LifeTypes
<1>2. PartsInv'
  BY DEF LifeInv, PartsInv, PartsFollowServer, appVars
<1>3. ASSUME ~upset'
      PROVE  LoopInv'
  <2>1. ~upset /\ LoopInv
    BY <1>3 DEF restVars, LifeInv
  <2>2. /\ m_suspended' = m_suspended /\ m_server' = m_server /\ failed' = failed
        /\ m_fileTransferService' = m_fileTransferService /\ phase' = phase
        /\ frames' = frames /\ hears' = hears /\ asleep' = asleep /\ asked' = asked
    BY DEF appVars, restVars
  <2>3. Closing' <=> Closing
    BY <2>2 DEF Closing
  <2>4. OpenInv'
    BY <2>1, <2>2, <2>3 DEF OpenInv, LoopInv
  <2>5. CloseInv'
    <3> SUFFICES ASSUME Closing'
                 PROVE  /\ Len(frames') = 1 /\ ~frames'[1].stale /\ hears' /\ m_server'
                        /\ phase' = "running"
                        /\ \A e \in Queued' : e \notin Orders
                        /\ frames'[1].then = "suspend" => asleep' /\ ~m_suspended'
                        /\ frames'[1].then = "end" => asked'
                        /\ Stages'
      BY DEF CloseInv
    <3>1. Closing /\ CloseInv
      BY <2>1, <2>3 DEF LoopInv
    <3>2. /\ Len(frames) = 1 /\ ~frames[1].stale /\ hears /\ m_server
          /\ \A e \in Queued : e \notin Orders
          /\ frames[1].then = "suspend" => asleep /\ ~m_suspended
          /\ frames[1].then = "end" => asked
      BY <3>1 DEF CloseInv
    <3>3. \A e \in Queued' : e \notin Orders
      BY <3>2, <2>1
    <3>4. Stages'
      BY <3>1, <2>1
    <3> QED BY <3>2, <3>3, <3>4, <2>2
  <2>6. Plain("suspend") \in Orders /\ Plain("resume") \in Orders /\ Plain("askedQuit") \in Orders
    BY DEF Orders
  <2>7. OrdersInv'
    BY <2>1, <2>2, <2>6 DEF LoopInv, OrdersInv
  <2>8. FollowsInv'
    BY <2>1, <2>2, <2>3, <2>6 DEF LoopInv, FollowsInv
  <2> QED BY <2>4, <2>5, <2>7, <2>8 DEF LoopInv
<1> QED BY <1>1, <1>2, <1>3 DEF LifeInv

LEMMA VisitsKeeps ==
  ASSUME LifeInv, phase = "running", NEW g \in Guest, Visits(g)
  PROVE  LifeInv'
<1> DEFINE e == <<"accepted", g>>
<1>1. /\ LifeTypes /\ e \in LifeEvent /\ e \notin Orders /\ Posts(e)
      /\ e # Plain("quit") /\ e # Plain("disconnected")
      /\ UNCHANGED <<appVars, frames, hears, restVars, phase>>
      /\ guests' = guests /\ leavers' = leavers /\ timerDue' = timerDue
      /\ visits < MaxVisits /\ visits' = visits + 1
      /\ g \notin Served /\ e \notin Queued /\ <<"gone", g>> \notin Queued
  BY EventsDiffer DEF LifeInv, Visits, Served
<1>2. \A h \in Guest : /\ <<"gone", h>> # e
                       /\ h # g => <<"accepted", h>> # e
  BY EventsDiffer
<1> HIDE DEF e
<1>3. /\ lifeQueue' \in Seq(LifeEvent) /\ Queued' = Queued \union {e}
      /\ \A S : Once(S, lifeQueue) /\ (e \in S => \A d \in Queued : d \notin S) =>
           Once(S, lifeQueue')
      /\ DisconnectedWaits(lifeQueue, Served) => DisconnectedWaits(lifeQueue', Served)
      /\ QuitWaits(lifeQueue) => QuitWaits(lifeQueue')
  BY <1>1, QueuePosted
<1>4. Served' = Served
  BY <1>1 DEF Served
<1>5. ClientsType'
  BY <1>1, LifeBoundAssumption DEF LifeTypes, ClientsType
<1>6. VisitsInv'
  <2> SUFFICES ASSUME NEW h \in Guest, <<"accepted", h>> \in Queued'
               PROVE  /\ h \notin Served' /\ <<"gone", h>> \notin Queued'
                      /\ Once({<<"accepted", h>>}, lifeQueue')
    BY DEF VisitsInv
  <2>1. CASE h = g
    <3>1. \A d \in Queued : d \notin {e}
      BY <1>1
    <3>2. Once({e}, lifeQueue)
      BY <3>1 DEF Once, Queued
    <3>3. Once({e}, lifeQueue')
      BY <3>1, <3>2, <1>3
    <3> QED BY <3>3, <2>1, <1>1, <1>2, <1>3, <1>4 DEF e
  <2>2. CASE h # g
    <3>1. <<"accepted", h>> \in Queued
      BY <2>2, <1>2, <1>3
    <3>2. /\ h \notin Served /\ <<"gone", h>> \notin Queued
          /\ Once({<<"accepted", h>>}, lifeQueue)
      BY <3>1 DEF LifeInv, VisitsInv
    <3>3. e \notin {<<"accepted", h>>}
      BY <2>2, <1>2
    <3>4. Once({<<"accepted", h>>}, lifeQueue')
      BY <3>2, <3>3, <1>3
    <3> QED BY <3>2, <3>4, <1>2, <1>3, <1>4
  <2> QED BY <2>1, <2>2
<1>7. /\ \A d \in Orders : d \in Queued' <=> d \in Queued
      /\ Once(Orders, lifeQueue) => Once(Orders, lifeQueue')
  BY <1>1, <1>3
<1>8. OpenInv /\ ~Closing => ~timerDue' /\ Plain("quit") \notin Queued'
  BY <1>1, <1>3 DEF OpenInv
<1>9. Stages => Stages'
  BY <1>1, <1>3, <1>4 DEF Stages, ClientsStay, LastIsGone, TimeIsOver, LoopIsToEnd
<1>10. Closing /\ CloseInv => Stages'
  BY <1>9 DEF CloseInv
<1>11. timerDue' \in BOOLEAN
  BY <1>1 DEF LifeTypes, LoopType
<1> QED BY <1>1, <1>3, <1>5, <1>6, <1>7, <1>8, <1>10, <1>11, QuietKeeps

LEMMA GoesKeeps ==
  ASSUME LifeInv, phase = "running", NEW g \in Guest, Goes(g)
  PROVE  LifeInv'
<1> DEFINE e == <<"gone", g>>
<1>1. /\ LifeTypes /\ e \in LifeEvent /\ e \notin Orders /\ Posts(e)
      /\ e # Plain("quit") /\ e # Plain("disconnected")
      /\ UNCHANGED <<appVars, frames, hears, restVars, phase>>
      /\ guests' = guests /\ leavers' = leavers /\ timerDue' = timerDue /\ visits' = visits
      /\ g \in Served
  BY EventsDiffer DEF LifeInv, Goes, Served
<1>2. \A h \in Guest : /\ <<"accepted", h>> # e
                       /\ h # g => <<"gone", h>> # e
  BY EventsDiffer
<1> HIDE DEF e
<1>3. /\ lifeQueue' \in Seq(LifeEvent) /\ Queued' = Queued \union {e}
      /\ \A S : Once(S, lifeQueue) /\ (e \in S => \A d \in Queued : d \notin S) =>
           Once(S, lifeQueue')
      /\ DisconnectedWaits(lifeQueue, Served) => DisconnectedWaits(lifeQueue', Served)
      /\ QuitWaits(lifeQueue) => QuitWaits(lifeQueue')
  BY <1>1, QueuePosted
<1>4. Served' = Served
  BY <1>1 DEF Served
<1>5. ClientsType'
  BY <1>1 DEF LifeTypes, ClientsType
<1>6. VisitsInv'
  <2> SUFFICES ASSUME NEW h \in Guest, <<"accepted", h>> \in Queued'
               PROVE  /\ h \notin Served' /\ <<"gone", h>> \notin Queued'
                      /\ Once({<<"accepted", h>>}, lifeQueue')
    BY DEF VisitsInv
  <2>1. <<"accepted", h>> \in Queued
    BY <1>2, <1>3
  <2>2. /\ h \notin Served /\ <<"gone", h>> \notin Queued
        /\ Once({<<"accepted", h>>}, lifeQueue)
    BY <2>1 DEF LifeInv, VisitsInv
  <2>3. h # g /\ <<"gone", h>> # e
    BY <2>2, <1>1, <1>2
  <2>4. e \notin {<<"accepted", h>>}
    BY <1>2
  <2>5. Once({<<"accepted", h>>}, lifeQueue')
    BY <2>2, <2>4, <1>3
  <2> QED BY <2>2, <2>3, <2>5, <1>3, <1>4
<1>7. /\ \A d \in Orders : d \in Queued' <=> d \in Queued
      /\ Once(Orders, lifeQueue) => Once(Orders, lifeQueue')
  BY <1>1, <1>3
<1>8. OpenInv /\ ~Closing => ~timerDue' /\ Plain("quit") \notin Queued'
  BY <1>1, <1>3 DEF OpenInv
<1>9. Stages => Stages'
  BY <1>1, <1>3, <1>4 DEF Stages, ClientsStay, LastIsGone, TimeIsOver, LoopIsToEnd
<1>10. Closing /\ CloseInv => Stages'
  BY <1>9 DEF CloseInv
<1>11. timerDue' \in BOOLEAN
  BY <1>1 DEF LifeTypes, LoopType
<1> QED BY <1>1, <1>3, <1>5, <1>6, <1>7, <1>8, <1>10, <1>11, QuietKeeps

LEMMA AdoptsKeeps ==
  ASSUME LifeInv, phase = "running", NEW g \in Guest, Adopts(g)
  PROVE  LifeInv'
<1> DEFINE e == <<"accepted", g>>
<1>1. /\ LifeTypes /\ Takes(e) /\ lifeQueue' = Rest /\ e \notin Orders
      /\ e # Plain("quit") /\ e # Plain("disconnected")
      /\ UNCHANGED <<appVars, frames, hears, restVars, phase>>
      /\ leavers' = leavers /\ timerDue' = timerDue /\ visits' = visits
      /\ guests' = IF m_listener THEN guests \union {g} ELSE guests
  BY EventsDiffer DEF LifeInv, Adopts
<1>2. \A h \in Guest : h # g => <<"accepted", h>> # e
  BY EventsDiffer
<1>3. \A h \in Guest : <<"gone", h>> \in Queued' => <<"gone", h>> \in Queued
  BY <1>1, QueueTaken
<1> HIDE DEF e
<1>4. /\ lifeQueue' \in Seq(LifeEvent) /\ ~timerDue /\ Queued = Queued' \union {e}
      /\ \A S : Once(S, lifeQueue) =>
           Once(S, lifeQueue') /\ (e \in S => \A d \in Queued' : d \notin S)
      /\ DisconnectedWaits(lifeQueue, Served) => DisconnectedWaits(lifeQueue', Served)
      /\ QuitWaits(lifeQueue) => QuitWaits(lifeQueue')
  BY <1>1, QueueTaken
<1>5. Served' \subseteq Served \union {g}
  BY <1>1 DEF Served
<1>6. /\ g \notin Served /\ <<"gone", g>> \notin Queued /\ Once({e}, lifeQueue)
  BY <1>4 DEF LifeInv, VisitsInv, e
<1>7. ClientsType'
  BY <1>1 DEF LifeTypes, ClientsType
<1>8. VisitsInv'
  <2> SUFFICES ASSUME NEW h \in Guest, <<"accepted", h>> \in Queued'
               PROVE  /\ h \notin Served' /\ <<"gone", h>> \notin Queued'
                      /\ Once({<<"accepted", h>>}, lifeQueue')
    BY DEF VisitsInv
  <2>1. <<"accepted", h>> \in Queued
    BY <1>4
  <2>2. /\ h \notin Served /\ <<"gone", h>> \notin Queued
        /\ Once({<<"accepted", h>>}, lifeQueue)
    BY <2>1 DEF LifeInv, VisitsInv
  <2>3. e \notin Queued'
    BY <1>4, <1>6
  <2>4. h # g
    BY <2>3 DEF e
  <2>5. Once({<<"accepted", h>>}, lifeQueue')
    BY <2>2, <1>4
  <2> QED BY <2>2, <2>4, <2>5, <1>3, <1>5
<1>9. /\ \A d \in Orders : d \in Queued' <=> d \in Queued
      /\ Once(Orders, lifeQueue) => Once(Orders, lifeQueue')
  BY <1>1, <1>4
<1>10. OpenInv /\ ~Closing => ~timerDue' /\ Plain("quit") \notin Queued'
  BY <1>1, <1>4 DEF OpenInv
<1>11. DisconnectedWaits(lifeQueue', Served) => DisconnectedWaits(lifeQueue', Served')
  <2>1. \A i \in 1 .. Len(lifeQueue') : lifeQueue'[i] # <<"gone", g>>
    <3>1. <<"gone", g>> \notin Queued'
      BY <1>3, <1>6
    <3> QED BY <3>1 DEF Queued
  <2> QED BY <2>1, <1>5 DEF DisconnectedWaits
<1>12. Stages => Stages'
  BY <1>1, <1>4, <1>11 DEF Stages, ClientsStay, LastIsGone, TimeIsOver, LoopIsToEnd
<1>13. Closing /\ CloseInv => Stages'
  BY <1>12 DEF CloseInv
<1>14. timerDue' \in BOOLEAN
  BY <1>1 DEF LifeTypes, LoopType
<1> QED BY <1>1, <1>4, <1>7, <1>8, <1>9, <1>10, <1>13, <1>14, QuietKeeps

LEMMA RemovesKeeps ==
  ASSUME LifeInv, phase = "running", NEW g \in Guest, Removes(g)
  PROVE  LifeInv'
<1> DEFINE e == <<"gone", g>>
           d == Plain("disconnected")
<1>1. /\ LifeTypes /\ Takes(e) /\ e \notin Orders /\ e # Plain("quit") /\ e # d
      /\ d \in LifeEvent /\ d \notin Orders /\ d # Plain("quit")
      /\ \A h \in Guest : d # <<"accepted", h>> /\ d # <<"gone", h>>
      /\ UNCHANGED <<appVars, frames, hears, restVars, phase>>
      /\ guests' = guests \ {g} /\ leavers' = leavers \ {g}
      /\ timerDue' = timerDue /\ visits' = visits
      /\ lifeQueue' = IF g \in Served /\ Served' = {} THEN Append(Rest, d) ELSE Rest
  BY EventsDiffer DEF LifeInv, Removes, Served
<1>2. Served' \subseteq Served
  BY <1>1 DEF Served
<1>3. ClientsType'
  BY <1>1 DEF LifeInv, LifeTypes, ClientsType
<1>4. DisconnectedWaits(lifeQueue, Served) => g \notin Served
  <2>1. lifeQueue \in Seq(LifeEvent) /\ lifeQueue # << >> /\ Head(lifeQueue) = e
    BY <1>1 DEF LifeTypes, LoopType, Takes
  <2> QED BY <2>1, <1>1, DisconnectedTaken
<1> HIDE DEF d
<1>5. /\ lifeQueue' \in Seq(LifeEvent) /\ ~timerDue
      /\ Queued' \subseteq Queued \union {d}
      /\ \A o \in Orders : o \in Queued' <=> o \in Queued
      /\ \A h \in Guest : Once({<<"accepted", h>>}, lifeQueue) =>
                            Once({<<"accepted", h>>}, lifeQueue')
      /\ Once(Orders, lifeQueue) => Once(Orders, lifeQueue')
  <2>1. CASE lifeQueue' = Rest
    <3> HIDE DEF e
    <3>1. /\ lifeQueue' \in Seq(LifeEvent) /\ ~timerDue /\ Queued = Queued' \union {e}
          /\ \A S : Once(S, lifeQueue) => Once(S, lifeQueue')
      BY <2>1, <1>1, QueueTaken
    <3> QED BY <3>1, <1>1
  <2>2. CASE lifeQueue' = Append(Rest, d)
    <3> HIDE DEF e
    <3>1. /\ lifeQueue' \in Seq(LifeEvent) /\ ~timerDue
          /\ Queued' \subseteq Queued \union {d}
          /\ \A S : Once(S, lifeQueue) /\ d \notin S => Once(S, lifeQueue')
      BY <2>2, <1>1, QueueAnswered
    <3>2. Queued \subseteq Queued' \union {e}
      <4>1. /\ lifeQueue \in Seq(LifeEvent) /\ lifeQueue # << >> /\ Head(lifeQueue) = e
            /\ Rest = Tail(lifeQueue)
        BY <1>1 DEF LifeTypes, LoopType, Takes, Rest
      <4>2. Rest \in Seq(LifeEvent)
        BY <4>1, Taken
      <4>3. Queued = Elements(Rest) \union {e}
        BY <4>1, TakenElements, QueuedElements
      <4>4. Queued' = Elements(Rest) \union {d}
        BY <4>2, <2>2, <1>1, AddedElements, QueuedElements
      <4> QED BY <4>3, <4>4
    <3>3. \A h \in Guest : d \notin {<<"accepted", h>>}
      BY <1>1
    <3> QED BY <3>1, <3>2, <3>3, <1>1
  <2> QED BY <2>1, <2>2, <1>1
<1>6. VisitsInv'
  <2>1. \A h \in Guest :
          /\ <<"accepted", h>> \in Queued' => <<"accepted", h>> \in Queued
          /\ <<"gone", h>> \in Queued' => <<"gone", h>> \in Queued
    BY <1>1, <1>5
  <2>2. VisitsInv
    BY DEF LifeInv
  <2> QED BY <2>1, <2>2, <1>2, <1>5, VisitsStay
<1>7. OpenInv /\ ~Closing => ~timerDue' /\ Plain("quit") \notin Queued'
  BY <1>1, <1>5 DEF OpenInv
<1>8. Stages => Stages'
  <2>1. CASE lifeQueue' = Rest
    <3> HIDE DEF e
    <3>1. /\ Queued = Queued' \union {e}
          /\ DisconnectedWaits(lifeQueue, Served) => DisconnectedWaits(lifeQueue', Served)
          /\ QuitWaits(lifeQueue) => QuitWaits(lifeQueue')
      BY <2>1, <1>1, QueueTaken DEF d
    <3>2. DisconnectedWaits(lifeQueue', Served) => DisconnectedWaits(lifeQueue', Served')
      BY <1>2 DEF DisconnectedWaits
    <3> QED BY <3>1, <3>2, <1>1 DEF Stages, ClientsStay, LastIsGone, TimeIsOver, LoopIsToEnd
  <2>2. CASE lifeQueue' = Append(Rest, d) /\ g \in Served /\ Served' = {}
    <3> HIDE DEF e
    <3>1. /\ d \notin Queued => DisconnectedWaits(lifeQueue', Served')
          /\ QuitWaits(lifeQueue) => QuitWaits(lifeQueue')
      BY <2>2, <1>1, QueueAnswered DEF d
    <3>2. CASE ClientsStay
      BY <3>1, <3>2, <1>1, <1>5
         DEF Stages, ClientsStay, LastIsGone, d
    <3>3. CASE LastIsGone
      BY <3>3, <2>2, <1>4 DEF LastIsGone
    <3>4. CASE TimeIsOver
      BY <3>4, <1>5 DEF TimeIsOver
    <3>5. CASE LoopIsToEnd
      BY <3>5, <3>1, <1>1 DEF Stages, LoopIsToEnd
    <3> QED BY <3>2, <3>3, <3>4, <3>5 DEF Stages
  <2> QED BY <2>1, <2>2, <1>1
<1>9. Closing /\ CloseInv => Stages'
  BY <1>8 DEF CloseInv
<1>10. timerDue' \in BOOLEAN
  BY <1>1 DEF LifeTypes, LoopType
<1> QED BY <1>1, <1>3, <1>5, <1>6, <1>7, <1>9, <1>10, QuietKeeps

LEMMA LastHasGoneKeeps ==
  ASSUME LifeInv, phase = "running", LastHasGone
  PROVE  LifeInv'
<1> DEFINE e == Plain("disconnected")
           d == Plain("quit")
<1>1. /\ LifeTypes /\ Takes(e) /\ e \notin Orders /\ e # d
      /\ d \in LifeEvent /\ d \notin Orders
      /\ \A h \in Guest : /\ d # <<"accepted", h>> /\ d # <<"gone", h>>
                          /\ e # <<"accepted", h>> /\ e # <<"gone", h>>
      /\ UNCHANGED <<appVars, frames, hears, restVars, phase>>
      /\ guests' = guests /\ leavers' = leavers
      /\ timerDue' = timerDue /\ visits' = visits
      /\ lifeQueue' = IF hears THEN Append(Rest, d) ELSE Rest
  BY EventsDiffer DEF LifeInv, LastHasGone
<1>2. Served' = Served
  BY <1>1 DEF Served
<1>3. ClientsType'
  BY <1>1 DEF LifeTypes, ClientsType
<1>4. /\ lifeQueue \in Seq(LifeEvent) /\ lifeQueue # << >> /\ Head(lifeQueue) = e
      /\ Rest = Tail(lifeQueue) /\ Rest \in Seq(LifeEvent) /\ ~timerDue
  BY <1>1, Taken DEF LifeTypes, LoopType, Takes, Rest
<1>5. QuitWaits(lifeQueue) => FALSE
  BY <1>1, <1>4, QuitTaken
<1> HIDE DEF d, e
<1>6. Queued = Elements(Rest) \union {e}
  BY <1>4, TakenElements, QueuedElements
<1>7. /\ lifeQueue' \in Seq(LifeEvent)
      /\ Queued' \subseteq Queued \union {d}
      /\ \A o \in Orders : o \in Queued' <=> o \in Queued
      /\ \A h \in Guest : Once({<<"accepted", h>>}, lifeQueue) =>
                            Once({<<"accepted", h>>}, lifeQueue')
      /\ Once(Orders, lifeQueue) => Once(Orders, lifeQueue')
      /\ ~hears => Queued' \subseteq Queued
  <2>1. CASE ~hears
    <3>1. /\ lifeQueue' \in Seq(LifeEvent) /\ Queued = Queued' \union {e}
          /\ \A S : Once(S, lifeQueue) => Once(S, lifeQueue')
      BY <2>1, <1>1, QueueTaken
    <3> QED BY <3>1, <1>1
  <2>2. CASE hears
    <3>1. /\ lifeQueue' \in Seq(LifeEvent)
          /\ Queued' \subseteq Queued \union {d}
          /\ \A S : Once(S, lifeQueue) /\ d \notin S => Once(S, lifeQueue')
      BY <2>2, <1>1, QueueAnswered
    <3>2. Queued' = Elements(Rest) \union {d}
      BY <2>2, <1>1, <1>4, AddedElements, QueuedElements
    <3>3. \A h \in Guest : d \notin {<<"accepted", h>>}
      BY <1>1
    <3> QED BY <3>1, <3>2, <3>3, <1>1, <1>6, <2>2
  <2> QED BY <2>1, <2>2, <1>1 DEF LifeTypes, LoopType
<1>8. VisitsInv'
  <2>1. \A h \in Guest :
          /\ <<"accepted", h>> \in Queued' => <<"accepted", h>> \in Queued
          /\ <<"gone", h>> \in Queued' => <<"gone", h>> \in Queued
    BY <1>1, <1>7
  <2>2. VisitsInv
    BY DEF LifeInv
  <2> QED BY <2>1, <2>2, <1>2, <1>7, VisitsStay
<1>9. OpenInv /\ ~Closing => ~timerDue' /\ Plain("quit") \notin Queued'
  BY <1>1, <1>7 DEF OpenInv
<1>10. Closing /\ CloseInv => Stages'
  <2> SUFFICES ASSUME Closing, CloseInv
               PROVE  Stages'
    OBVIOUS
  <2>1. hears /\ Stages
    BY DEF CloseInv
  <2>2. e \in Queued
    BY <1>6
  <2>3. LastIsGone
    BY <2>1, <2>2, <1>4, <1>5 DEF Stages, ClientsStay, TimeIsOver, LoopIsToEnd, e
  <2>4. DisconnectedWaits(lifeQueue, Served) /\ Plain("quit") \notin Queued
    BY <2>3 DEF LastIsGone
  <2>5. lifeQueue' = Append(Rest, d)
    BY <2>1, <1>1
  <2>6. d # Plain("disconnected") /\ e = Plain("disconnected") /\ d = Plain("quit")
    BY <1>1 DEF d, e
  <2>7. QuitWaits(lifeQueue')
    BY <2>4, <2>5, <2>6, <1>1, QueueAnswered
  <2> QED BY <2>7, <1>1, <1>4 DEF Stages, LoopIsToEnd
<1>11. timerDue' \in BOOLEAN
  BY <1>1 DEF LifeTypes, LoopType
<1> QED BY <1>1, <1>3, <1>7, <1>8, <1>9, <1>10, <1>11, QuietKeeps

LEMMA TimerQuitsKeeps ==
  ASSUME LifeInv, phase = "running", TimerQuits
  PROVE  LifeInv'
<1> DEFINE e == Plain("quit")
<1>1. /\ LifeTypes /\ e \in LifeEvent /\ e \notin Orders /\ Posts(e)
      /\ \A h \in Guest : e # <<"accepted", h>> /\ e # <<"gone", h>>
      /\ UNCHANGED <<appVars, frames, hears, restVars, phase>>
      /\ guests' = guests /\ leavers' = leavers /\ timerDue /\ ~timerDue' /\ visits' = visits
  BY EventsDiffer DEF LifeInv, TimerQuits
<1> HIDE DEF e
<1>2. /\ lifeQueue' \in Seq(LifeEvent) /\ Queued' = Queued \union {e}
      /\ \A S : Once(S, lifeQueue) /\ e \notin S => Once(S, lifeQueue')
  BY <1>1, QueuePosted
<1>3. Served' = Served
  BY <1>1 DEF Served
<1>4. ClientsType'
  BY <1>1 DEF LifeTypes, ClientsType
<1>5. VisitsInv'
  <2>1. \A h \in Guest : e \notin {<<"accepted", h>>}
    BY <1>1
  <2>2. \A h \in Guest :
          /\ <<"accepted", h>> \in Queued' => <<"accepted", h>> \in Queued
          /\ <<"gone", h>> \in Queued' => <<"gone", h>> \in Queued
          /\ Once({<<"accepted", h>>}, lifeQueue) => Once({<<"accepted", h>>}, lifeQueue')
    BY <2>1, <1>1, <1>2
  <2>3. VisitsInv
    BY DEF LifeInv
  <2> QED BY <2>2, <2>3, <1>3, VisitsStay
<1>6. /\ \A o \in Orders : o \in Queued' <=> o \in Queued
      /\ Once(Orders, lifeQueue) => Once(Orders, lifeQueue')
  BY <1>1, <1>2
<1>7. OpenInv /\ ~Closing => FALSE
  BY <1>1 DEF OpenInv
<1>8. Stages => Stages'
  <2> SUFFICES ASSUME Stages
               PROVE  Stages'
    OBVIOUS
  <2>1. Plain("disconnected") \notin Queued /\ Plain("quit") \notin Queued
    BY <1>1 DEF Stages, ClientsStay, LastIsGone, TimeIsOver, LoopIsToEnd
  <2>2. QuitWaits(lifeQueue')
    BY <2>1, <1>1, QueuePosted DEF e
  <2> QED BY <2>2, <1>1 DEF Stages, LoopIsToEnd
<1>9. Closing /\ CloseInv => Stages'
  BY <1>8 DEF CloseInv
<1>10. timerDue' \in BOOLEAN
  BY <1>1 DEF TimerQuits
<1> QED BY <1>1, <1>2, <1>4, <1>5, <1>6, <1>7, <1>9, <1>10, QuietKeeps

LEMMA TimerExpiresKeeps ==
  ASSUME LifeInv, phase = "running", TimerExpires
  PROVE  LifeInv'
<1>1. /\ LifeTypes /\ ~timerDue /\ lifeQueue = << >> /\ timerDue' = TRUE
      /\ UNCHANGED <<appVars, guests, leavers, visits, lifeQueue, hears, restVars, phase>>
  BY DEF LifeInv, TimerExpires, NothingWaits
<1>2. PICK i \in 1 .. Len(frames) : frames' = [frames EXCEPT ![i].timer = FALSE]
  BY DEF TimerExpires
<1>3. frames \in Seq(Frame)
  BY <1>1 DEF LifeTypes, LoopType
<1>4. /\ frames' \in Seq(Frame) /\ Len(frames') = Len(frames)
      /\ frames # << >> /\ frames' # << >>
      /\ \A j \in 1 .. Len(frames) : /\ frames'[j].then = frames[j].then
                                     /\ frames'[j].stale = frames[j].stale
  <2>1. PICK f : f = [frames[i] EXCEPT !.timer = FALSE]
    OBVIOUS
  <2>2. f \in Frame /\ f.then = frames[i].then /\ f.stale = frames[i].stale
    <3>1. PICK g : g = frames[i]
      OBVIOUS
    <3>2. g \in Frame
      BY <3>1, <1>3
    <3>3. f = [g EXCEPT !.timer = FALSE]
      BY <3>1, <2>1
    <3> QED BY <3>1, <3>2, <3>3 DEF Frame
  <2>3. frames' = [frames EXCEPT ![i] = f]
    BY <2>1, <1>2
  <2>4. frames' \in Seq(Frame) /\ Len(frames') = Len(frames)
    BY <2>2, <2>3, <1>3
  <2>5. \A j \in 1 .. Len(frames) : frames'[j] = IF j = i THEN f ELSE frames[j]
    BY <2>3, <1>3
  <2>6. Len(frames) # 0 /\ frames # << >> /\ frames' # << >>
    BY <2>4, <1>3
  <2> QED BY <2>2, <2>4, <2>5, <2>6
<1>5. LifeTypes'
  <2>1. PartsType' /\ ClientsType' /\ OutsideType'
    BY <1>1 DEF LifeTypes, PartsType, ClientsType, OutsideType, appVars, restVars
  <2>2. LoopType'
    BY <1>1, <1>4 DEF LifeTypes, LoopType
  <2> QED BY <2>1, <2>2 DEF LifeTypes
<1>6. PartsInv'
  BY <1>1 DEF LifeInv, PartsInv, PartsFollowServer, appVars
<1>7. Queued = {} /\ Queued' = {}
  BY <1>1 DEF Queued
<1>8. VisitsInv'
  BY <1>7 DEF VisitsInv
<1>9. Closing /\ Closing'
  BY <1>4 DEF Closing
<1>10. ASSUME ~upset'
       PROVE  LoopInv'
  <2>1. LoopInv
    BY <1>1, <1>10 DEF LifeInv, restVars
  <2>2. /\ m_suspended' = m_suspended /\ m_server' = m_server /\ failed' = failed
        /\ m_fileTransferService' = m_fileTransferService /\ phase' = phase
        /\ hears' = hears /\ asleep' = asleep /\ asked' = asked
    BY <1>1 DEF appVars, restVars
  <2>3. /\ Len(frames) = 1 /\ ~frames[1].stale /\ hears /\ m_server
        /\ frames[1].then = "suspend" => asleep /\ ~m_suspended
        /\ frames[1].then = "end" => asked
    BY <2>1, <1>9 DEF LoopInv, CloseInv
  <2>4. frames'[1].then = frames[1].then /\ frames'[1].stale = frames[1].stale
    BY <2>3, <1>4
  <2>5. Stages'
    BY <1>1, <1>7 DEF Stages, TimeIsOver
  <2>6. CloseInv'
    BY <2>2, <2>3, <2>4, <2>5, <1>4, <1>7 DEF CloseInv
  <2>7. OpenInv'
    BY <1>9 DEF OpenInv
  <2>8. OrdersInv'
    <3>1. Once(Orders, lifeQueue')
      BY <1>1 DEF Once
    <3> QED BY <3>1, <1>7 DEF OrdersInv
  <2>9. FollowsInv'
    BY <2>1, <2>2, <2>4, <1>7, <1>9 DEF LoopInv, FollowsInv
  <2> QED BY <2>6, <2>7, <2>8, <2>9 DEF LoopInv
<1> QED BY <1>5, <1>6, <1>8, <1>10 DEF LifeInv

\* While the application is not upset it takes an order only when no server closes.
LEMMA OrderIsTakenAtRest ==
  ASSUME LifeInv, ~upset, NEW e \in Orders, Takes(e)
  PROVE  /\ LoopInv /\ e \in Queued /\ frames = << >> /\ ~Closing
         /\ ~hears /\ ~timerDue /\ Plain("quit") \notin Queued
         /\ \A o \in Orders : o \in Queued => o = e
<1>1. LifeTypes /\ LoopInv
  BY DEF LifeInv
<1>2. lifeQueue \in Seq(LifeEvent) /\ lifeQueue # << >> /\ Head(lifeQueue) = e
  BY <1>1 DEF LifeTypes, LoopType, Takes
<1>3. Queued = Elements(Tail(lifeQueue)) \union {e}
  BY <1>2, TakenElements, QueuedElements
<1>4. ~Closing
  BY <1>1, <1>3 DEF LoopInv, CloseInv
<1>5. \A o \in Elements(Tail(lifeQueue)) : o \notin Orders
  BY <1>1, <1>2, OnceTaken DEF LoopInv, OrdersInv
<1> QED BY <1>1, <1>3, <1>4, <1>5 DEF LoopInv, OpenInv, Closing

\* What is left in the queue once an order was taken.
LEMMA OrderTaken ==
  ASSUME LifeInv, NEW e \in Orders, Takes(e), lifeQueue' = Rest, Served' = Served
  PROVE  /\ lifeQueue' \in Seq(LifeEvent) /\ VisitsInv' /\ Queued' \subseteq Queued
         /\ ~upset => Once(Orders, lifeQueue') /\ \A d \in Queued' : d \notin Orders
<1>1. LifeTypes /\ VisitsInv
  BY DEF LifeInv
<1>2. /\ lifeQueue' \in Seq(LifeEvent) /\ Queued = Queued' \union {e}
      /\ \A S : Once(S, lifeQueue) =>
           Once(S, lifeQueue') /\ (e \in S => \A d \in Queued' : d \notin S)
  BY <1>1, QueueTaken
<1>3. VisitsInv'
  BY <1>1, <1>2, VisitsStay
<1>4. ~upset => Once(Orders, lifeQueue)
  BY DEF LifeInv, LoopInv, OrdersInv
<1> QED BY <1>2, <1>3, <1>4

LEMMA SuspendNotesKeeps ==
  ASSUME LifeInv, phase = "running", SuspendNotes
  PROVE  LifeInv'
<1> DEFINE e == Plain("suspend")
<1>1. /\ LifeTypes /\ Takes(e) /\ e \in Orders /\ lifeQueue' = Rest
      /\ m_suspended \/ m_serverState # "Started"
      /\ m_suspended' = TRUE
      /\ UNCHANGED <<m_serverState, m_server, m_listener, m_fileTransferService, guests, leavers,
                     visits, frames, hears, timerDue, restVars, phase>>
  BY DEF LifeInv, SuspendNotes, Orders
<1>2. Served' = Served
  BY <1>1 DEF Served
<1>3. /\ lifeQueue' \in Seq(LifeEvent) /\ VisitsInv' /\ Queued' \subseteq Queued
      /\ ~upset => Once(Orders, lifeQueue') /\ \A d \in Queued' : d \notin Orders
  BY <1>1, <1>2, OrderTaken
<1>4. LifeTypes'
  <2>1. PartsType' /\ ClientsType'
    BY <1>1 DEF LifeTypes, PartsType, ClientsType
  <2>2. LoopType'
    BY <1>1, <1>3 DEF LifeTypes, LoopType
  <2>3. OutsideType'
    BY <1>1 DEF LifeTypes, OutsideType, restVars
  <2> QED BY <2>1, <2>2, <2>3 DEF LifeTypes
<1>5. PartsInv'
  BY <1>1 DEF LifeInv, PartsInv, PartsFollowServer
<1>6. ASSUME ~upset'
      PROVE  LoopInv'
  <2>1. ~upset /\ asleep' = asleep /\ failed' = failed /\ asked' = asked
    BY <1>1, <1>6 DEF restVars
  <2>2. /\ LoopInv /\ e \in Queued /\ frames = << >> /\ ~Closing
        /\ ~hears /\ ~timerDue /\ Plain("quit") \notin Queued
    BY <2>1, <1>1, OrderIsTakenAtRest
  <2>3. ~Closing'
    BY <2>2, <1>1 DEF Closing
  <2>4. asleep /\ ~m_suspended
    BY <2>2 DEF LoopInv, OrdersInv
  <2>5. ~m_server
    BY <2>4, <1>1 DEF LifeInv, PartsInv, PartsFollowServer
  <2>6. asleep \in BOOLEAN
    BY <1>1 DEF LifeTypes, OutsideType
  <2>7. OpenInv'
    BY <2>2, <1>1, <1>3 DEF OpenInv
  <2>8. OrdersInv'
    BY <2>1, <1>3 DEF OrdersInv, Orders
  <2>9. FollowsInv'
    BY <2>1, <2>2, <2>3, <2>4, <2>5, <2>6, <1>1 DEF LoopInv, FollowsInv
  <2> QED BY <2>3, <2>7, <2>8, <2>9 DEF LoopInv, CloseInv
<1> QED BY <1>3, <1>4, <1>5, <1>6 DEF LifeInv

LEMMA ResumesKeeps ==
  ASSUME LifeInv, phase = "running", NEW starts \in BOOLEAN, Resumes(starts)
  PROVE  LifeInv'
<1> DEFINE e == Plain("resume")
<1>1. /\ LifeTypes /\ Takes(e) /\ e \in Orders /\ lifeQueue' = Rest
      /\ m_suspended /\ m_suspended' = FALSE /\ failed' = ~starts
      /\ m_serverState' = IF starts THEN "Started" ELSE m_serverState
      /\ m_server' = starts /\ m_listener' = starts
      /\ m_fileTransferService' \in {FALSE, starts} /\ visits' = 0
      /\ UNCHANGED <<asleep, orders, asked, upset, guests, leavers, frames, hears,
                     timerDue, phase>>
  BY DEF LifeInv, Resumes, Orders
<1>2. Served' = Served
  BY <1>1 DEF Served
<1>3. /\ lifeQueue' \in Seq(LifeEvent) /\ VisitsInv' /\ Queued' \subseteq Queued
      /\ ~upset => Once(Orders, lifeQueue') /\ \A d \in Queued' : d \notin Orders
  BY <1>1, <1>2, OrderTaken
<1>4. m_serverState = "Initialized"
  BY <1>1 DEF LifeInv, PartsInv, PartsFollowServer, LifeTypes, PartsType
<1>5. LifeTypes'
  <2>1. PartsType'
    BY <1>1 DEF LifeTypes, PartsType
  <2>2. ClientsType'
    BY <1>1, LifeBoundAssumption DEF LifeTypes, ClientsType
  <2>3. LoopType'
    BY <1>1, <1>3 DEF LifeTypes, LoopType
  <2>4. OutsideType'
    BY <1>1 DEF LifeTypes, OutsideType
  <2> QED BY <2>1, <2>2, <2>3, <2>4 DEF LifeTypes
<1>6. PartsInv'
  BY <1>1, <1>4 DEF PartsInv, PartsFollowServer
<1>7. ASSUME ~upset'
      PROVE  LoopInv'
  <2>1. ~upset
    BY <1>1, <1>7
  <2>2. /\ LoopInv /\ e \in Queued /\ frames = << >> /\ ~Closing
        /\ ~hears /\ ~timerDue /\ Plain("quit") \notin Queued
    BY <2>1, <1>1, OrderIsTakenAtRest
  <2>3. ~Closing'
    BY <2>2, <1>1 DEF Closing
  <2>4. ~asleep /\ asleep' = asleep
    BY <2>2, <1>1 DEF LoopInv, OrdersInv
  <2>5. asleep \in BOOLEAN
    BY <1>1 DEF LifeTypes, OutsideType
  <2>6. OpenInv'
    BY <2>2, <1>1, <1>3 DEF OpenInv
  <2>7. OrdersInv'
    BY <2>1, <1>3 DEF OrdersInv, Orders
  <2>8. m_fileTransferService' => m_server'
    BY <1>1
  <2>9. FollowsInv'
    BY <2>3, <2>4, <2>5, <2>8, <1>1 DEF FollowsInv
  <2> QED BY <2>3, <2>6, <2>7, <2>9 DEF LoopInv, CloseInv
<1> QED BY <1>3, <1>5, <1>6, <1>7 DEF LifeInv

LEMMA ResumeIgnoredKeeps ==
  ASSUME LifeInv, phase = "running", ResumeIgnored
  PROVE  LifeInv'
<1> DEFINE e == Plain("resume")
<1>1. /\ LifeTypes /\ Takes(e) /\ e \in Orders /\ lifeQueue' = Rest /\ ~m_suspended
      /\ UNCHANGED <<appVars, guests, leavers, visits, frames, hears, timerDue, restVars, phase>>
  BY DEF LifeInv, ResumeIgnored, Orders
<1>2. Served' = Served
  BY <1>1 DEF Served
<1>3. lifeQueue' \in Seq(LifeEvent) /\ VisitsInv'
  BY <1>1, <1>2, OrderTaken
<1>4. ClientsType' /\ timerDue' \in BOOLEAN
  BY <1>1 DEF LifeTypes, ClientsType, LoopType
<1>5. upset
  <2> SUFFICES ASSUME ~upset
               PROVE  FALSE
    OBVIOUS
  <2>1. LoopInv /\ e \in Queued
    BY <1>1, OrderIsTakenAtRest
  <2> QED BY <2>1, <1>1 DEF LoopInv, OrdersInv
<1> QED BY <1>1, <1>3, <1>4, <1>5, QuietKeeps

LEMMA InnerLoopEndsKeeps ==
  ASSUME LifeInv, phase = "running", InnerLoopEnds
  PROVE  LifeInv'
<1> DEFINE last == frames[Len(frames)]
           d == Plain("disconnected")
<1>1. PICK e \in {Plain("quit"), Plain("askedQuit")} : Takes(e)
  BY DEF InnerLoopEnds, TakesQuit
<1>2. /\ LifeTypes /\ Closing
      /\ frames' = [i \in 1 .. Len(frames) - 1 |-> [frames[i] EXCEPT !.stale = TRUE]]
      /\ hears' = FALSE
      /\ lifeQueue' = IF Served = {} THEN Append(Rest, d) ELSE Rest
      /\ guests' = {} /\ leavers' = {} /\ visits' = 0
      /\ m_server' = FALSE /\ m_listener' = FALSE /\ m_serverState' = "Initialized"
      /\ m_suspended' = (m_suspended \/ last.then = "suspend")
      /\ phase' = IF last.stale THEN "undefined"
                  ELSE IF last.then = "end" THEN "ended" ELSE phase
      /\ UNCHANGED <<m_fileTransferService, timerDue, restVars>>
  BY DEF LifeInv, InnerLoopEnds, HearsNoMore, Served
<1>3. /\ d \in LifeEvent /\ d \notin Orders /\ d # Plain("quit")
      /\ \A h \in Guest : /\ d # <<"accepted", h>> /\ d # <<"gone", h>>
                          /\ e # <<"accepted", h>> /\ e # <<"gone", h>>
  <2>1. Plain("askedQuit") \in Orders
    BY DEF Orders
  <2>2. e = Plain("quit") \/ e \in Orders
    BY <2>1, <1>1
  <2> QED BY <2>2, EventsDiffer
<1>4. Served' = {}
  BY <1>2 DEF Served
<1>5. /\ frames \in Seq(Frame) /\ Len(frames) \in Nat \ {0}
      /\ last \in Frame
  <2>1. frames \in Seq(Frame) /\ frames # << >>
    BY <1>2 DEF LifeTypes, LoopType, Closing
  <2>2. Len(frames) \in Nat \ {0}
    BY <2>1
  <2>3. Len(frames) \in 1 .. Len(frames)
    BY <2>2
  <2> QED BY <2>1, <2>2, <2>3
<1>6. frames' \in Seq(Frame) /\ Len(frames') = Len(frames) - 1
  <2>1. PICK n : n = Len(frames) - 1
    OBVIOUS
  <2>2. n \in Nat /\ \A i \in 1 .. n : i \in 1 .. Len(frames)
    BY <2>1, <1>5
  <2>3. \A i \in 1 .. n : [frames[i] EXCEPT !.stale = TRUE] \in Frame
    <3> SUFFICES ASSUME NEW i \in 1 .. n
                 PROVE  [frames[i] EXCEPT !.stale = TRUE] \in Frame
      OBVIOUS
    <3>1. PICK f : f = frames[i]
      OBVIOUS
    <3>2. f \in Frame
      BY <3>1, <2>2, <1>5
    <3>3. [f EXCEPT !.stale = TRUE] \in Frame
      BY <3>2 DEF Frame
    <3> QED BY <3>1, <3>3
  <2>4. frames' = [i \in 1 .. n |-> [frames[i] EXCEPT !.stale = TRUE]]
    BY <2>1, <1>2
  <2>5. frames' \in [1 .. n -> Frame]
    BY ONLY <2>3, <2>4
  <2>6. frames' \in Seq(Frame) /\ Len(frames') = n
    BY ONLY <2>2, <2>5
  <2> QED BY ONLY <2>1, <2>6
<1> HIDE DEF d, last
<1>7. /\ lifeQueue' \in Seq(LifeEvent) /\ ~timerDue
      /\ Queued' \subseteq Queued \union {d}
      /\ \A S : Once(S, lifeQueue) /\ d \notin S => Once(S, lifeQueue')
      /\ QuitWaits(lifeQueue) /\ e = Plain("quit") => Plain("quit") \notin Queued'
  <2>1. CASE Served = {}
    BY <2>1, <1>1, <1>2, <1>3, QueueAnswered
  <2>2. CASE Served # {}
    BY <2>2, <1>1, <1>2, <1>3, QueueTaken
  <2> QED BY <2>1, <2>2
<1>8. VisitsInv'
  <2>1. \A h \in Guest : d \notin {<<"accepted", h>>}
    BY <1>3
  <2>2. \A h \in Guest :
          /\ <<"accepted", h>> \in Queued' => <<"accepted", h>> \in Queued
          /\ <<"gone", h>> \in Queued' => <<"gone", h>> \in Queued
          /\ Once({<<"accepted", h>>}, lifeQueue) => Once({<<"accepted", h>>}, lifeQueue')
    BY <2>1, <1>3, <1>7
  <2>3. VisitsInv
    BY DEF LifeInv
  <2> QED BY <2>2, <2>3, <1>4, VisitsStay
<1>9. LifeTypes'
  <2>1. PartsType'
    BY <1>2 DEF LifeTypes, PartsType
  <2>2. ClientsType'
    BY <1>2, LifeBoundAssumption DEF LifeTypes, ClientsType
  <2>3. phase' \in {"running", "ended", "undefined"}
    BY <1>2
  <2>4. LoopType'
    BY <1>2, <1>6, <1>7, <2>3 DEF LifeTypes, LoopType
  <2>5. OutsideType'
    BY <1>2 DEF LifeTypes, OutsideType, restVars
  <2> QED BY <2>1, <2>2, <2>4, <2>5 DEF LifeTypes
<1>10. PartsInv'
  BY <1>2 DEF PartsInv, PartsFollowServer
<1>11. ASSUME ~upset'
       PROVE  LoopInv'
  <2>1. /\ ~upset /\ asleep' = asleep /\ failed' = failed /\ asked' = asked
        /\ timerDue' = timerDue /\ m_fileTransferService' = m_fileTransferService
    BY <1>2, <1>11 DEF restVars
  <2>2. LoopInv
    BY <2>1 DEF LifeInv
  <2>3. /\ Len(frames) = 1 /\ ~frames[1].stale
        /\ \A o \in Queued : o \notin Orders
        /\ frames[1].then = "suspend" => asleep /\ ~m_suspended
        /\ frames[1].then = "end" => asked
        /\ Stages
    BY <2>2, <1>2 DEF LoopInv, CloseInv
  <2>4. last = frames[1]
    BY <2>3 DEF last
  <2>5. last.then \in {"suspend", "end"}
    BY <1>5 DEF Frame
  <2>6. e \in Queued
    <3>1. lifeQueue \in Seq(LifeEvent) /\ lifeQueue # << >> /\ Head(lifeQueue) = e
      BY <1>1, <1>2 DEF LifeTypes, LoopType, Takes
    <3> QED BY <3>1, TakenElements, QueuedElements
  <2>7. e = Plain("quit")
    BY <2>3, <2>6, <1>1 DEF Orders
  <2>8. QuitWaits(lifeQueue)
    BY <2>3, <2>6, <2>7, <1>7 DEF Stages, ClientsStay, LastIsGone, TimeIsOver, LoopIsToEnd
  <2>9. ~Closing'
    BY <2>3, <1>6 DEF Closing
  <2>10. Plain("quit") \notin Queued' /\ \A o \in Queued' : o \notin Orders
    BY <2>3, <2>7, <2>8, <1>3, <1>7
  <2>11. OpenInv'
    BY <2>1, <2>10, <1>2, <1>7 DEF OpenInv
  <2>12. Plain("suspend") \in Orders /\ Plain("resume") \in Orders
         /\ Plain("askedQuit") \in Orders
    BY DEF Orders
  <2>13. OrdersInv'
    <3>1. Once(Orders, lifeQueue)
      BY <2>2 DEF LoopInv, OrdersInv
    <3>2. Once(Orders, lifeQueue')
      BY <3>1, <1>3, <1>7
    <3> QED BY <3>2, <2>10, <2>12 DEF OrdersInv
  <2>14. asleep \in BOOLEAN /\ m_suspended \in BOOLEAN
    BY <1>2 DEF LifeTypes, OutsideType, PartsType
  <2>15. m_suspended' = asleep
    <3>1. CASE last.then = "suspend"
      BY <3>1, <2>3, <2>4, <2>14, <1>2
    <3>2. CASE last.then = "end"
      <4>1. m_suspended = asleep
        BY <3>2, <2>2, <2>3, <2>4, <2>12 DEF LoopInv, FollowsInv
      <4> QED BY <4>1, <3>2, <2>14, <1>2
    <3> QED BY <3>1, <3>2, <2>5
  <2>16. phase' = "running" => m_suspended'
    BY <2>3, <2>4, <2>5, <1>2
  <2>17. phase' # "undefined" /\ (phase' = "ended" => asked')
    BY <2>1, <2>3, <2>4, <1>2
  <2>18. ~m_fileTransferService'
    BY <2>1, <2>2, <1>2 DEF LoopInv, FollowsInv
  <2>19. FollowsInv'
    BY <2>1, <2>15, <2>16, <2>17, <2>18, <1>2 DEF FollowsInv
  <2> QED BY <2>9, <2>11, <2>13, <2>19 DEF LoopInv, CloseInv
<1> QED BY <1>8, <1>9, <1>10, <1>11 DEF LifeInv

LEMMA ClosesKeeps ==
  ASSUME LifeInv, phase = "running", m_serverState = "Started", NEW e, Takes(e),
         NEW then \in {"suspend", "end"}, Closes(then),
         UNCHANGED <<timerDue, asleep, orders, failed, asked>>,
         ~upset => /\ e \in Orders
                   /\ then = "suspend" => asleep /\ ~m_suspended
                   /\ then = "end" => asked /\ e = Plain("askedQuit"),
         \A g \in Guest : e # <<"accepted", g>> /\ e # <<"gone", g>>
  PROVE  LifeInv'
<1> DEFINE d == Plain("disconnected")
           f == [then |-> then, timer |-> TRUE, stale |-> FALSE]
<1>1. /\ LifeTypes
      /\ m_fileTransferService' = FALSE
      /\ guests' = {} /\ leavers' = leavers \union guests
      /\ lifeQueue' = IF leavers' = {} THEN Append(Rest, d) ELSE Rest
      /\ frames' = Append(frames, f)
      /\ hears' = TRUE
      /\ upset' = (upset \/ d \in Queued)
      /\ UNCHANGED <<m_serverState, m_server, m_listener, m_suspended, visits, phase>>
  BY DEF LifeInv, Closes, HasTimer
<1>2. /\ d \in LifeEvent /\ d \notin Orders /\ d # Plain("quit")
      /\ \A h \in Guest : d # <<"accepted", h>> /\ d # <<"gone", h>>
  BY EventsDiffer
<1>3. Served' = Served /\ Served' = leavers'
  BY <1>1 DEF Served
<1>4. f \in Frame /\ f.then = then /\ ~f.stale
  BY DEF Frame
<1> HIDE DEF d, f
<1>5. frames' \in Seq(Frame) /\ frames' # << >>
  BY <1>1, <1>4 DEF LifeTypes, LoopType
<1>6. /\ lifeQueue' \in Seq(LifeEvent) /\ ~timerDue
      /\ Queued' \subseteq Queued \union {d}
      /\ \A S : Once(S, lifeQueue) /\ d \notin S =>
           Once(S, lifeQueue') /\ (e \in S => \A x \in Queued' : x \notin S)
      /\ /\ leavers' = {} /\ d \notin Queued
         => DisconnectedWaits(lifeQueue', Served')
      /\ leavers' # {} => Queued' \subseteq Queued
  <2>1. CASE leavers' = {}
    <3>1. lifeQueue' = Append(Rest, d)
      BY <2>1, <1>1
    <3>2. /\ lifeQueue' \in Seq(LifeEvent) /\ ~timerDue
          /\ Queued' \subseteq Queued \union {d}
          /\ \A S : Once(S, lifeQueue) /\ d \notin S =>
               Once(S, lifeQueue') /\ (e \in S => \A x \in Queued' : x \notin S)
      BY <3>1, <1>1, <1>2, QueueAnswered
    <3>3. d \notin Queued => DisconnectedWaits(lifeQueue', Served')
      BY <3>1, <1>1, <1>2, <1>3, <2>1, QueueAnswered DEF d
    <3> QED BY <3>2, <3>3, <2>1
  <2>2. CASE leavers' # {}
    <3>1. lifeQueue' = Rest
      BY <2>2, <1>1
    <3>2. /\ lifeQueue' \in Seq(LifeEvent) /\ ~timerDue /\ Queued = Queued' \union {e}
          /\ \A S : Once(S, lifeQueue) =>
               Once(S, lifeQueue') /\ (e \in S => \A x \in Queued' : x \notin S)
      BY <3>1, <1>1, QueueTaken
    <3> QED BY <3>2, <2>2
  <2> QED BY <2>1, <2>2
<1>7. VisitsInv'
  <2>1. \A h \in Guest : d \notin {<<"accepted", h>>}
    BY <1>2
  <2>2. \A h \in Guest :
          /\ <<"accepted", h>> \in Queued' => <<"accepted", h>> \in Queued
          /\ <<"gone", h>> \in Queued' => <<"gone", h>> \in Queued
          /\ Once({<<"accepted", h>>}, lifeQueue) => Once({<<"accepted", h>>}, lifeQueue')
    BY <2>1, <1>2, <1>6
  <2>3. VisitsInv
    BY DEF LifeInv
  <2> QED BY <2>2, <2>3, <1>3, VisitsStay
<1>8. LifeTypes'
  <2>1. PartsType'
    BY <1>1 DEF LifeTypes, PartsType
  <2>2. ClientsType'
    BY <1>1 DEF LifeTypes, ClientsType
  <2>3. LoopType'
    BY <1>1, <1>5, <1>6 DEF LifeTypes, LoopType
  <2>4. OutsideType'
    BY <1>1 DEF LifeTypes, OutsideType
  <2> QED BY <2>1, <2>2, <2>3, <2>4 DEF LifeTypes
<1>9. PartsInv'
  BY <1>1 DEF LifeInv, PartsInv, PartsFollowServer
<1>10. ASSUME ~upset'
       PROVE  LoopInv'
  <2>1. ~upset /\ d \notin Queued /\ e \in Orders
    BY <1>1, <1>10
  <2>2. /\ LoopInv /\ frames = << >> /\ Plain("quit") \notin Queued
        /\ \A o \in Orders : o \in Queued => o = e
    BY <2>1, OrderIsTakenAtRest
  <2>3. Once(Orders, lifeQueue') /\ \A o \in Queued' : o \notin Orders
    BY <2>1, <2>2, <1>2, <1>6 DEF LoopInv, OrdersInv
  <2>4. Len(frames') = 1 /\ frames'[1] = f /\ Closing'
    BY <2>2, <1>1 DEF Closing
  <2>5. m_server
    BY DEF LifeInv, PartsInv, PartsFollowServer
  <2>6. Plain("quit") \notin Queued'
    BY <2>2, <1>2, <1>6
  <2>7. Stages'
    <3>1. CASE leavers' = {}
      <4>1. DisconnectedWaits(lifeQueue', Served')
        BY <3>1, <2>1, <1>6
      <4> QED BY <4>1, <2>6, <1>6 DEF Stages, LastIsGone
    <3>2. CASE leavers' # {}
      <4>1. Plain("disconnected") \notin Queued'
        BY <3>2, <2>1, <1>6 DEF d
      <4> QED BY <4>1, <2>6, <1>6 DEF Stages, ClientsStay
    <3> QED BY <3>1, <3>2
  <2>8. CloseInv'
    BY <2>1, <2>3, <2>4, <2>5, <2>7, <1>1, <1>4 DEF CloseInv
  <2>9. OpenInv'
    BY <2>4 DEF OpenInv
  <2>10. Plain("suspend") \in Orders /\ Plain("resume") \in Orders
         /\ Plain("askedQuit") \in Orders
    BY DEF Orders
  <2>11. OrdersInv'
    BY <2>3, <2>10 DEF OrdersInv
  <2>12. ~m_suspended
    BY <2>5 DEF LifeInv, PartsInv
  <2>13. then = "end" => m_suspended' = asleep'
    <3> SUFFICES ASSUME then = "end"
                 PROVE  m_suspended' = asleep'
      OBVIOUS
    <3>1. Plain("suspend") \notin Queued /\ Plain("resume") \notin Queued
      <4>1. e = Plain("askedQuit")
        BY <2>1
      <4> QED BY <4>1, <2>2, <2>10, EventsDiffer
    <3> QED BY <3>1, <2>2, <1>1 DEF LoopInv, FollowsInv, Closing
  <2>14. FollowsInv'
    BY <2>4, <2>13, <1>1, <1>4 DEF FollowsInv
  <2> QED BY <2>8, <2>9, <2>11, <2>14 DEF LoopInv
<1> QED BY <1>7, <1>8, <1>9, <1>10 DEF LifeInv

LEMMA SuspendClosesKeeps ==
  ASSUME LifeInv, phase = "running", SuspendCloses
  PROVE  LifeInv'
<1> DEFINE e == Plain("suspend")
<1>1. /\ Takes(e) /\ e \in Orders /\ ~m_suspended /\ m_serverState = "Started"
      /\ Closes("suspend") /\ UNCHANGED <<timerDue, asleep, orders, failed, asked>>
  BY DEF SuspendCloses, Orders
<1>2. \A g \in Guest : e # <<"accepted", g>> /\ e # <<"gone", g>>
  BY <1>1, EventsDiffer
<1>3. ~upset => asleep
  <2>1. ~upset => LoopInv /\ e \in Queued
    BY <1>1, OrderIsTakenAtRest
  <2> QED BY <2>1 DEF LoopInv, OrdersInv
<1>4. "suspend" \in {"suspend", "end"} /\ "suspend" # "end"
  OBVIOUS
<1> QED BY <1>1, <1>2, <1>3, <1>4, ClosesKeeps

LEMMA MainLoopEndsKeeps ==
  ASSUME LifeInv, phase = "running", MainLoopEnds
  PROVE  LifeInv'
<1>1. PICK e \in {Plain("quit"), Plain("askedQuit")} : Takes(e)
  BY DEF MainLoopEnds, TakesQuit
<1>2. ~Closing /\ UNCHANGED <<timerDue, asleep, orders, failed, asked>>
  BY DEF MainLoopEnds
<1>3. Plain("askedQuit") \in Orders
  BY DEF Orders
<1>4. \A g \in Guest : e # <<"accepted", g>> /\ e # <<"gone", g>>
  <2>1. e = Plain("quit") \/ e \in Orders
    BY <1>1, <1>3
  <2> QED BY <2>1, EventsDiffer
<1>5. LifeTypes /\ VisitsInv
  BY DEF LifeInv
<1>6. e \in Queued
  <2>1. lifeQueue \in Seq(LifeEvent) /\ lifeQueue # << >> /\ Head(lifeQueue) = e
    BY <1>1, <1>5 DEF LifeTypes, LoopType, Takes
  <2> QED BY <2>1, TakenElements, QueuedElements
<1>7. ~upset => LoopInv /\ e = Plain("askedQuit") /\ asked
  <2>1. ~upset => LoopInv
    BY DEF LifeInv
  <2>2. ~upset => e = Plain("askedQuit")
    BY <2>1, <1>1, <1>2, <1>6 DEF LoopInv, OpenInv
  <2> QED BY <2>1, <2>2, <1>6 DEF LoopInv, OrdersInv
<1>8. CASE m_serverState = "Started" /\ Closes("end")
  <2>1. "end" \in {"suspend", "end"} /\ "suspend" # "end"
    OBVIOUS
  <2> QED BY <2>1, <1>1, <1>2, <1>3, <1>4, <1>7, <1>8, ClosesKeeps
<1>9. CASE /\ m_serverState # "Started" /\ phase' = "ended" /\ lifeQueue' = Rest
           /\ UNCHANGED <<appVars, guests, leavers, visits, frames, hears, upset>>
  <2>1. /\ lifeQueue' \in Seq(LifeEvent) /\ Queued = Queued' \union {e}
        /\ \A S : Once(S, lifeQueue) =>
             Once(S, lifeQueue') /\ (e \in S => \A d \in Queued' : d \notin S)
    BY <1>1, <1>5, <1>9, QueueTaken
  <2>2. Served' = Served
    BY <1>9 DEF Served
  <2>3. VisitsInv'
    BY <2>1, <2>2, <1>5, VisitsStay
  <2>4. LifeTypes'
    <3>1. PartsType' /\ ClientsType'
      BY <1>5, <1>9 DEF LifeTypes, PartsType, ClientsType, appVars
    <3>2. LoopType'
      BY <2>1, <1>2, <1>5, <1>9 DEF LifeTypes, LoopType
    <3>3. OutsideType'
      BY <1>2, <1>5, <1>9 DEF LifeTypes, OutsideType
    <3> QED BY <3>1, <3>2, <3>3 DEF LifeTypes
  <2>5. PartsInv'
    BY <1>9 DEF LifeInv, PartsInv, PartsFollowServer, appVars
  <2>6. ASSUME ~upset'
        PROVE  LoopInv'
    <3>1. ~upset /\ LoopInv /\ e = Plain("askedQuit") /\ asked
      BY <2>6, <1>7, <1>9
    <3>2. /\ \A o \in Orders : o \in Queued => o = e
          /\ ~hears /\ ~timerDue /\ Plain("quit") \notin Queued
      BY <3>1, <1>1, <1>3, OrderIsTakenAtRest
    <3>3. /\ m_suspended' = m_suspended /\ m_server' = m_server /\ failed' = failed
          /\ m_fileTransferService' = m_fileTransferService
          /\ frames' = frames /\ hears' = hears /\ asleep' = asleep /\ asked' = asked
          /\ timerDue' = timerDue
      BY <1>2, <1>9 DEF appVars
    <3>4. ~Closing'
      BY <3>3, <1>2 DEF Closing
    <3>5. OpenInv'
      BY <3>2, <3>3, <2>1 DEF OpenInv
    <3>6. Plain("suspend") \in Orders /\ Plain("resume") \in Orders
      BY DEF Orders
    <3>7. OrdersInv'
      BY <3>1, <3>3, <2>1 DEF LoopInv, OrdersInv
    <3>8. m_suspended = asleep
      <4>1. Plain("suspend") \notin Queued /\ Plain("resume") \notin Queued
        BY <3>1, <3>2, <3>6, EventsDiffer
      <4> QED BY <4>1, <3>1, <1>2 DEF LoopInv, FollowsInv
    <3>9. m_fileTransferService => m_server
      BY <3>1 DEF LoopInv, FollowsInv
    <3>10. phase' = "ended" /\ asked'
      BY <3>1, <3>3, <1>9
    <3>11. FollowsInv'
      BY <3>3, <3>4, <3>8, <3>9, <3>10 DEF FollowsInv
    <3> QED BY <3>4, <3>5, <3>7, <3>11 DEF LoopInv, CloseInv
  <2> QED BY <2>3, <2>4, <2>5, <2>6 DEF LifeInv
<1> QED BY <1>8, <1>9 DEF MainLoopEnds

LEMMA LifeGoesOn == LifeInv /\ [LifeNext]_lifeVars => LifeInv'
<1> SUFFICES ASSUME LifeInv, [LifeNext]_lifeVars
             PROVE  LifeInv'
  OBVIOUS
<1>1. CASE UNCHANGED lifeVars
  <2>1. /\ asleep' = asleep /\ m_serverState' = m_serverState /\ m_server' = m_server
        /\ m_listener' = m_listener /\ m_fileTransferService' = m_fileTransferService
        /\ m_suspended' = m_suspended /\ guests' = guests /\ leavers' = leavers
        /\ visits' = visits /\ orders' = orders /\ lifeQueue' = lifeQueue
        /\ frames' = frames /\ hears' = hears /\ timerDue' = timerDue /\ failed' = failed
        /\ asked' = asked /\ upset' = upset /\ phase' = phase
    BY <1>1 DEF lifeVars
  <2>2. Queued' = Queued /\ Served' = Served /\ (Closing' <=> Closing)
    BY <2>1 DEF Queued, Served, Closing
  <2>3. LifeTypes'
    BY <2>1 DEF LifeInv, LifeTypes, PartsType, ClientsType, LoopType, OutsideType
  <2>4. PartsInv'
    BY <2>1 DEF LifeInv, PartsInv, PartsFollowServer
  <2>5. VisitsInv'
    BY <2>1, <2>2 DEF LifeInv, VisitsInv
  <2>6. Stages => Stages'
    BY <2>1, <2>2 DEF Stages, ClientsStay, LastIsGone, TimeIsOver, LoopIsToEnd
  <2>7. LoopInv => CloseInv'
    BY <2>1, <2>2, <2>6 DEF LoopInv, CloseInv
  <2>8. LoopInv => OpenInv' /\ OrdersInv' /\ FollowsInv'
    BY <2>1, <2>2 DEF LoopInv, OpenInv, OrdersInv, FollowsInv
  <2> QED BY <2>1, <2>3, <2>4, <2>5, <2>7, <2>8 DEF LifeInv, LoopInv
<1>2. CASE LifeNext
  <2>1. phase = "running"
    BY <1>2 DEF LifeNext
  <2>2. CASE LoopSteps
    <3>1. CASE SuspendCloses
      BY <3>1, <2>1, SuspendClosesKeeps
    <3>2. CASE SuspendNotes
      BY <3>2, <2>1, SuspendNotesKeeps
    <3>3. CASE \E starts \in BOOLEAN : Resumes(starts)
      BY <3>3, <2>1, ResumesKeeps
    <3>4. CASE ResumeIgnored
      BY <3>4, <2>1, ResumeIgnoredKeeps
    <3>5. CASE \E g \in Guest : Adopts(g)
      BY <3>5, <2>1, AdoptsKeeps
    <3>6. CASE \E g \in Guest : Removes(g)
      BY <3>6, <2>1, RemovesKeeps
    <3>7. CASE LastHasGone
      BY <3>7, <2>1, LastHasGoneKeeps
    <3>8. CASE MainLoopEnds
      BY <3>8, <2>1, MainLoopEndsKeeps
    <3>9. CASE InnerLoopEnds
      BY <3>9, <2>1, InnerLoopEndsKeeps
    <3> QED BY <2>2, <3>1, <3>2, <3>3, <3>4, <3>5, <3>6, <3>7, <3>8, <3>9 DEF LoopSteps
  <2>3. CASE TimerExpires
    BY <2>3, <2>1, TimerExpiresKeeps
  <2>4. CASE TimerQuits
    BY <2>4, <2>1, TimerQuitsKeeps
  <2>5. CASE \E e \in Orders : Arrives(e)
    BY <2>5, <2>1, ArrivesKeeps
  <2>6. CASE \E g \in Guest : Visits(g)
    BY <2>6, <2>1, VisitsKeeps
  <2>7. CASE \E g \in Guest : Goes(g)
    BY <2>7, <2>1, GoesKeeps
  <2> QED BY <1>2, <2>2, <2>3, <2>4, <2>5, <2>6, <2>7 DEF LifeNext
<1> QED BY <1>1, <1>2

\* However many clients come and go, and whenever the machine sleeps, wakes or
\* is shut down: the application has a server exactly while the machine is awake
\* (or the start has failed) unless it is asked for something while it is busy,
\* and each close uses up the event that ends its loop.
THEOREM ServerAlwaysFollowsPower == LifeSpec => []ServerFollowsPower
<1>1. LifeInit => LifeInv
  BY LifeBegins
<1>2. LifeInv /\ [LifeNext]_lifeVars => LifeInv'
  BY LifeGoesOn
<1>3. LifeInv => ServerFollowsPower
  BY FollowsAtRest
<1> QED BY <1>1, <1>2, <1>3, PTL DEF LifeSpec
==============================================================================
