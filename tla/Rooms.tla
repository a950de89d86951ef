------------------------------- MODULE Rooms -------------------------------
(***************************************************************************)
(* Who is in which watch party room: RoomService's activeRooms, and the    *)
(* RPC handlers of roomConnectHandler that look a user up under the mutex, *)
(* release it and act on the answer under the mutex again.  A tab is one   *)
(* browser tab of a user and has one request, or one viewer WebSocket, at  *)
(* a time; Signaling models what flows through the sockets.  GetRoom, and  *)
(* the lookup every answer ends with, only read.                           *)
(***************************************************************************)
EXTENDS Naturals

CONSTANTS Tabs,
          Users,
          UserOf,    \* the user each tab is logged in as
          Codes,     \* room codes; the first six characters of a UUID
          NoUser, NoRoom

ASSUME TabsAssumption == UserOf \in [Tabs -> Users]
ASSUME NoneAssumption == NoUser \notin Users /\ NoRoom \notin Codes

VARIABLES
  activeRooms,  \* the rooms that exist, with who is in them
  used,         \* codes given out so far
  reused,       \* codes given out more than once
  at,           \* where each tab's request is
  code          \* the room code its handler holds

request == <<at, code>>
codes == <<used, reused>>
roomsVars == <<activeRooms, codes, request>>

Room == [presenter : Users, viewer : Users \cup {NoUser}]

Existing == DOMAIN activeRooms

RequestStates ==
  {"idle", "look up", "create", "check", "join", "leave",
   "leave as viewer", "leave as presenter", "watching", "socket closed"}

RoomsTypeOK ==
  /\ Existing \subseteq used /\ reused \subseteq used /\ used \subseteq Codes
  /\ activeRooms \in [Existing -> Room]
  /\ at \in [Tabs -> RequestStates]
  /\ code \in [Tabs -> Codes \cup {NoRoom}]

RoomsInit ==
  /\ activeRooms = [c \in {} |-> NoRoom]
  /\ used = {}
  /\ reused = {}
  /\ at = [t \in Tabs |-> "idle"]
  /\ code = [t \in Tabs |-> NoRoom]

-----------------------------------------------------------------------------
(* RoomService. *)

IsPresenter(u, c) == activeRooms[c].presenter = u

IsIn(u, c) == activeRooms[c].presenter = u \/ activeRooms[c].viewer = u

RoomsOf(u) == {c \in Existing : IsIn(u, c)}

\* GetRoomForUser returns any of them: the iteration over the map has no order.
NotFound(u) == RoomsOf(u) = {}

Without(c) == [d \in Existing \ {c} |-> activeRooms[d]]

WithViewer(c, u) == [activeRooms EXCEPT ![c].viewer = u]

-----------------------------------------------------------------------------
(* How a request moves on. *)

Goes(t, from, to) ==
  /\ at[t] = from
  /\ at' = [at EXCEPT ![t] = to]

Holds(t, c) == code' = [code EXCEPT ![t] = c]

Ends(t, from) ==
  /\ Goes(t, from, "idle")
  /\ Holds(t, NoRoom)

-----------------------------------------------------------------------------
(* Plausible bugs, used only to show that the properties can fail. *)

\* LeaveRoom without the switch over the role.
LeaveFoundAnyRole(t) ==
  /\ \E c \in RoomsOf(UserOf[t]) :
       /\ Holds(t, c)
       /\ Goes(t, "leave", "leave as presenter")
  /\ UNCHANGED <<activeRooms, codes>>

-----------------------------------------------------------------------------
(* CreateRoom. *)

CreateRoom(t) ==
  /\ Goes(t, "idle", "look up")
  /\ UNCHANGED <<activeRooms, codes, code>>

LookUp(t) ==
  /\ Goes(t, "look up", IF NotFound(UserOf[t]) THEN "create" ELSE "idle")
  /\ UNCHANGED <<activeRooms, codes, code>>

\* The code is any: it is not compared with those of the rooms there are, and
\* one that is in use loses its room to the new one.
Create(t) ==
  /\ Goes(t, "create", "idle")
  /\ \E c \in Codes :
       /\ activeRooms' = [d \in Existing \cup {c} |->
            IF d = c THEN [presenter |-> UserOf[t], viewer |-> NoUser]
            ELSE activeRooms[d]]
       /\ used' = used \cup {c}
       /\ reused' = reused \cup ({c} \cap used)
  /\ UNCHANGED code

-----------------------------------------------------------------------------
(* JoinRoom. *)

JoinRoom(t, c) ==
  /\ Goes(t, "idle", "check")
  /\ Holds(t, c)
  /\ UNCHANGED <<activeRooms, codes>>

RoomExists(t) ==
  /\ code[t] \in Existing
  /\ Goes(t, "check", "join")
  /\ UNCHANGED <<activeRooms, codes, code>>

\* CodeNotFound, and CodeInternal when the room went away after the check.
JoinRoomFails(t) ==
  /\ code[t] \notin Existing
  /\ at[t] \in {"check", "join"}
  /\ Ends(t, at[t])
  /\ UNCHANGED <<activeRooms, codes>>

\* The viewer there was is replaced.
JoinViewer(t) ==
  /\ code[t] \in Existing
  /\ Ends(t, "join")
  /\ activeRooms' = WithViewer(code[t], UserOf[t])
  /\ UNCHANGED codes

-----------------------------------------------------------------------------
(* LeaveRoom. *)

LeaveRoom(t) ==
  /\ Goes(t, "idle", "leave")
  /\ UNCHANGED <<activeRooms, codes, code>>

LeaveNothing(t) ==
  /\ NotFound(UserOf[t])
  /\ Ends(t, "leave")
  /\ UNCHANGED <<activeRooms, codes>>

LeaveFound(t) ==
  /\ \E c \in RoomsOf(UserOf[t]) :
       /\ Holds(t, c)
       /\ Goes(t, "leave", IF IsPresenter(UserOf[t], c) THEN "leave as presenter"
                           ELSE "leave as viewer")
  /\ UNCHANGED <<activeRooms, codes>>

\* LeaveViewer, with nothing to say which viewer.
RemovesViewer(t) ==
  activeRooms' = IF code[t] \in Existing THEN WithViewer(code[t], NoUser)
                 ELSE activeRooms

LeaveViewer(t) ==
  /\ Ends(t, "leave as viewer")
  /\ RemovesViewer(t)
  /\ UNCHANGED codes

RemoveRoom(t) ==
  /\ Ends(t, "leave as presenter")
  /\ activeRooms' = Without(code[t])
  /\ UNCHANGED codes

-----------------------------------------------------------------------------
(* The page of a room, which opens a viewer WebSocket: it needs no JoinRoom, *)
(* and the room need not exist.                                              *)

OpenPage(t, c) ==
  /\ Goes(t, "idle", "watching")
  /\ Holds(t, c)
  /\ UNCHANGED <<activeRooms, codes>>

ClosePage(t) ==
  /\ Goes(t, "watching", "socket closed")
  /\ UNCHANGED <<activeRooms, codes, code>>

\* The deferred LeaveViewer of handleViewer.
SocketLeaves(t) ==
  /\ Ends(t, "socket closed")
  /\ RemovesViewer(t)
  /\ UNCHANGED codes

\* cleanupOldRooms removes a room that was inactive for roomMaxAge.
Cleanup(c) ==
  /\ c \in Existing
  /\ activeRooms' = Without(c)
  /\ UNCHANGED <<codes, request>>

-----------------------------------------------------------------------------
TabStep(t) ==
  \/ CreateRoom(t) \/ LookUp(t) \/ Create(t)
  \/ \E c \in Codes : JoinRoom(t, c) \/ OpenPage(t, c)
  \/ RoomExists(t) \/ JoinRoomFails(t) \/ JoinViewer(t)
  \/ LeaveRoom(t) \/ LeaveNothing(t) \/ LeaveFound(t)
  \/ LeaveViewer(t) \/ RemoveRoom(t)
  \/ ClosePage(t) \/ SocketLeaves(t)

RoomsNext ==
  \/ \E t \in Tabs : TabStep(t)
  \/ \E c \in Codes : Cleanup(c)

RoomsSpec == RoomsInit /\ [][RoomsNext]_roomsVars

-----------------------------------------------------------------------------
(* Properties. *)

\* The room of code c is removed, or is now a room of another presenter.
Gone(c) ==
  c \notin Existing' \/ activeRooms'[c].presenter # activeRooms[c].presenter

\* A room only goes away by a cleanup or because its presenter leaves, also
\* when the request that removes it decided on what it saw earlier: unless
\* CreateRoom has drawn its code more than once.
RemovedByItsPresenter ==
  [][\A c \in Existing : Gone(c) =>
       \/ Cleanup(c)
       \/ \E t \in Tabs : RemoveRoom(t) /\ IsPresenter(UserOf[t], c)
       \/ c \in reused']_roomsVars

\* Without the exception.  Not so: a code that is drawn again takes the room
\* from its presenter, and a LeaveRoom that saw the old room removes the new.
RemovedByItsPresenterOnly ==
  [][\A c \in Existing : Gone(c) =>
       \/ Cleanup(c)
       \/ \E t \in Tabs : RemoveRoom(t) /\ IsPresenter(UserOf[t], c)]_roomsVars

\* "LeaveRoom removes the current user from their room."  Not so: another
\* user may have become the viewer since the room was looked up.
LeaveRemovesTheCaller ==
  [][\A t \in Tabs : LeaveViewer(t) /\ code[t] \in Existing
       => activeRooms[code[t]].viewer \in {UserOf[t], NoUser}]_roomsVars
=============================================================================
