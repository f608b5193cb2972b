------------------------------ MODULE TeamRoles ------------------------------
(***************************************************************************)
(* How the coach of teamcontrol (Coach.cpp) deals out the roles of the     *)
(* field players.  It hears from the robots' message boards which role     *)
(* each plays ("NewRole: x"), compares this with the row of its policy for *)
(* the number of players in the game, and asks for changes ("ChangeRole:   *)
(* x") or, while it does not know a role, for the role ("WhichRole?").     *)
(*                                                                         *)
(* A message board is read with scan_for_prefix, which returns the first   *)
(* line that fits, so a list of messages is reduced to its first           *)
(* ChangeRole, its first NewRole and whether a WhichRole? is in it.        *)
(* Messages of the boards are sent once, without a receipt, and may be     *)
(* lost.  A robot's messages may overtake each other, and be late together *)
(* by any number of cycles of teamcontrol; what a robot is told is on its  *)
(* board within the cycle, or lost: a robot's cycle is shorter than that   *)
(* of teamcontrol.  All robots run the RCPlayer.                           *)
(***************************************************************************)
EXTENDS Naturals, FiniteSets, Sequences, Functions

CONSTANTS
  NumRobots,    \* robots of the team, 1..NumRobots
  Roles,        \* the names of the roles
  FirstRole,    \* the role of a WhiteBoard that has just been created
  MaxPlayers,   \* max_player of Policy.cpp
  Policy,       \* Policy[defensive][n]: the roles of n players; a place that
                \* the configuration leaves out has a name of its own
  Second,       \* cycles of teamcontrol in a second
  MaxUpsets     \* bound: interventions

Robots == 1..NumRobots

ASSUME RolesAssumption ==
  /\ NumRobots \in Nat \ {0} /\ Second \in Nat \ {0} /\ MaxUpsets \in Nat
  /\ FirstRole \in Roles
  /\ MaxPlayers \in Nat
  /\ Policy \in [BOOLEAN -> [1..MaxPlayers -> Seq(Roles)]]
  /\ \A d \in BOOLEAN : \A n \in 1..MaxPlayers : Len(Policy[d][n]) = n

VARIABLES
  role,       \* WhiteBoard::playerRole of each robot
  board,      \* the incoming messages of each robot's board
  said,       \* the first NewRole in each robot's outgoing stream
  toCoach,    \* messages on their way to teamcontrol
  shown,      \* what the widget knows: no connection, out of or in the game
  order,      \* outgoing messages of teamcontrol's board for each robot
  desired, actual, known, active,  \* Coach: desired_roles, actual_roles,
              \* role_known, is_active
  fresh,      \* cycles until activation_time is a second ago
  defensive,  \* was_defend of the dynamic policy
  upsets

rolesOfCoach == <<desired, actual, known, active, fresh, defensive>>
robotVars == <<role, board, said>>
rolesVars == <<robotVars, toCoach, shown, order, rolesOfCoach, upsets>>

NoRole == "no role"
Lines == [change : Roles \union {NoRole}, which : BOOLEAN]
NoLines == [change |-> NoRole, which |-> FALSE]
First(x, y) == IF x # NoRole THEN x ELSE y

(* Teamcontrol has just been started; the robots may have been running.    *)
RolesInit ==
  /\ role \in [Robots -> Roles]
  /\ board = [r \in Robots |-> NoLines]
  /\ said = [r \in Robots |-> NoRole]
  /\ toCoach = [r \in Robots |-> {}]
  /\ shown = [r \in Robots |-> "playing"]
  /\ order = [r \in Robots |-> NoLines]
  /\ desired = [r \in Robots |-> NoRole] /\ actual = [r \in Robots |-> NoRole]
  /\ known = [r \in Robots |-> FALSE]
  /\ active = [r \in Robots |-> FALSE] /\ fresh = [r \in Robots |-> 0]
  /\ defensive = TRUE
  /\ upsets = 0

Upset(happens) ==
  IF happens THEN upsets < MaxUpsets /\ upsets' = upsets + 1 ELSE UNCHANGED upsets
-----------------------------------------------------------------------------
(* A robot's answer may arrive or not; those that have arrived are read    *)
(* together, in any order, of which the first is told.                     *)
Mailed(waiting, m, arrives) == IF arrives THEN waiting \union {m} ELSE waiting
FirstOf(roles) == IF roles \subseteq {NoRole} THEN {NoRole} ELSE roles \ {NoRole}


(* WhiteBoard::checkMessageBoard                                           *)
RoleOf(r) == First(board[r].change, role[r])
Reports(r) == board[r].change # NoRole \/ board[r].which
LineOf(r) == First(said[r], IF Reports(r) THEN RoleOf(r) ELSE NoRole)

(* One cycle of the robot: the player looks at the board, which keeps its  *)
(* messages; then processRequests sends what the player has said, if it    *)
(* has been asked, and receive_all hears that there are no messages, or    *)
(* has not heard anything for too long, and clears the board, or neither.  *)
PlayerCycle(r, asked, arrives, cleared) ==
  /\ UNCHANGED <<shown, order, rolesOfCoach, upsets>>
  /\ role' = [role EXCEPT ![r] = RoleOf(r)]
  /\ said' = [said EXCEPT ![r] = IF asked THEN NoRole ELSE LineOf(r)]
  /\ toCoach' = [toCoach EXCEPT ![r] = Mailed(@, LineOf(r), asked /\ arrives)]
  /\ board' = [board EXCEPT ![r] = IF cleared THEN NoLines ELSE @]

(* The key 'R' of the robot's terminal changes the role and says so.       *)
RoleKeyPressed(r) ==
  /\ Upset(TRUE)
  /\ \E x \in Roles \ {role[r]} :
       /\ role' = [role EXCEPT ![r] = x]
       /\ said' = [said EXCEPT ![r] = First(@, x)]
  /\ UNCHANGED <<board, toCoach, shown, order, rolesOfCoach>>
-----------------------------------------------------------------------------
Playing(robots, plays, x) == Cardinality({r \in robots : plays[r] = x})
PlacesOf(row, x) == {i \in DOMAIN row : row[i] = x}

(* mutant: the first place is removed once too often                       *)
FreePlacesFewer(row, players, plays) ==
  {i \in DOMAIN row : Cardinality({j \in 1 .. i - 1 : row[j] = row[i]}) > Playing(players, plays, row[i])}

(* Every player that plays a role of the row removes its first place.      *)
FreePlaces(row, players, plays) ==
  {i \in DOMAIN row : Cardinality({j \in 1..i : row[j] = row[i]}) > Playing(players, plays, row[i])}

(* mutant: a robot too many finds its role                                 *)
KeptTooMany(row, players, new, plays) ==
  new \union {r \in players \ new :
     Playing({q \in players : q \in new \/ q < r}, plays, plays[r])
       <= Cardinality(PlacesOf(row, plays[r]))}

(* Robots that have just come into the game keep their roles in any case,  *)
(* then those that find theirs among the rest of the row.                  *)
Kept(row, players, new, plays) ==
  new \union {r \in players \ new :
     Playing({q \in players : q \in new \/ q < r}, plays, plays[r])
       < Cardinality(PlacesOf(row, plays[r]))}

(* The first of the places that are free go to the robots that are left,   *)
(* from the rearmost forward, however they stand.  A row that is too short *)
(* is read beyond its end.                                                 *)
DealtOut(row, free, robots, wishes) ==
  LET first == {i \in free : Cardinality({j \in free : j <= i}) <= Cardinality(robots)}
  IN  CASE free = {} -> {wishes}
        [] Cardinality(first) = Cardinality(robots) ->
             {[r \in Robots |-> IF r \in robots THEN row[place[r]] ELSE wishes[r]] :
                place \in Injection(robots, first)}
        [] OTHER -> {[r \in Robots |-> IF r \in robots THEN "garbage" ELSE wishes[r]]}

(* RemoteRobotWidget::communicate, for every robot: sends what coach and   *)
(* operator have written since the last cycle and reads what has come.     *)
Linked == {r \in Robots : shown[r] # "away"}
CommunicateBoards(arrive, read) ==
  /\ toCoach' = [r \in Robots |-> toCoach[r] \ read[r]]
  /\ board' = [r \in Robots |-> IF r \in arrive THEN order[r] ELSE board[r]]

(* The row of the policy for n players: behind the table of MaxPlayers     *)
(* rows lies anything.                                                     *)
RowFor(d, n) ==
  CASE n = 0 -> <<>>
    [] n \in 1..MaxPlayers -> Policy[d][n]
    [] OTHER -> [i \in 1..n |-> "garbage"]

(* Coach::update.  While a player has the ball (owned) the roles are left  *)
(* alone, else DynamicDefendOffendPolicy::update may find the ball beyond  *)
(* the hysteresis on the other side of the field (switch).  A robot from   *)
(* which something has come but not its GameState (missing) counts as out  *)
(* of the game in this cycle.                                              *)
Update(news, missing, owned, switch) ==
  LET players == {r \in Robots : shown[r] = "playing"} \ missing
      new == {r \in players : ~active[r] \/ fresh[r] > 0}
      attitude == defensive # switch
      plays == [r \in Robots |-> First(news[r], actual[r])]
      wishes == [r \in Robots |-> First(news[r], desired[r])]
      heard == {r \in Linked : known[r] \/ news[r] # NoRole}
      rivals == players \intersect heard
      row == RowFor(attitude, Cardinality(players))
      kept == Kept(row, rivals, new \intersect heard, plays)
      free == FreePlaces(row, rivals, plays)
  IN  /\ defensive' = attitude
      /\ actual' = plays
      /\ known' = [r \in Robots |-> r \in heard]
      /\ active' = [r \in Robots |-> r \in players]
      /\ fresh' = [r \in Robots |-> IF r \in players /\ ~active[r] THEN Second - 1
                                   ELSE IF fresh[r] > 0 THEN fresh[r] - 1 ELSE 0]
      /\ desired' \in IF owned THEN {wishes}
                      ELSE DealtOut(row, free, players \ kept, wishes)
      /\ order' = [r \in Robots |->
            LET rest == IF r \in Linked THEN NoLines ELSE order[r]
            IN  [change |-> First(rest.change, IF r \in heard /\ desired'[r] # plays[r]
                                               THEN desired'[r] ELSE NoRole),
                 which |-> rest.which \/ (r \in Linked \ heard)]]

(* The cycle of teamcontrol.                                               *)
CoachCycle(news, arrive, read, missing, owned, switch) ==
  /\ Upset(switch \/ missing # {})
  /\ UNCHANGED <<role, said, shown>>
  /\ CommunicateBoards(arrive, read)
  /\ Update(news, missing, owned, switch)

(* RemoteRobotWidget::roleChanged: the operator writes to the robot's      *)
(* board himself.                                                          *)
RoleChosen(r) ==
  /\ Upset(TRUE)
  /\ \E x \in Roles : order' = [order EXCEPT ![r].change = First(@, x)]
  /\ UNCHANGED <<robotVars, toCoach, shown, rolesOfCoach>>

(* The robot enters or leaves the game, the operator connects or           *)
(* disconnects; the answers to a closed connection are lost.               *)
Shows(r, s) ==
  /\ Upset(TRUE)
  /\ shown[r] # s
  /\ shown' = [shown EXCEPT ![r] = s]
  /\ toCoach' = IF s = "away" THEN [toCoach EXCEPT ![r] = {}] ELSE toCoach
  /\ UNCHANGED <<robotVars, order, rolesOfCoach>>

(* The program of a robot ends and is started again.                       *)
Restart(r) ==
  /\ Upset(TRUE)
  /\ role' = [role EXCEPT ![r] = FirstRole]
  /\ board' = [board EXCEPT ![r] = NoLines]
  /\ said' = [said EXCEPT ![r] = NoRole]
  /\ UNCHANGED <<toCoach, shown, order, rolesOfCoach>>

(* What can be read, and in which order; what can arrive.                  *)
Readable ==
  {[r \in Robots |-> IF r \in late THEN {} ELSE toCoach[r]] :
     late \in SUBSET {r \in Robots : toCoach[r] # {}}}
News(read) == {n \in [Robots -> Roles \union {NoRole}] : \A r \in Robots : n[r] \in FirstOf(read[r])}
Ordered == {r \in Linked : order[r] # NoLines}

AnyCoachCycle ==
  \E read \in Readable, arrive \in SUBSET Ordered,
     missing \in SUBSET {r \in Robots : shown[r] = "playing"} :
    \E news \in News(read), owned, switch \in BOOLEAN :
      /\ ~(owned /\ switch)
      /\ CoachCycle(news, arrive, read, missing, owned, switch)

RobotRuns(r) ==
  \E asked, arrives, cleared \in BOOLEAN :
    /\ asked => r \in Linked
    /\ arrives => asked /\ LineOf(r) # NoRole
    /\ cleared => board[r] # NoLines
    /\ PlayerCycle(r, asked, arrives, cleared)

World(r) ==
  \/ RoleKeyPressed(r) \/ RoleChosen(r) \/ Restart(r)
  \/ \E s \in {"away", "resting", "playing"} : Shows(r, s)

RolesNext == AnyCoachCycle \/ \E r \in Robots : RobotRuns(r) \/ World(r)

RolesSpec == RolesInit /\ [][RolesNext]_rolesVars

(* Both programs run, time passes, the ball is not owned for ever.         *)
CoachHearsAll ==
  /\ UNCHANGED <<role, said, shown, upsets>>
  /\ \E news \in News(toCoach) : CoachCycle(news, Ordered, toCoach, {}, FALSE, FALSE)
RobotAnswers(r) ==
  /\ r \in Linked /\ LineOf(r) # NoRole
  /\ UNCHANGED <<order, actual>>
  /\ \E cleared \in BOOLEAN : PlayerCycle(r, TRUE, TRUE, cleared)

(* What is to be heard: an order that is not on the board, an answer that  *)
(* is not on its way.                                                      *)
Unread(r) == r \in Ordered /\ board[r] # order[r]
Untold(r) == r \in Linked /\ LineOf(r) \notin {NoRole} \union toCoach[r]

(* Nothing changes in CoachHearsAll; the first conjunct follows from the   *)
(* second and is quicker to look at.                                       *)
CoachRests ==
  /\ \A r \in Robots : toCoach[r] = {} /\ ~Unread(r) /\ (active[r] <=> shown[r] = "playing")
  /\ ~ENABLED <<CoachHearsAll>>_rolesVars

(* Weak fairness of CoachHearsAll; and what is to be heard again and again *)
(* is heard again and again, which is less than strong fairness.           *)
RolesFairness ==
  /\ []<>CoachRests \/ []<><<CoachHearsAll>>_rolesVars
  /\ \A r \in Robots :
       /\ []<>Unread(r) => []<><<r \in Ordered /\ CoachHearsAll>>_rolesVars
       /\ []<>Untold(r) => []<><<RobotAnswers(r)>>_rolesVars
RolesFairSpec == RolesSpec /\ RolesFairness
-----------------------------------------------------------------------------
SomeRole == Roles \union {NoRole}

(* No policy has to be read beyond the end of its roles: desired roles are *)
(* roles.                                                                  *)
RolesTypeOK ==
  /\ role \in [Robots -> Roles] /\ said \in [Robots -> SomeRole]
  /\ board \in [Robots -> Lines] /\ order \in [Robots -> Lines]
  /\ toCoach \in [Robots -> SUBSET Roles]
  /\ shown \in [Robots -> {"away", "resting", "playing"}]
  /\ desired \in [Robots -> SomeRole] /\ actual \in [Robots -> SomeRole]
  /\ {known, active} \subseteq [Robots -> BOOLEAN]
  /\ fresh \in [Robots -> 0 .. Second - 1]
  /\ defensive \in BOOLEAN /\ upsets \in 0..MaxUpsets

Row == RowFor(defensive, Cardinality({r \in Robots : active[r]}))
Holders(x) == {r \in Robots : active[r] /\ known[r] /\ actual[r] = x}
Places(x) == {i \in 1..Len(Row) : Row[i] = x}

(* Once nobody intervenes any more and answers are complete, the coach     *)
(* comes to rest: it believes that it knows the role of every player, asks *)
(* for no change, and the roles it believes in are the row of its policy.  *)
Settled ==
  \/ \A r \in Robots : ~active[r]
  \/ /\ \A r \in Robots : active[r] => known[r] /\ desired[r] = actual[r]
     /\ \A x \in Roles : Cardinality(Holders(x)) = Cardinality(Places(x))
RolesSettle == <>[]Settled

=============================================================================
