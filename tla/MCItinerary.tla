---------------------------- MODULE MCItinerary ----------------------------
(* A catalogue of seven POIs for TLC.  One user is in the town of the first  *)
(* six, all in the search's reach; another is where two POIs are close and   *)
(* none is in reach.                                                         *)
EXTENDS Itinerary

MCKind == <<"restaurant", "restaurant", "restaurant", "attraction", "activity", "cafe", "restaurant">>
MCPlaces == {[reach |-> 1 .. 6, close |-> 1 .. 6], [reach |-> {}, close |-> {4, 7}]}
MCAnswers == {<<"restaurant", "park">>}
MCMentioned == {{}, {"attraction"}}
MCPast == {<<"cafe", "attraction">>}
MCWindows == {-3, 40}
MCCost == <<3, 1, 2, 2, 1, 1, 3>>
MCExperience == <<1, 3, 2, 2, 1, 2, 3>>

\* On a line, at these places.
MCPlace == <<0, 10, 15, 11, 12, 20, 30>>
MCTravel ==
    [e \in (1 .. 7) \X (1 .. 7) |->
        IF MCPlace[e[1]] > MCPlace[e[2]]
        THEN MCPlace[e[1]] - MCPlace[e[2]]
        ELSE MCPlace[e[2]] - MCPlace[e[1]]]
=============================================================================
