----------------------------- MODULE MCPlatform -----------------------------
(* Instances of Platform for TLC: processes that start on an empty          *)
(* database, the accounts and writes of one event, and the discovery of     *)
(* three events while organizers change them.                               *)
EXTENDS Platform

CONSTANTS p1, p2, c1, c2, q1

MCHostOf == [c \in Clients \cup Requests |-> p1]

Near == [lat |-> 0, lng |-> 0, radiusMeters |-> 2]

(* A listing with neither date nor place nor category.                      *)
MCNewEvents == {[category |-> "", lat |-> 1, lng |-> NULL, starts |-> NULL]}

Listed(l, state) == [owner |-> "ann", state |-> state, category |-> nz(l.category, "general"),
                     lat |-> l.lat, lng |-> l.lng, starts |-> l.starts]
Ann == [role |-> "organizer", password |-> "x"]
Bob == [role |-> "buyer", password |-> "x"]
AnnsToken == [user |-> "ann", role |-> "organizer", proof |-> "x"]

ColdStart ==
    [users |-> [m \in Emails |-> NULL], tokens |-> {}, events |-> <<>>, tiers |-> <<>>,
     maxEvents |-> 0, maxTiers |-> 0, maxSold |-> 0, maxFaults |-> 0,
     clients |-> {c1}, rest |-> FALSE, graphql |-> FALSE, cold |-> TRUE, outages |-> MaxOutages]

Anns == [ColdStart EXCEPT !.cold = FALSE, !.outages = 0, !.tokens = {AnnsToken},
                          !.users = [m \in Emails |-> IF m = "ann" THEN Ann ELSE NULL]]

(* Ann has an account, Bob may register.                                    *)
Writes == [Anns EXCEPT !.rest = TRUE, !.maxFaults = 1,
                       !.maxEvents = 1, !.maxTiers = 1, !.maxSold = 1]

(* Two clients that write and read one event; both accounts exist.          *)
Readers == [Anns EXCEPT !.users = [m \in Emails |-> IF m = "ann" THEN Ann ELSE Bob],
                        !.events = <<Listed([category |-> "", lat |-> NULL, lng |-> NULL,
                                             starts |-> NULL], "draft")>>,
                        !.clients = {c1, c2}, !.rest = TRUE, !.maxTiers = 1]

(* One event, and a process that stops while requests run.                  *)
Restart == [Anns EXCEPT !.events = <<Listed([category |-> "music", lat |-> 1, lng |-> NULL,
                                             starts |-> NULL], "published")>>,
                        !.maxTiers = 1, !.maxFaults = 1, !.graphql = TRUE, !.outages = 1]

(* Three events, the second a draft, the third without tiers.               *)
Search ==
    [Anns EXCEPT
        !.events =
            << Listed([category |-> "music", lat |-> 2, lng |-> 0, starts |-> 1], "published"),
               Listed([category |-> "music", lat |-> 1, lng |-> 0, starts |-> 2], "draft"),
               Listed([category |-> "", lat |-> 0, lng |-> 0, starts |-> NULL], "published") >>,
        !.tiers = <<[event |-> 1, price |-> 2, capacity |-> 1, sold |-> 0, by |-> "ann"]>>,
        !.maxTiers = 2, !.maxSold = 1, !.graphql = TRUE]

MCLoads == {ColdStart, Writes, Readers, Restart, Search}

All == {"text", "place", "state", "startsAt", "minPriceCents", "tiers",
        "distanceMeters", "trendingScore"}

(* Both root fields; every dimension at once; refused arguments beside good *)
(* ones; no filter.                                                         *)
MCDocuments ==
    { [args |-> [events |-> NULL, eventsNearMe |-> Near], sel |-> All],
      [args |-> [events |-> [category |-> "music", startsAfter |-> 1, startsBefore |-> 2,
                             minPriceCents |-> 2, maxPriceCents |-> 2, near |-> Near]],
       sel |-> {"text", "minPriceCents"}],
      [args |-> [events |-> [maxPriceCents |-> 1]], sel |-> All],
      [args |-> [events |-> [startsAfter |-> Bad], eventsNearMe |-> Near], sel |-> {"text"}] }
=============================================================================
