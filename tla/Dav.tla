-------------------------------- MODULE Dav --------------------------------
(***************************************************************************)
(* Discovery on a DAV server (inbx-dav, and `discover` of caldav.rs and    *)
(* carddav.rs): from any URL to the principal, from there to the home set, *)
(* and from there to its collections of the wanted kind.                   *)
(*                                                                         *)
(* External, the server: `names_principal` and `names_home` say whether    *)
(* the base URL and the principal answer with the property asked for;      *)
(* `responses` is the depth-1 listing of the collection the chain ends at. *)
(* A response `mentions` the kind when its text has a tag of that name     *)
(* anywhere, in its resource type or in another property's name (servers   *)
(* also list the properties they have not got).                            *)
(***************************************************************************)
EXTENDS Sequences

\* A property's href, made absolute, or the URL the chain is at.
Follow(named, next, at) == IF named THEN next ELSE at

Home(server) == Follow(server.names_home, "home", Follow(server.names_principal, "principal", "base"))

\* discover: what mentions the kind, in the server's order, without the home
\* set itself -- as long as the server spells its URL as the chain does.
Discover(server) ==
    SelectSeq(server.responses, LAMBDA response : response.mentions /\ response.url # Home(server))

\* Servers: the wanted collection, another one that may mention the kind, and
\* the home set under its own or another spelling, in any order.
Response(url, mentions) == [url |-> url, mentions |-> mentions]

Server(names_principal, names_home, responses) ==
    [names_principal |-> names_principal, names_home |-> names_home, responses |-> responses]
=============================================================================
