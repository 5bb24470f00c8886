---------------------------- MODULE MCComponents ----------------------------
(* A small instance of Components: two goroutines, two requests.           *)
EXTENDS Components, TLC

MCNames == {"a", "default", "*"}
MCComponentNames == {"a", "default"}
MCMatching == [a |-> {"*"}, default |-> {}]
MCParents == [a |-> <<"default">>, default |-> <<>>]
MCLogLevels == {-4, 4}
MCDebugLevel == -4
MCConfigs == {[default |-> 4, levels |-> [a |-> NoLevel, default |-> NoLevel] @@ ("*" :> -4)]}
=============================================================================
