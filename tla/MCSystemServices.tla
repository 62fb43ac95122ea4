-------------------------- MODULE MCSystemServices ---------------------------
(* Two endpoints while nobody listens; one endpoint and each of the        *)
(* services in turn.                                                       *)
EXTENDS SystemServices

CONSTANTS imu, temp

Both == {imu, temp}
Endpoint(e, built, critical) == [id |-> e, built |-> built, critical |-> critical]

One == <<Endpoint(imu, TRUE, FALSE)>>
Pairs == {<<Endpoint(imu, TRUE, c), Endpoint(temp, b, d)>> : b, c, d \in BOOLEAN}
Missing == <<Endpoint(imu, FALSE, FALSE)>>

TheConfigs == {One, Missing, <<>>} \cup Pairs

TheDeployments ==
    [config : TheConfigs, service : {"nobody"}, losses : {0}]
    \cup [config : {One}, service : {"health_monitor"}, losses : {0}]
    \cup [config : {One}, service : {"device_manager", "launch_manager"}, losses : {MaxLost}]

=============================================================================
