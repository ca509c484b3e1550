---------------------------- MODULE MCMqttClient ----------------------------
(* MqttClient for TLC, with times of one or two ticks and a queue of three packets. *)
EXTENDS MqttClient

=============================================================================
