----------------------------- MODULE MCSensorSync -----------------------------
(* The lidar: its regular period, a repeated stamp, a clock that goes back.    *)
(* The IMU: two rates, a clock that goes back, a gap that clears the buffer.   *)
(* The wheels: the lidar period, so that a datum falls on the boundary of two  *)
(* scans, and a clock that goes back.                                          *)
EXTENDS SensorSync

MCLidarSteps == {2, 0, -2}
MCImuSteps == {1, 2, -2, 6}
MCWheelSteps == {2, -2}
==============================================================================
