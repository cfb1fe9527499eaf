SPECIFICATION Spec
CONSTANTS
  Trackers = {"a", "b"}
  Intervalos <- MCIntervalos
  MaxMinutos = 35791
  MaxVueltas = 2
INVARIANT RespuestaLeida
CHECK_DEADLOCK FALSE
