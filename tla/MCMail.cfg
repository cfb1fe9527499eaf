SPECIFICATION SpecCorreo
CONSTANT MaxEnvios <- MCMaxEnvios
INVARIANTS TipoCorreo CuerpoEsperado
PROPERTIES CumpleEntrega EnvioTermina
CHECK_DEADLOCK FALSE
