SPECIFICATION FairSpec
CONSTANTS
  h1 = h1
  h2 = h2
  Handlers = {h1, h2}
  Principal = Principal
  Nadie = Nadie
  MaxSenales = 2
  MaxLlamadas = 4
INVARIANTS TypeOK NadieUsaRssMuerto CerrojoDeUno
PROPERTIES SenalAcabaExec ShutdownAcaba FinalAlcanzado
CHECK_DEADLOCK FALSE
