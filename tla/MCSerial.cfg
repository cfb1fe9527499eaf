SPECIFICATION SerialSpec
CONSTANTS
  t1 = t1
  t2 = t2
  t3 = t3
  todo = todo
  uno = uno
  ha = ha
  hb = hb
  sec = sec
  c1 = c1
  c2 = c2
  Nombres = {todo, uno}
  Titulos = {t1, t2}
  Secciones = {sec}
  Hosts = {ha, hb}
  SinTracker = SinTracker
  Coincide <- MCCoincide
  MaxRecientes = 0
  ListasIniciales <- MCListas
  HoyInicial = 1
  PrimerUid = 4
  Clientes = {c1, c2}
  Nadie = Nadie
  Peticiones <- MCPeticiones
  SinAnuncio = SinAnuncio
  MaxDia = 3
  MaxAceptados = 2
  MaxLlamadas = 2
INVARIANTS NuncaFueraDeRango DiasMinimos PrefijoDescartado
PROPERTIES CumplePromesa SoloSeVaLoDebido
CHECK_DEADLOCK FALSE
