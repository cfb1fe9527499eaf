SPECIFICATION Spec
CONSTANTS
  t1 = t1
  t2 = t2
  t3 = t3
  todo = todo
  uno = uno
  ha = ha
  hb = hb
  sec = sec
  c1 = c1
  c2 = c2
  Nombres = {todo, uno}
  Titulos = {t1, t2, t3}
  Secciones = {sec}
  Hosts = {ha}
  SinTracker = SinTracker
  Coincide <- MCCoincide
  MaxRecientes = 1
  ListasIniciales <- MCListas
  HoyInicial = 1
  PrimerUid = 3
  Clientes = {c1}
  Nadie = Nadie
  Peticiones <- MCTodas
  SinAnuncio = SinAnuncio
  MaxDia = 1
  MaxAceptados = 4
  MaxLlamadas = 2
INVARIANT DiasMinimos

CHECK_DEADLOCK FALSE
