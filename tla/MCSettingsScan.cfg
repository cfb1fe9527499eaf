SPECIFICATION Spec
CONSTANTS
  o1 = o1  o2 = o2  u1 = u1  u2 = u2  p1 = p1  p2 = p2
  t1 = t1  t2 = t2  s1 = s1  s2 = s2  r1 = r1  r2 = r2  hoy = hoy
  Opciones = {o1, o2}
  Usuarios = {u1, u2}
  Claves = {p1, p2}
  Trackers = {t1, t2}
  Secretos = {s1, s2}
  Nombres = {r1, r2}
  Fechas = {hoy}
  SinFecha = SinFecha
  Intervalos <- MCIntervalos
  Ficheros <- MCFicheros
  Clientes = {c1}
  Principal = main
  Nadie = Nadie
  MaxCambios = 1
  MaxGuardados = 1
  MaxCaidas = 0
  MaxElementos = 3
PROPERTIES GuardaLasReglas
CHECK_DEADLOCK FALSE
